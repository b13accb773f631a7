----------------------------- MODULE MCService -----------------------------
(***************************************************************************)
(* Service with history variables: whether a start overwrote a key file    *)
(* that was there, and the verdict each line's own probe got.              *)
(***************************************************************************)
EXTENDS Service

CONSTANT a \* an API key

VARIABLES
  clobbered, \* a start created the key file although it existed
  verdicts   \* per line of the import under way: the answer to its probe, or None

historyVars == <<vars, clobbered, verdicts>>

Line(secret, plan) == [secret |-> secret, plan |-> plan]
MCPayloads == {<<Line(a, ""), Line(a, "vip"), Line(a, "")>>, <<Line(a, "free")>>}

\* The verdict that was noted in this step, wherever it was noted.
Noted == {imp'.found[i] : i \in {j \in Lines(imp) : imp'.found[j] # imp.found[j]}}

AnsweredFor(i) == i \in imp.probing \ imp'.probing

HistoryInit == Init /\ clobbered = FALSE /\ verdicts = <<>>

HistoryNext ==
  /\ Next
  /\ clobbered' = (clobbered \/ \E p \in Procs : keyFile # Absent /\ KeyCreate(p))
  /\ verdicts' =
       CASE imp' = None -> <<>>
         [] imp = None /\ imp' # None -> [i \in Lines(imp') |-> None]
         [] OTHER -> [i \in Lines(imp) |->
                        IF AnsweredFor(i) THEN CHOOSE v \in Noted : TRUE ELSE verdicts[i]]

HistorySpec == HistoryInit /\ [][HistoryNext]_historyVars /\ Fairness

\* "The master key is auto-generated on first start": every ciphertext in the database
\* can be opened with the key on disk, through crashes at any point of a start and
\* through files a user removed because they were refused; a refused file never was the
\* one keys had been sealed with. The exception is a start that found no key file and
\* wrote its own after another start had created one.
KeysStayReadable ==
  clobbered \/ \A s \in Secrets : rows[s] # None => keyFile = rows[s]

\* Each migration took effect exactly once, in order, if its row is in
\* schema_migrations, and not at all otherwise, wherever starts crashed and however two
\* of them overlap; no process listens on less than the whole schema.
SchemaWhole ==
  /\ \A v \in Versions : bodies[v] = IF v \in ledger THEN 1 ELSE 0
  /\ \A v \in ledger : 1..v \subseteq ledger
  /\ \A p \in Procs : proc[p].pc \in {"listen", "serve"} => ledger = Versions

\* A stop that will be reported as a success has left no request unfinished: an import
\* is cut off only by a crash or by a stop that times out on it, which exits with an
\* error.
StopIsClean ==
  \A p \in Procs :
    At(p, "drain") /\ ~proc[p].failed => conns[p] = {} /\ importer # p /\ port # p

FirstLineWins ==
  \A i, j \in Lines(imp) :
    i < j /\ imp.lines[i].secret = imp.lines[j].secret /\ imp.results[j] = "created" =>
      imp.results[i] \notin {"created", "duplicate", None}

VerdictsMatch ==
  \A i \in ToDetect(imp) :
    imp.results[i] # None =>
      (imp.results[i] = "unauthorized") = (verdicts[i] = "unauthorized")

\* "Returned lines preserve the input order", whatever order the probes are answered
\* in: a line is refused or imported by the answer to its own probe, and of two lines
\* with the same key only the first that is not refused creates a row.
ImportSound == imp # None => FirstLineWins /\ VerdictsMatch

Stopping(p) == proc[p].told \/ proc[p].failed

\* Processes that got a signal, or could not listen, exit, all of them: an event stream
\* that stays open or a loop that never looks at its context cannot hold one.
StopEnds == (\E p \in Procs : Stopping(p)) ~> (\A p \in Procs : ~Stopping(p))

\* Every import comes to an end: no worker is lost, and no line that has to wait for a
\* free one, the send on the channel without a buffer, waits for ever.
ImportSettles == imp # None ~> imp = None
=============================================================================
