------------------------------ MODULE TextDiff ------------------------------
(***************************************************************************)
(* The unified diff between two versions of an artifact                    *)
(* (artifacts/diff.go): lcsOps, which fills a table and walks through it,  *)
(* listing the lines kept, deleted and added, and unifiedDiff, which scans *)
(* that list and groups it into hunks. A file is a sequence of lines;      *)
(* strings.Split never returns an empty one.                               *)
(*                                                                         *)
(* d holds the local variables of both functions, and an operator is one   *)
(* iteration of a loop: Fill of the two that fill the table, Walk of those *)
(* that make the list, ScanOp of the one that makes the hunks.             *)
(***************************************************************************)
EXTENDS Integers, Sequences, FiniteSetsExt

Op(kind, line) == [kind |-> kind, line |-> line]

\* The lines an operation takes up in the old file and in the new one.
OldLines(op) == IF op.kind = "add" THEN 0 ELSE 1
NewLines(op) == IF op.kind = "del" THEN 0 ELSE 1

\* The hunks, whether the last of them is still open (cur # nil), equal lines kept as the
\* leading context of the next one, and the next line of each file.
ScanStart == [hunks |-> <<>>, open |-> FALSE, pending |-> <<>>, aLine |-> 1, bLine |-> 1]

DiffStart(a, b) ==
  [dp   |-> [i \in 1..Len(a) + 1 |-> [j \in 1..Len(b) + 1 |-> 0]],
   row  |-> Len(a), col |-> Len(b), \* the next cell to fill
   ops  |-> <<>>, i |-> 1, j |-> 1, \* the list, and the place of the walk
   read |-> 0, scan |-> ScanStart]  \* operations scanned, and what they made

(***************************************************************************)
(* lcsOps.                                                                 *)
(***************************************************************************)
\* dp[i][j]: the length of a longest common subsequence of a[i:] and b[j:].
Cell(dp, a, b, i, j) ==
  IF a[i] = b[j] THEN dp[i + 1][j + 1] + 1
  ELSE IF dp[i + 1][j] >= dp[i][j + 1] THEN dp[i + 1][j] ELSE dp[i][j + 1]

TableFull(d) == d.row = 0

\* From the last row and column to the first.
Fill(d, a, b) ==
  [d EXCEPT !.dp[d.row][d.col] = Cell(d.dp, a, b, d.row, d.col),
            !.row = IF d.col = 1 THEN @ - 1 ELSE @,
            !.col = IF @ = 1 THEN Len(b) ELSE @ - 1]

Walked(d, a, b) == d.i > Len(a) /\ d.j > Len(b)

\* Deletions before additions on a tie, and what is left of the longer file at the end.
NextKind(d, a, b) ==
  CASE d.i > Len(a) -> "add"
    [] d.i <= Len(a) /\ d.j > Len(b) -> "del"
    [] d.i <= Len(a) /\ d.j <= Len(b) ->
         IF a[d.i] = b[d.j] THEN "equal"
         ELSE IF d.dp[d.i + 1][d.j] >= d.dp[d.i][d.j + 1] THEN "del" ELSE "add"

Walk(d, a, b) ==
  LET kind == NextKind(d, a, b)
      op   == Op(kind, IF kind = "add" THEN b[d.j] ELSE a[d.i])
  IN  [d EXCEPT !.ops = Append(@, op), !.i = @ + OldLines(op), !.j = @ + NewLines(op)]

(***************************************************************************)
(* unifiedDiff.                                                            *)
(***************************************************************************)
AtLeastOne(n) == IF n < 1 THEN 1 ELSE n

LastLines(ops, n) == IF Len(ops) <= n THEN ops ELSE SubSeq(ops, Len(ops) - n + 1, Len(ops))

Changed(ops) == {x \in DOMAIN ops : ops[x].kind # "equal"}

\* Unchanged lines at the end of an open hunk.
Trailing(ops) == Len(ops) - (IF Changed(ops) = {} THEN 0 ELSE Max(Changed(ops)))

\* A hunk that is opened: the pending lines.
Opened(scan) ==
  LET lead == Len(scan.pending)
  IN  [aStart |-> AtLeastOne(scan.aLine - lead), aLen |-> lead,
       bStart |-> AtLeastOne(scan.bLine - lead), bLen |-> lead,
       lines  |-> scan.pending]

Extended(hunk, op) ==
  [hunk EXCEPT !.lines = Append(@, op),
               !.aLen = @ + OldLines(op), !.bLen = @ + NewLines(op)]

\* Mutant: the length of the new side is not reduced with the trimmed lines.
TrimmedOldOnly(hunk, n) ==
  [hunk EXCEPT !.lines = SubSeq(@, 1, Len(@) - n), !.aLen = @ - n]

\* The last n lines of a hunk, all unchanged, dropped.
Trimmed(hunk, n) ==
  [hunk EXCEPT !.lines = SubSeq(@, 1, Len(@) - n), !.aLen = @ - n, !.bLen = @ - n]

\* An equal line, outside a hunk and inside one: 2 * context of them close it, and the
\* ones past the first context are dropped.
Equal(scan, op, context) ==
  IF ~scan.open THEN [scan EXCEPT !.pending = LastLines(Append(@, op), context)]
  ELSE LET last == Len(scan.hunks)
           hunk == Extended(scan.hunks[last], op)
           over == Trailing(hunk.lines)
       IN  IF over < 2 * context THEN [scan EXCEPT !.hunks[last] = hunk]
           ELSE [scan EXCEPT !.hunks[last] = Trimmed(hunk, over - context), !.open = FALSE]

\* A change, which opens a hunk with the pending lines in front if none is open.
Change(scan, op) ==
  IF scan.open THEN [scan EXCEPT !.hunks[Len(scan.hunks)] = Extended(@, op)]
  ELSE [scan EXCEPT !.hunks = Append(@, Extended(Opened(scan), op)),
                    !.open = TRUE, !.pending = <<>>]

Scan(scan, op, context) ==
  [(IF op.kind = "equal" THEN Equal(scan, op, context) ELSE Change(scan, op))
     EXCEPT !.aLine = @ + OldLines(op), !.bLine = @ + NewLines(op)]

ScanOp(d, context) ==
  [d EXCEPT !.scan = Scan(@, d.ops[d.read + 1], context), !.read = @ + 1]

Scanned(d) == d.read = Len(d.ops)
=============================================================================
