----------------------------- MODULE MCRotation -----------------------------
(***************************************************************************)
(* Rotation for TLC: goroutines are interchangeable, and so are keys.  A   *)
(* history variable tells which handoff rows a crash took the owner from.  *)
(***************************************************************************)
EXTENDS Rotation, TLC

VARIABLES
  orphaned, \* handoff rows a rotation held when the process died
  unguarded \* sessions whose handoff_done a rotation may have missed, see DoubleIsExplained

historyVars == <<vars, orphaned, unguarded>>

Symmetry == Permutations(Keys) \cup Permutations(Jobs)

\* Two calls have the row in hand, one of them perhaps still opening it.
Shared(s) == \E v, w \in Jobs :
  v # w /\ job'[w].dying = s /\ (job'[v].dying = s \/ Opening(v, s)')

\* The handoff is linked and "handoff_done" is not written: a crash or a cancelled context.
CutShort(s) ==
  \E w \in Jobs : At(w, "done") /\ job[w].dying = s /\ job'[w].pc \notin {"done", "settle"}

\* A refresh writes the remote status over handoff_done.
Reopened(s) ==
  \E w \in Jobs : At(w, "y_status") /\ job[w].dying = s
                  /\ sess[s].status = "handoff_done" /\ sess'[s] # sess[s]

HistoryInit == Init /\ orphaned = {} /\ unguarded = {}

HistoryNext ==
  /\ Next
  /\ orphaned' = orphaned \cup
       {h \in HandoffIds : Restart /\ \E w \in Jobs : Holds(w, h)}
  /\ unguarded' = unguarded \cup {s \in Sessions : Shared(s) \/ CutShort(s) \/ Reopened(s)}

HistorySpec == HistoryInit /\ [][HistoryNext]_historyVars

UnlinkedOwned ==
  \A h \in HandoffIds \ orphaned :
    handoffs[h] # None /\ ~Linked(h) =>
      \E w \in Jobs : Holds(w, h) /\ \A v \in Jobs \ {w} : ~Holds(v, h)

HeldUnlinked == \A w \in Jobs, h \in HandoffIds :
  Holds(w, h) => handoffs[h] # None /\ ~Linked(h)

\* No orphan handoff and no stolen one: a row that shows "handed off to -" belongs to
\* exactly one rotation, which is still going to link it or delete it (the deferred
\* cleanup of rotate), even when its context is cancelled half way; only the end of the
\* process leaves one behind.  And no rotation gets to its link or its cleanup with a
\* row that somebody else has linked or deleted.
HandoffOwned == UnlinkedOwned /\ HeldUnlinked

\* ErrAlreadyRotated "guards against double-rotating the same dying session" (rotate.go),
\* through every failure of the calls, with three exceptions and no other. A session is
\* handed off twice only if two calls had its row in hand at once, so that one decides
\* by a status read before the other's handoff_done or, still opening the session,
\* writes "running" or "failed" over it; or if a crash or a cancelled context
\* came between the link of the first handoff and its handoff_done; or if the page's
\* refresh of the handed-off session wrote the remote status over handoff_done.
DoubleIsExplained ==
  \A g, h \in HandoffIds :
    Linked(g) /\ Linked(h) /\ handoffs[g].from = handoffs[h].from /\ g # h
      => handoffs[g].from \in unguarded

Opened(s) == sess[s] # None /\ sess[s].devin
HandedOff(s) == sess[s] # None /\ sess[s].status = "handoff_done"

TaskChains == INSTANCE Chains
  WITH task   <- [s \in Sessions |-> IF sess[s] = None THEN None ELSE sess[s].task],
       opened <- {s \in Sessions : Opened(s)},
       links  <- {<<handoffs[h].from, handoffs[h].to>> : h \in {g \in HandoffIds : Linked(g)}},
       handed <- {s \in Sessions : HandedOff(s)}

\* The linked handoffs of a task are an append-only chain, whatever calls overlap and
\* wherever a call or the process dies: a link leads forward to a session of the same
\* task that Devin knows and nothing else leads to (GetForSession assumes it), no
\* cleanup, sync or restart takes it back or changes it, and handoff_done is written
\* only on a session that has a successor.
ChainsGrow == TaskChains!Spec
=============================================================================
