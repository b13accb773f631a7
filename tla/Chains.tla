------------------------------- MODULE Chains -------------------------------
(***************************************************************************)
(* What rotations promise about the sessions of a task: an append-only     *)
(* chain.  A session is opened on Devin's side before anything leads to    *)
(* it, it continues one older session of its task, and it is marked as     *)
(* handed off only when another one continues it.  Links and opened        *)
(* sessions stay for good, the mark may be written over.                   *)
(***************************************************************************)
EXTENDS Naturals

CONSTANTS Sessions, Tasks, None

VARIABLES
  task,   \* per session: the task it works for, None before its row is inserted
  opened, \* the sessions Devin knows
  links,  \* the pairs of a session and the one that continues it
  handed  \* the sessions marked as handed off

chainVars == <<task, opened, links, handed>>

Init ==
  /\ task = [s \in Sessions |-> None]
  /\ opened = {} /\ links = {} /\ handed = {}

Insert(s, t) ==
  /\ task[s] = None
  /\ task' = [task EXCEPT ![s] = t]
  /\ UNCHANGED <<opened, links, handed>>

\* Whoever opens a session writes "running" over its status.
Open(s) ==
  /\ task[s] # None
  /\ opened' = opened \cup {s}
  /\ handed' = handed \ {s}
  /\ UNCHANGED <<task, links>>

Continue(old, new) ==
  /\ task[old] # None
  /\ new \in opened
  /\ task[new] = task[old]
  /\ old < new
  /\ \A l \in links : l[2] # new
  /\ links' = links \cup {<<old, new>>}
  /\ UNCHANGED <<task, opened, handed>>

Mark(s) ==
  /\ \E l \in links : l[1] = s
  /\ handed' = handed \cup {s}
  /\ UNCHANGED <<task, opened, links>>

Unmark(s) ==
  /\ handed' = handed \ {s}
  /\ UNCHANGED <<task, opened, links>>

Next ==
  \E s \in Sessions :
    \/ \E t \in Tasks : Insert(s, t)
    \/ Open(s) \/ Mark(s) \/ Unmark(s)
    \/ \E new \in Sessions : Continue(s, new)

Spec == Init /\ [][Next]_chainVars
=============================================================================
