-------------------------------- MODULE Jobs --------------------------------
(***************************************************************************)
(* What a background goroutine promises about the row it works for.  The   *)
(* row is open while the goroutine is at work and settled when it returns; *)
(* a goroutine that a restart or a deadline cuts short leaves the row open *)
(* with nobody at work, and nothing in the program takes it up again.      *)
(***************************************************************************)
CONSTANTS
  Works,     \* the rows
  Reopenable \* the rows a user may reopen once they are settled

VARIABLES
  phase, \* per row: "absent", "open", "settled" or "abandoned"
  cut    \* the rows whose goroutine was cut short

Init ==
  /\ phase = [w \in Works |-> "absent"]
  /\ cut = {}

Move(S, to) == phase' = [w \in Works |-> IF w \in S THEN to ELSE phase[w]]

Open(w) ==
  /\ phase[w] = "absent"
  /\ Move({w}, "open")
  /\ UNCHANGED cut

\* The goroutine writes its result.
Settle(w) ==
  /\ phase[w] = "open"
  /\ Move({w}, "settled")
  /\ UNCHANGED cut

\* A deadline cuts one goroutine short, a restart all of them.
CutShort(S) ==
  /\ \A w \in S : phase[w] = "open"
  /\ Move(S, "abandoned")
  /\ cut' = cut \cup S

\* Reopening starts no goroutine; nor does it stop one that is at work.
Reopen(w) ==
  /\ w \in Reopenable
  /\ phase[w] = "settled"
  /\ Move({w}, "abandoned")
  /\ UNCHANGED cut

Erase(S) ==
  /\ Move(S, "absent")
  /\ UNCHANGED cut

Next ==
  \/ \E w \in Works : Open(w) \/ Settle(w) \/ Reopen(w)
  \/ \E S \in SUBSET Works : CutShort(S) \/ Erase(S)

\* A row does not stay open for ever.
Progress == \A w \in Works : phase[w] = "open" ~> phase[w] # "open"

SafeSpec == Init /\ [][Next]_<<phase, cut>>
Spec     == SafeSpec /\ Progress
=============================================================================
