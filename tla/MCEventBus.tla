---------------------------- MODULE MCEventBus ----------------------------
(***************************************************************************)
(* EventBus with history variables, to say which events a subscriber is    *)
(* owed.                                                                   *)
(***************************************************************************)
EXTENDS EventBus

VARIABLES
  since,  \* per subscription: the last event id when it registered
  offered \* per subscription: the events a publisher tried to send to it

BusHistoryInit ==
  /\ BusInit
  /\ since = [s \in Subs |-> 0]
  /\ offered = [s \in Subs |-> {}]

BusHistoryNext ==
  /\ BusNext
  /\ since' = [s \in Subs |-> IF Subscribe(s) THEN eventID ELSE since[s]]
  /\ offered' = [s \in Subs |->
       offered[s] \cup {pub[p].id : p \in {q \in Publishers : Deliver(q, s)}}]

BusHistorySpec     == BusHistoryInit /\ [][BusHistoryNext]_<<busVars, since, offered>>
FairBusHistorySpec == BusHistorySpec /\ BusFairness

\* A subscriber misses an event only when its own buffer is full: every event
\* whose Publish began after it registered has been offered to it, or its
\* publisher is still on the way.
NothingMissed ==
  \A s \in subs : \A id \in since[s] + 1 .. eventID :
    \/ id \in offered[s]
    \/ \E p \in Publishers :
         pub[p] # Idle /\ pub[p].id = id /\ (~pub[p].in \/ s \in pub[p].left)
=============================================================================
