------------------------------ MODULE EventBus ------------------------------
(***************************************************************************)
(* The in-process broadcast bus (internal/events/bus.go) and the stream    *)
(* handler that consumes it (internal/web/sse.go).                         *)
(*                                                                         *)
(* A publisher takes an event id, then sends to every subscriber under the *)
(* read lock, one channel at a time; any number of publishers hold the     *)
(* read lock together.  The sections under the write lock are single       *)
(* steps, taken when no publisher is inside.                               *)
(***************************************************************************)
EXTENDS Integers, Sequences

CONSTANTS
  Publishers, \* goroutines that call Publish
  Subs,       \* subscriptions, one per stream request, never reused
  Buffer,     \* capacity of a subscriber's channel
  Idle,       \* an idle publisher
  MaxEvents   \* bound on the events published

ASSUME BufferAssumption == Buffer \in Nat \ {0}
ASSUME EventsAssumption == MaxEvents \in Nat
ASSUME IdleAssumption == Idle \notin [id : Nat, in : BOOLEAN, left : SUBSET Subs]

VARIABLES
  eventID, \* the last id handed out
  subs,    \* the keys of b.subs
  chan,    \* per subscription: what its channel holds
  closed,  \* the subscriptions whose channel is closed
  request, \* per subscription: the stream handler and its request context
  pub      \* per publisher: the event, whether it holds the lock, whom it has left

busVars == <<eventID, subs, chan, closed, request, pub>>

Publishing == [id : Nat, in : BOOLEAN, left : SUBSET Subs]

\* "streaming": subscribed; "done": the context is done, or the handler has
\* returned, whereupon net/http cancels the context.
Requests == {"none", "streaming", "done"}

BusTypeOK ==
  /\ eventID \in Nat
  /\ subs \subseteq Subs /\ closed \subseteq Subs
  /\ chan \in [Subs -> Seq(Nat)]
  /\ \A s \in Subs : Len(chan[s]) <= Buffer
  /\ request \in [Subs -> Requests]
  /\ pub \in [Publishers -> Publishing \cup {Idle}]

BusInit ==
  /\ eventID = 0
  /\ subs = {} /\ closed = {}
  /\ chan = [s \in Subs |-> <<>>]
  /\ request = [s \in Subs |-> "none"]
  /\ pub = [p \in Publishers |-> Idle]

Inside(p) == pub[p] # Idle /\ pub[p].in
WriteLock == \A p \in Publishers : ~Inside(p)

-----------------------------------------------------------------------------
(* Publish.                                                                *)

TakeId(p) ==
  /\ pub[p] = Idle
  /\ eventID < MaxEvents
  /\ eventID' = eventID + 1
  /\ pub' = [pub EXCEPT ![p] = [id |-> eventID + 1, in |-> FALSE, left |-> {}]]
  /\ UNCHANGED <<subs, chan, closed, request>>

RLock(p) ==
  /\ pub[p] # Idle /\ ~pub[p].in
  /\ pub' = [pub EXCEPT ![p].in = TRUE, ![p].left = subs]
  /\ UNCHANGED <<eventID, subs, chan, closed, request>>

\* Mutants: a send that blocks; a full buffer ends the loop; an off-by-one in
\* the capacity.
DeliverBlocking(p, s) ==
  /\ Inside(p) /\ s \in pub[p].left
  /\ Len(chan[s]) < Buffer
  /\ chan' = [chan EXCEPT ![s] = Append(@, pub[p].id)]
  /\ pub' = [pub EXCEPT ![p].left = @ \ {s}]
  /\ UNCHANGED <<eventID, subs, closed, request>>
DeliverOrStop(p, s) ==
  /\ Inside(p) /\ s \in pub[p].left
  /\ IF Len(chan[s]) < Buffer
     THEN /\ chan' = [chan EXCEPT ![s] = Append(@, pub[p].id)]
          /\ pub' = [pub EXCEPT ![p].left = @ \ {s}]
     ELSE /\ UNCHANGED chan
          /\ pub' = [pub EXCEPT ![p].left = {}]
  /\ UNCHANGED <<eventID, subs, closed, request>>
DeliverOver(p, s) ==
  /\ Inside(p) /\ s \in pub[p].left
  /\ chan' = IF Len(chan[s]) <= Buffer
             THEN [chan EXCEPT ![s] = Append(@, pub[p].id)] ELSE chan
  /\ pub' = [pub EXCEPT ![p].left = @ \ {s}]
  /\ UNCHANGED <<eventID, subs, closed, request>>

\* The select: send, or drop the event for this subscriber.
Deliver(p, s) ==
  /\ Inside(p) /\ s \in pub[p].left
  /\ chan' = IF Len(chan[s]) < Buffer
             THEN [chan EXCEPT ![s] = Append(@, pub[p].id)] ELSE chan
  /\ pub' = [pub EXCEPT ![p].left = @ \ {s}]
  /\ UNCHANGED <<eventID, subs, closed, request>>

RUnlock(p) ==
  /\ Inside(p) /\ pub[p].left = {}
  /\ pub' = [pub EXCEPT ![p] = Idle]
  /\ UNCHANGED <<eventID, subs, chan, closed, request>>

-----------------------------------------------------------------------------
(* The stream handler: Subscribe, read, and cancel.                        *)

Subscribe(s) ==
  /\ request[s] = "none"
  /\ WriteLock
  /\ subs' = subs \cup {s}
  /\ request' = [request EXCEPT ![s] = "streaming"]
  /\ UNCHANGED <<eventID, chan, closed, pub>>

Receive(s) ==
  /\ request[s] # "none"
  /\ chan[s] # <<>>
  /\ chan' = [chan EXCEPT ![s] = Tail(@)]
  /\ UNCHANGED <<eventID, subs, closed, request, pub>>

\* The client goes away, or a write to it fails.
Leave(s) ==
  /\ request[s] = "streaming"
  /\ request' = [request EXCEPT ![s] = "done"]
  /\ UNCHANGED <<eventID, subs, chan, closed, pub>>

\* Mutant: the channel is closed before the lock is taken.
CancelUnlocked(s) ==
  /\ request[s] = "done" /\ s \in subs
  /\ subs' = subs \ {s} /\ closed' = closed \cup {s}
  /\ UNCHANGED <<eventID, chan, request, pub>>
\* cancel, from the handler's defer or the goroutine that waits for the context:
\* the first finds the subscription in the map, the second does nothing.
Cancel(s) ==
  /\ request[s] = "done" /\ s \in subs
  /\ WriteLock
  /\ subs' = subs \ {s} /\ closed' = closed \cup {s}
  /\ UNCHANGED <<eventID, chan, request, pub>>

-----------------------------------------------------------------------------
Publish(p) == TakeId(p) \/ RLock(p) \/ RUnlock(p) \/ \E s \in Subs : Deliver(p, s)

BusNext ==
  \/ \E p \in Publishers : Publish(p)
  \/ \E s \in Subs : Subscribe(s) \/ Receive(s) \/ Leave(s) \/ Cancel(s)

BusSpec == BusInit /\ [][BusNext]_busVars

\* Goroutines run; a waiting Lock keeps new readers out (sync.RWMutex), so a
\* Cancel that is possible again and again gets its turn.  No fairness for
\* subscribers: they may stop reading for good.
BusFairness ==
  /\ \A p \in Publishers :
       WF_busVars(RLock(p) \/ RUnlock(p) \/ \E s \in Subs : Deliver(p, s))
  /\ \A s \in Subs : SF_busVars(Cancel(s))
-----------------------------------------------------------------------------
(* Properties.                                                             *)

\* Nobody sends on a closed channel (a panic in Go), although a request may end
\* in the middle of any Publish and its cancel runs twice.
NoSendOnClosed ==
  \A p \in Publishers : Inside(p) => pub[p].left \cap closed = {}

\* "We never block the publisher because that would stall the manager", and "ctx
\* cancellation triggers automatic unsubscribe": Publish returns even when no
\* subscriber ever reads, and a request that is over leaves no subscription behind, even
\* with events unread in its channel.
BusSettles ==
  /\ \A p \in Publishers : pub[p] # Idle ~> pub[p] = Idle
  /\ \A s \in Subs : request[s] = "done" ~> s \in closed
=============================================================================
