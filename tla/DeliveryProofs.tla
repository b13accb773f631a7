---------------------------- MODULE DeliveryProofs ----------------------------
(***************************************************************************)
(* The two ways an event reaches a page, for any number of publishers,     *)
(* subscribers, events and pages.  EventBus: types, the absence of sends   *)
(* on closed channels, and which events a subscriber is offered.  Batcher  *)
(* and Notices: types, that no event is told of twice or lost, and that    *)
(* the cursor passes over no row.                                          *)
(***************************************************************************)
EXTENDS MCEventBus, MCBatcher, FiniteSetTheorems, SequenceTheorems, TLAPS

\* The bookkeeping of a request: in the map while it is not unsubscribed, and
\* closed only once its context is done.
MapInv ==
  /\ \A s \in subs : request[s] # "none" /\ s \notin closed
  /\ \A s \in closed : request[s] = "done"

\* Whom a publisher has left to serve is still in the map: it holds the read
\* lock, and the map changes under the write lock only.
LeftInMap == \A p \in Publishers : Inside(p) => pub[p].left \subseteq subs

BusInv == BusTypeOK /\ MapInv /\ LeftInMap

LEMMA InitInv == BusInit => BusInv
  BY BufferAssumption DEF BusInit, BusInv, BusTypeOK, MapInv, LeftInMap, Inside, Requests, Publishing

LEMMA StepInv == BusInv /\ [BusNext]_busVars => BusInv'
<1> SUFFICES ASSUME BusInv, [BusNext]_busVars PROVE BusInv'
  OBVIOUS
<1> USE BufferAssumption, EventsAssumption, IdleAssumption
        DEF BusInv, BusTypeOK, MapInv, LeftInMap, Inside, Requests, Publishing, WriteLock
<1>1. ASSUME NEW p \in Publishers, TakeId(p) PROVE BusInv'
  BY <1>1 DEF TakeId
<1>2. ASSUME NEW p \in Publishers, RLock(p) PROVE BusInv'
  BY <1>2 DEF RLock
<1>3. ASSUME NEW p \in Publishers, RUnlock(p) PROVE BusInv'
  BY <1>3 DEF RUnlock
<1>4. ASSUME NEW p \in Publishers, NEW s \in Subs, Deliver(p, s) PROVE BusInv'
  <2>1. pub[p].id \in Nat /\ chan[s] \in Seq(Nat)
    BY <1>4 DEF Deliver
  <2>2. chan' \in [Subs -> Seq(Nat)] /\ \A t \in Subs : Len(chan'[t]) <= Buffer
    BY <1>4, <2>1 DEF Deliver
  <2>3. pub' \in [Publishers -> Publishing \cup {Idle}]
    BY <1>4 DEF Deliver
  <2>4. LeftInMap'
    BY <1>4 DEF Deliver
  <2> QED
    BY <1>4, <2>2, <2>3, <2>4 DEF Deliver
<1>5. ASSUME NEW s \in Subs, Subscribe(s) PROVE BusInv'
  BY <1>5 DEF Subscribe
<1>6. ASSUME NEW s \in Subs, Receive(s) PROVE BusInv'
  <2>1. Tail(chan[s]) \in Seq(Nat) /\ Len(Tail(chan[s])) <= Buffer
    BY <1>6 DEF Receive
  <2> QED
    BY <1>6, <2>1 DEF Receive
<1>7. ASSUME NEW s \in Subs, Leave(s) PROVE BusInv'
  BY <1>7 DEF Leave
<1>8. ASSUME NEW s \in Subs, Cancel(s) PROVE BusInv'
  BY <1>8 DEF Cancel
<1>9. CASE UNCHANGED busVars
  BY <1>9 DEF busVars
<1> QED
  BY <1>1, <1>2, <1>3, <1>4, <1>5, <1>6, <1>7, <1>8, <1>9 DEF BusNext, Publish

\* Types, and the bound on every subscriber's buffer, for every value of the
\* constants (Publish's select, under any interleaving of publishers).
THEOREM BusTypeCorrect == BusSpec => []BusTypeOK
<1>1. BusInv => BusTypeOK
  BY DEF BusInv
<1> QED
  BY <1>1, InitInv, StepInv, PTL DEF BusSpec

\* Publish never sends on a channel that a cancel has closed, for any number of
\* publishers and requests.
THEOREM NeverSendsOnClosed == BusSpec => []NoSendOnClosed
<1>1. BusInv => NoSendOnClosed
  BY DEF BusInv, MapInv, LeftInMap, NoSendOnClosed
<1> QED
  BY <1>1, InitInv, StepInv, PTL DEF BusSpec

-----------------------------------------------------------------------------
(* Nothing is missed.                                                      *)

\* An event has reached subscriber s, or the publisher that carries it has s
\* still before it.
OnTheWay(s, id) ==
  \E p \in Publishers :
    pub[p] # Idle /\ pub[p].id = id /\ (~pub[p].in \/ s \in pub[p].left)
Owed(s, id) == id \in offered[s] \/ OnTheWay(s, id)

OwedInv ==
  /\ since \in [Subs -> Nat]
  /\ \A s \in subs : \A id \in since[s] + 1 .. eventID : Owed(s, id)

MissInv == BusInv /\ OwedInv

\* A publisher with a record is not idle.
LEMMA RecordIsNotIdle ==
  ASSUME NEW r \in Publishing PROVE r # Idle
  BY IdleAssumption DEF Publishing

\* What is offered stays offered, and whoever is in the map and did not register
\* in this step was there before it.
LEMMA HistoryGrows ==
  ASSUME BusInv, BusHistoryNext
  PROVE  /\ \A s \in Subs : offered[s] \subseteq offered'[s]
         /\ \A s \in subs' : ~Subscribe(s) => s \in subs /\ since'[s] = since[s]
         /\ \A s \in subs' : Subscribe(s) => since'[s] = eventID /\ eventID' = eventID
<1>1. \A s \in Subs : offered[s] \subseteq offered'[s]
  BY DEF BusHistoryNext
<1>2. \A s \in Subs : since'[s] = IF Subscribe(s) THEN eventID ELSE since[s]
  BY DEF BusHistoryNext
<1>3. subs' \subseteq Subs
  BY StepInv DEF BusHistoryNext, BusInv, BusTypeOK
<1>4. \A s \in subs' : ~Subscribe(s) => s \in subs
  BY DEF BusHistoryNext, BusNext, Publish, TakeId, RLock, RUnlock, Deliver, Subscribe,
         Receive, Leave, Cancel
<1>5. \A s : Subscribe(s) => eventID' = eventID
  BY DEF Subscribe
<1> QED
  BY <1>1, <1>2, <1>3, <1>4, <1>5

\* A publisher's steps carry each event from "outside" to "left to serve" to
\* "offered"; the other steps leave the publishers alone.
LEMMA OwedStays ==
  ASSUME BusInv, BusHistoryNext, NEW s \in subs, NEW id \in Nat, Owed(s, id)
  PROVE  Owed(s, id)'
<1> USE DEF Publishing
<1>1. s \in Subs /\ offered[s] \subseteq offered'[s]
  BY HistoryGrows DEF BusInv, BusTypeOK
<1>2. CASE id \in offered[s]
  BY <1>1, <1>2 DEF Owed
<1>3. CASE OnTheWay(s, id)
  <2>1. PICK p \in Publishers :
          pub[p] # Idle /\ pub[p].id = id /\ (~pub[p].in \/ s \in pub[p].left)
    BY <1>3 DEF OnTheWay
  <2>2. pub[p] \in Publishing /\ pub \in [Publishers -> Publishing \cup {Idle}]
    BY <2>1 DEF BusInv, BusTypeOK
  <2>3. ASSUME pub'[p] = pub[p] PROVE Owed(s, id)'
    BY <2>1, <2>3 DEF Owed, OnTheWay
  <2>4. ASSUME NEW q \in Publishers, TakeId(q) PROVE pub'[p] = pub[p]
    BY <2>1, <2>2, <2>4 DEF TakeId
  <2>5. ASSUME NEW q \in Publishers, RLock(q) PROVE Owed(s, id)'
    <3>1. CASE q # p
      BY <2>2, <2>3, <2>5, <3>1 DEF RLock
    <3>2. CASE q = p
      <4>1. pub'[p] = [id |-> pub[p].id, in |-> TRUE, left |-> subs]
        BY <2>2, <2>5, <3>2 DEF RLock
      <4>2. pub'[p] \in Publishing
        BY <2>2, <4>1 DEF BusInv, BusTypeOK
      <4> QED
        <5>1. pub'[p] # Idle
          BY <4>2, RecordIsNotIdle
        <5>2. pub'[p].id = id /\ s \in pub'[p].left
          BY <2>1, <4>1
        <5> QED
          BY <5>1, <5>2 DEF Owed, OnTheWay
    <3> QED
      BY <3>1, <3>2
  <2>6. ASSUME NEW q \in Publishers, RUnlock(q) PROVE Owed(s, id)'
    <3>1. q # p
      BY <2>1, <2>6 DEF RUnlock, Inside
    <3> QED
      BY <2>2, <2>3, <2>6, <3>1 DEF RUnlock
  <2>7. ASSUME NEW q \in Publishers, NEW t \in Subs, Deliver(q, t) PROVE Owed(s, id)'
    <3>1. CASE q # p
      BY <2>2, <2>3, <2>7, <3>1 DEF Deliver
    <3>2. CASE q = p /\ t = s
      <4>1. offered'[s] =
              offered[s] \cup {pub[r].id : r \in {q1 \in Publishers : Deliver(q1, s)}}
        BY <1>1 DEF BusHistoryNext
      <4>2. pub[p].id \in offered'[s]
        BY <2>7, <3>2, <4>1
      <4> QED
        BY <2>1, <4>2 DEF Owed
    <3>3. CASE q = p /\ t # s
      <4>1. pub'[p] = [id |-> pub[p].id, in |-> pub[p].in, left |-> pub[p].left \ {t}]
        BY <2>2, <2>7, <3>3 DEF Deliver
      <4>2. pub'[p] \in Publishing
        BY <2>2, <4>1
      <4> QED
        BY <2>1, <3>3, <4>1, <4>2, IdleAssumption DEF Owed, OnTheWay
    <3> QED
      BY <3>1, <3>2, <3>3
  <2>8. ASSUME NEW t \in Subs, Subscribe(t) \/ Receive(t) \/ Leave(t) \/ Cancel(t)
        PROVE  pub'[p] = pub[p]
    BY <2>8 DEF Subscribe, Receive, Leave, Cancel
  <2> QED
    BY <2>3, <2>4, <2>5, <2>6, <2>7, <2>8 DEF BusHistoryNext, BusNext, Publish
<1> QED
  BY <1>2, <1>3 DEF Owed

\* A new event starts outside, before every subscriber.
LEMMA NewEventOwed ==
  ASSUME BusInv, BusHistoryNext, NEW s, eventID' # eventID
  PROVE  eventID' = eventID + 1 /\ \A id \in Nat : id = eventID' => Owed(s, id)'
<1>1. PICK p \in Publishers : TakeId(p)
  BY DEF BusHistoryNext, BusNext, Publish, RLock, RUnlock, Deliver, Subscribe,
         Receive, Leave, Cancel
<1>2. pub'[p] = [id |-> eventID + 1, in |-> FALSE, left |-> {}]
  BY <1>1 DEF TakeId, BusInv, BusTypeOK
<1>3. pub'[p] \in Publishing /\ eventID' = eventID + 1
  BY <1>1, <1>2 DEF BusInv, BusTypeOK, Publishing, TakeId
<1>4. pub'[p].id = eventID' /\ ~pub'[p].in /\ pub'[p] # Idle
  <2>1. pub'[p] # Idle
    BY <1>3, RecordIsNotIdle
  <2> QED
    BY <1>2, <1>3, <2>1
<1>5. \A id \in Nat : id = eventID' => Owed(s, id)'
  BY <1>4 DEF Owed, OnTheWay
<1> QED
  BY <1>3, <1>5

LEMMA MissInit == BusHistoryInit => MissInv
  BY InitInv DEF BusHistoryInit, MissInv, OwedInv, BusInit

LEMMA MissStep == MissInv /\ [BusHistoryNext]_<<busVars, since, offered>> => MissInv'
<1> SUFFICES ASSUME MissInv, [BusHistoryNext]_<<busVars, since, offered>> PROVE MissInv'
  OBVIOUS
<1>1. BusInv'
  BY StepInv DEF MissInv, BusHistoryNext, busVars
<1>2. CASE BusHistoryNext
  <2>1. since' \in [Subs -> Nat]
    <3>1. eventID \in Nat /\ since \in [Subs -> Nat]
      BY DEF MissInv, OwedInv, BusInv, BusTypeOK
    <3> QED
      BY <1>2, <3>1 DEF BusHistoryNext
  <2>2. ASSUME NEW s \in subs', NEW id \in since'[s] + 1 .. eventID'
        PROVE  Owed(s, id)'
    <3>1. /\ s \in Subs /\ since'[s] \in Nat
          /\ eventID \in Nat /\ eventID' \in Nat /\ id \in Nat
      BY <1>1, <2>1 DEF MissInv, BusInv, BusTypeOK
    <3>2. s \in subs /\ since'[s] = since[s]
      BY <1>2, <3>1, HistoryGrows DEF MissInv
    <3>3. CASE id <= eventID
      BY <1>2, <3>1, <3>2, <3>3, OwedStays DEF MissInv, OwedInv
    <3>4. CASE id > eventID
      <4>1. eventID' # eventID
        BY <3>1, <3>4
      <4>2. eventID' = eventID + 1
        BY <1>2, <4>1, NewEventOwed DEF MissInv
      <4>3. id = eventID'
        BY <3>1, <3>4, <4>2
      <4>4. Owed(s, id)'
        BY <1>2, <3>1, <4>1, <4>3, NewEventOwed DEF MissInv
      <4> QED
        BY <4>4
    <3> QED
      BY <3>1, <3>3, <3>4
  <2> QED
    BY <1>1, <2>1, <2>2 DEF MissInv, OwedInv
<1>3. CASE UNCHANGED <<busVars, since, offered>>
  BY <1>1, <1>3 DEF MissInv, OwedInv, Owed, OnTheWay, busVars
<1> QED
  BY <1>2, <1>3

\* A subscriber misses an event only when its own buffer is full: whatever is
\* published after it registered is offered to it or still on the way, for any
\* number of publishers, subscribers and events.
THEOREM MissesNothing == BusHistorySpec => []NothingMissed
<1>1. MissInv => NothingMissed
  BY DEF MissInv, OwedInv, Owed, OnTheWay, NothingMissed
<1> QED
  BY <1>1, MissInit, MissStep, PTL DEF BusHistorySpec


-----------------------------------------------------------------------------
(* The batcher: lists of events and of rows.                               *)

Disjoint(rows) == \A i, j \in DOMAIN rows : i # j => rows[i] \cap rows[j] = {}
Apart(seq)     == \A i, j \in DOMAIN seq : i # j => seq[i] # seq[j]

LEMMA MembersAppend ==
  ASSUME NEW S, NEW s \in Seq(S), NEW x \in S
  PROVE  Members(Append(s, x)) = Members(s) \cup {x}
<1> DEFINE t == Append(s, x)
<1>1. /\ DOMAIN s = 1..Len(s) /\ DOMAIN t = 1..Len(s) + 1 /\ Len(s) \in Nat
      /\ t[Len(s) + 1] = x /\ \A i \in 1..Len(s) : t[i] = s[i]
  OBVIOUS
<1> HIDE DEF t
<1>2. \A i \in 1..Len(s) + 1 : i # Len(s) + 1 => i \in 1..Len(s)
  BY <1>1
<1>3. {t[i] : i \in DOMAIN t} = {s[i] : i \in DOMAIN s} \cup {x}
  BY <1>1, <1>2
<1> QED
  BY <1>3 DEF Members, t

LEMMA TailFacts ==
  ASSUME NEW S, NEW s \in Seq(S), s # <<>>
  PROVE  /\ Head(s) \in S /\ Tail(s) \in Seq(S)
         /\ Members(s) = {Head(s)} \cup Members(Tail(s))
         /\ DOMAIN s = 1..Len(s) /\ DOMAIN Tail(s) = 1..Len(s) - 1 /\ Len(s) \in Nat \ {0}
         /\ \A i \in 1..Len(s) - 1 : Tail(s)[i] = s[i + 1]
<1> DEFINE t == Tail(s)
<1>1. /\ Head(s) \in S /\ t \in Seq(S) /\ Head(s) = s[1]
      /\ DOMAIN s = 1..Len(s) /\ DOMAIN t = 1..Len(s) - 1 /\ Len(s) \in Nat \ {0}
      /\ \A i \in 1..Len(s) - 1 : t[i] = s[i + 1]
  OBVIOUS
<1> HIDE DEF t
<1>2. {s[i] : i \in DOMAIN s} = {Head(s)} \cup {t[i] : i \in DOMAIN t}
  <2>1. ASSUME NEW i \in DOMAIN s PROVE s[i] \in {Head(s)} \cup {t[k] : k \in DOMAIN t}
    <3>1. i = 1 \/ (i - 1 \in 1..Len(s) - 1 /\ t[i - 1] = s[i])
      BY <1>1
    <3> QED
      BY <1>1, <3>1
  <2>2. ASSUME NEW i \in DOMAIN t PROVE t[i] \in {s[k] : k \in DOMAIN s}
    <3>1. i + 1 \in DOMAIN s /\ t[i] = s[i + 1]
      BY <1>1
    <3> QED
      BY <3>1
  <2>3. Head(s) \in {s[k] : k \in DOMAIN s}
    BY <1>1
  <2> QED
    BY <2>1, <2>2, <2>3
<1> QED
  BY <1>1, <1>2 DEF Members, t

LEMMA DisjointAppend ==
  ASSUME NEW S, NEW s \in Seq(S), NEW r \in S,
         Disjoint(s), r \cap UNION Members(s) = {}
  PROVE  Disjoint(Append(s, r))
<1> DEFINE t == Append(s, r)
<1>1. /\ DOMAIN s = 1..Len(s) /\ DOMAIN t = 1..Len(s) + 1 /\ Len(s) \in Nat
      /\ t[Len(s) + 1] = r /\ \A i \in 1..Len(s) : t[i] = s[i]
  OBVIOUS
<1> HIDE DEF t
<1>2. \A i \in 1..Len(s) : r \cap s[i] = {}
  BY <1>1 DEF Members
<1>3. \A i \in 1..Len(s) + 1 : i # Len(s) + 1 => i \in 1..Len(s)
  BY <1>1
<1>4. ASSUME NEW i \in DOMAIN t, NEW j \in DOMAIN t, i # j PROVE t[i] \cap t[j] = {}
  BY <1>1, <1>2, <1>3, <1>4 DEF Disjoint
<1> QED
  BY <1>4 DEF Disjoint, t

LEMMA DisjointTail ==
  ASSUME NEW S, NEW s \in Seq(S), s # <<>>, Disjoint(s)
  PROVE  Disjoint(Tail(s)) /\ Head(s) \cap UNION Members(Tail(s)) = {}
<1> DEFINE t == Tail(s)
<1>1. /\ DOMAIN s = 1..Len(s) /\ DOMAIN t = 1..Len(s) - 1 /\ Len(s) \in Nat \ {0}
      /\ \A i \in 1..Len(s) - 1 : t[i] = s[i + 1]
  BY TailFacts
<1>2. Head(s) = s[1]
  OBVIOUS
<1> HIDE DEF t
<1>3. ASSUME NEW i \in DOMAIN t, NEW j \in DOMAIN t, i # j PROVE t[i] \cap t[j] = {}
  <2>1. /\ i + 1 \in DOMAIN s /\ j + 1 \in DOMAIN s /\ i + 1 # j + 1
        /\ t[i] = s[i + 1] /\ t[j] = s[j + 1]
    BY <1>1, <1>3
  <2> QED
    BY <2>1 DEF Disjoint
<1>4. ASSUME NEW i \in DOMAIN t PROVE Head(s) \cap t[i] = {}
  <2>1. 1 \in DOMAIN s /\ i + 1 \in DOMAIN s /\ i + 1 # 1 /\ t[i] = s[i + 1]
    BY <1>1
  <2> QED
    BY <1>2, <2>1 DEF Disjoint
<1>5. Head(s) \cap UNION {t[i] : i \in DOMAIN t} = {}
  BY <1>4
<1> QED
  BY <1>3, <1>5 DEF Disjoint, Members, t

\* One row per event tells each of them once.
LEMMA SinglesFacts ==
  ASSUME NEW S, NEW s \in Seq(S)
  PROVE  /\ Singles(s) \in Seq(SUBSET S)
         /\ UNION Members(Singles(s)) = Members(s)
         /\ Apart(s) => Disjoint(Singles(s))
<1> DEFINE t == Singles(s)
<1>1. DOMAIN s = 1..Len(s) /\ Len(s) \in Nat /\ \A i \in DOMAIN s : s[i] \in S
  OBVIOUS
<1>2. t = [i \in 1..Len(s) |-> {s[i]}]
  BY <1>1 DEF Singles
<1>3. t \in Seq(SUBSET S) /\ DOMAIN t = DOMAIN s /\ \A i \in DOMAIN s : t[i] = {s[i]}
  BY <1>1, <1>2
<1> HIDE DEF t
<1>4. UNION {t[i] : i \in DOMAIN t} = {s[i] : i \in DOMAIN s}
  BY <1>3
<1>5. Apart(s) => Disjoint(t)
  BY <1>3 DEF Apart, Disjoint
<1> QED
  BY <1>3, <1>4, <1>5 DEF Members, t

\* A summary tells them in one row.
LEMMA OneRow ==
  ASSUME NEW S, NEW r \in SUBSET S
  PROVE  /\ <<r>> \in Seq(SUBSET S) /\ UNION Members(<<r>>) = r
         /\ Disjoint(<<r>>) /\ <<r>> # <<>>
<1>1. DOMAIN <<r>> = {1} /\ <<r>>[1] = r /\ <<r>> \in Seq(SUBSET S)
  OBVIOUS
<1>2. {<<r>>[i] : i \in DOMAIN <<r>>} = {r}
  BY <1>1
<1> QED
  BY <1>1, <1>2 DEF Members, Disjoint


-----------------------------------------------------------------------------
(* Types, and the answers that are out: they lie between the cursor they   *)
(* were asked with and the end of the log.                                 *)

PollOK ==
  \A t \in Tabs : poll[t] # None =>
    /\ poll[t].after <= poll[t].upto
    /\ poll[t].upto <= Len(log) /\ poll[t].last <= Len(log)
    /\ poll[t].pc \in {"since", "max"} => poll[t].upto = poll[t].after

NoticeInv == TypeOK /\ PollOK

\* The poll of t has these fields, and the others are as they were.
PollIs(t, pc, after, upto, last) ==
  /\ poll' \in [Tabs -> Poll \cup {None}]
  /\ poll'[t] \in Poll /\ poll'[t] # None
  /\ poll'[t].pc = pc /\ poll'[t].after = after
  /\ poll'[t].upto = upto /\ poll'[t].last = last
  /\ \A u \in Tabs \ {t} : poll'[u] = poll[u]

LEMMA PollWritten ==
  ASSUME TypeOK, NEW t \in Tabs, NEW r \in Poll, poll' = [poll EXCEPT ![t] = r],
         NEW pc, NEW after, NEW upto, NEW last,
         r.pc = pc, r.after = after, r.upto = upto, r.last = last
  PROVE  PollIs(t, pc, after, upto, last)
  BY NoneAssumption DEF PollIs, TypeOK, NoticesTypeOK

LEMMA StartPollFacts ==
  ASSUME TypeOK, NEW t \in Tabs, StartPoll(t)
  PROVE  PollIs(t, "since", cursor, cursor, 0)
<1> DEFINE r == [pc |-> "since", after |-> cursor, upto |-> cursor, last |-> 0]
<1>1. cursor \in Nat
  BY DEF TypeOK, NoticesTypeOK
<1>2. r \in Poll /\ r.pc = "since" /\ r.after = cursor /\ r.upto = cursor /\ r.last = 0
  BY <1>1 DEF Poll
<1>3. poll' = [poll EXCEPT ![t] = r]
  BY DEF StartPoll
<1> HIDE DEF r
<1> QED
  BY <1>2, <1>3, PollWritten

LEMMA SinceFacts ==
  ASSUME NoticeInv, NEW t \in Tabs, Since(t)
  PROVE  \/ PollIs(t, "max", poll[t].after, poll[t].upto, poll[t].last)
         \/ \E upto \in Nat : /\ upto > poll[t].after /\ upto <= Len(log)
                              /\ PollIs(t, "answer", poll[t].after, upto, upto)
<1>1. poll[t] \in Poll /\ Len(log) \in Nat
  BY DEF NoticeInv, TypeOK, NoticesTypeOK, Since, At
<1>2. poll[t].after \in Nat /\ poll[t].after <= Len(log)
  BY <1>1 DEF Poll, NoticeInv, PollOK, Since, At
<1>3. PICK upto \in Nat : upto = Page(poll[t].after) /\ upto <= Len(log)
  BY <1>1, <1>2, LimitAssumption DEF Page
<1>4. CASE upto > poll[t].after
  <2> DEFINE r == [poll[t] EXCEPT !.pc = "answer", !.upto = upto, !.last = upto]
  <2>1. /\ r \in Poll /\ r.pc = "answer"
        /\ r.after = poll[t].after /\ r.upto = upto /\ r.last = upto
    BY <1>1 DEF Poll
  <2>2. poll' = [poll EXCEPT ![t] = r]
    BY <1>3, <1>4 DEF Since
  <2> HIDE DEF r
  <2>3. PollIs(t, "answer", poll[t].after, upto, upto)
    BY <2>1, <2>2, PollWritten DEF NoticeInv
  <2> QED
    BY <1>3, <1>4, <2>3
<1>5. CASE ~(upto > poll[t].after)
  <2> DEFINE r == [poll[t] EXCEPT !.pc = "max"]
  <2>1. /\ r \in Poll /\ r.pc = "max"
        /\ r.after = poll[t].after /\ r.upto = poll[t].upto /\ r.last = poll[t].last
    BY <1>1 DEF Poll
  <2>2. poll' = [poll EXCEPT ![t] = r]
    BY <1>3, <1>5 DEF Since
  <2> HIDE DEF r
  <2> QED
    BY <2>1, <2>2, PollWritten DEF NoticeInv
<1> QED
  BY <1>4, <1>5

LEMMA MaxIDFacts ==
  ASSUME TypeOK, NEW t \in Tabs, MaxID(t)
  PROVE  PollIs(t, "answer", poll[t].after, poll[t].upto, Len(log))
<1>1. poll[t] \in Poll /\ Len(log) \in Nat
  BY DEF TypeOK, NoticesTypeOK, MaxID, At
<1> DEFINE r == [poll[t] EXCEPT !.pc = "answer", !.last = Len(log)]
<1>2. /\ r \in Poll /\ r.pc = "answer"
      /\ r.after = poll[t].after /\ r.upto = poll[t].upto /\ r.last = Len(log)
  BY <1>1 DEF Poll
<1>3. poll' = [poll EXCEPT ![t] = r]
  BY DEF MaxID, Highest
<1> HIDE DEF r
<1> QED
  BY <1>2, <1>3, PollWritten

\* What the answer to t makes of the cursor.
LEMMA MovedFacts ==
  ASSUME NoticeInv, NEW t \in Tabs, At(t, "answer")
  PROVE  /\ poll[t] \in Poll /\ Moved(t) \in 0 .. Len(log) /\ Shown(t) \subseteq 1 .. Len(log)
         /\ poll[t].after = 0 => Shown(t) = {} /\ Moved(t) \in {poll[t].last, cursor}
         /\ poll[t].after > 0 => /\ Shown(t) = poll[t].after + 1 .. poll[t].upto
                                 /\ \/ /\ Moved(t) = poll[t].upto
                                       /\ poll[t].upto > poll[t].after
                                    \/ Moved(t) = cursor /\ poll[t].upto = poll[t].after
<1>1. /\ poll[t] \in Poll /\ poll[t] # None /\ cursor \in 0 .. Len(log) /\ Len(log) \in Nat
  BY DEF NoticeInv, TypeOK, NoticesTypeOK, At
<1>2. /\ poll[t].after \in Nat /\ poll[t].upto \in Nat /\ poll[t].last \in Nat
      /\ poll[t].after <= poll[t].upto
      /\ poll[t].upto <= Len(log) /\ poll[t].last <= Len(log)
  BY <1>1 DEF Poll, NoticeInv, PollOK
<1> QED
  BY <1>1, <1>2 DEF Moved, Shown


LEMMA NoticeInit == Init => NoticeInv
<1> SUFFICES ASSUME Init PROVE NoticeInv
  OBVIOUS
<1>1. /\ log = <<>> /\ lost = {} /\ cursor = 0 /\ toasted = {} /\ failures = 0
      /\ poll = [t \in Tabs |-> None]
  BY DEF Init, NoticesInit
<1>2. log \in Seq(SUBSET Events) /\ Len(log) = 0
  BY <1>1
<1>3. failures \in 0 .. MaxFailures
  BY <1>1, FailureAssumption
<1>4. poll \in [Tabs -> Poll \cup {None}] /\ PollOK
  BY <1>1 DEF PollOK
<1>5. NoticesTypeOK
  BY <1>1, <1>2, <1>3, <1>4 DEF NoticesTypeOK
<1>6. pending \in Seq(Events) /\ writing \in Seq(SUBSET Events)
  BY DEF Init
<1> QED
  BY <1>4, <1>5, <1>6 DEF Init, NoticeInv, TypeOK

\* A page's step leaves the log and the buffer alone.
LEMMA NoticeVisit ==
  ASSUME NoticeInv, NEW t \in Tabs, Visit(t)
  PROVE  NoticeInv'
<1>0. TypeOK /\ NoticesTypeOK /\ PollOK /\ Len(log) \in Nat /\ DOMAIN log = 1..Len(log)
  BY DEF NoticeInv, TypeOK, NoticesTypeOK
<1>1. log' = log /\ lost' = lost /\ UNCHANGED bufferVars
  BY DEF Visit, Browse, StartPoll, Since, MaxID, Handle, Drop, storeVars
<1>2. ASSUME NEW pc, NEW after \in Nat, NEW upto \in Nat, NEW last \in Nat,
             PollIs(t, pc, after, upto, last), after <= upto, upto <= Len(log), last <= Len(log),
             pc \in {"since", "max"} => upto = after,
             UNCHANGED <<cursor, toasted, failures>>
      PROVE  NoticeInv'
  <2>1. PollOK'
    BY <1>0, <1>1, <1>2 DEF PollOK, PollIs
  <2>2. NoticesTypeOK'
    BY <1>0, <1>1, <1>2 DEF NoticesTypeOK, PollIs
  <2> QED
    BY <1>0, <1>1, <2>1, <2>2 DEF NoticeInv, TypeOK, bufferVars
<1>3. CASE StartPoll(t)
  <2>1. PollIs(t, "since", cursor, cursor, 0) /\ UNCHANGED <<cursor, toasted, failures>>
    BY <1>0, <1>3, StartPollFacts DEF StartPoll
  <2>2. cursor \in Nat /\ cursor <= Len(log)
    BY <1>0 DEF NoticesTypeOK
  <2> QED
    BY <1>0, <1>2, <2>1, <2>2
<1>4. ASSUME poll[t] # None
      PROVE  /\ poll[t].after \in Nat /\ poll[t].upto \in Nat /\ poll[t].last \in Nat
             /\ poll[t].after <= poll[t].upto
             /\ poll[t].upto <= Len(log) /\ poll[t].last <= Len(log)
  <2>1. poll[t] \in Poll
    BY <1>0, <1>4 DEF NoticesTypeOK
  <2> QED
    BY <1>0, <1>4, <2>1 DEF Poll, PollOK
<1>5. CASE Since(t)
  <2>1. /\ UNCHANGED <<cursor, toasted, failures>> /\ poll[t] # None
        /\ poll[t].pc = "since"
    BY <1>5 DEF Since, At
  <2>2. poll[t].upto = poll[t].after
    BY <1>0, <2>1 DEF PollOK
  <2>3. CASE PollIs(t, "max", poll[t].after, poll[t].upto, poll[t].last)
    BY <1>2, <1>4, <2>1, <2>2, <2>3
  <2>4. ASSUME NEW upto \in Nat, upto > poll[t].after, upto <= Len(log),
               PollIs(t, "answer", poll[t].after, upto, upto)
        PROVE  NoticeInv'
    BY <1>2, <1>4, <2>1, <2>4
  <2> QED
    BY <1>5, <2>3, <2>4, SinceFacts
<1>6. CASE MaxID(t)
  <2>1. UNCHANGED <<cursor, toasted, failures>> /\ poll[t] # None
    BY <1>6 DEF MaxID, At
  <2>2. PollIs(t, "answer", poll[t].after, poll[t].upto, Len(log))
    BY <1>0, <1>6, MaxIDFacts
  <2> QED
    BY <1>0, <1>2, <1>4, <2>1, <2>2
<1>7. CASE Handle(t)
  <2>1. Moved(t) \in 0 .. Len(log) /\ Shown(t) \subseteq 1 .. Len(log)
    BY <1>7, MovedFacts DEF Handle
  <2>2. poll' \in [Tabs -> Poll \cup {None}] /\ \A u \in Tabs : poll'[u] \in {None, poll[u]}
    BY <1>0, <1>7 DEF Handle, NoticesTypeOK
  <2>3. cursor' \in 0 .. Len(log) /\ toasted' \subseteq DOMAIN log /\ failures' = failures
    BY <1>0, <1>7, <2>1 DEF Handle, NoticesTypeOK
  <2>4. PollOK'
    BY <1>0, <1>1, <2>2 DEF PollOK
  <2>5. NoticesTypeOK'
    BY <1>0, <1>1, <2>2, <2>3 DEF NoticesTypeOK
  <2> QED
    BY <1>0, <1>1, <2>4, <2>5 DEF NoticeInv, TypeOK, bufferVars
<1>8. CASE Drop(t)
  <2>1. poll' \in [Tabs -> Poll \cup {None}] /\ \A u \in Tabs : poll'[u] \in {None, poll[u]}
    BY <1>0, <1>8 DEF Drop, NoticesTypeOK
  <2>2. cursor' = cursor /\ toasted' = toasted /\ failures' \in 0 .. MaxFailures
    BY <1>0, <1>8, FailureAssumption DEF Drop, Fails, NoticesTypeOK
  <2>3. PollOK'
    BY <1>0, <1>1, <2>1 DEF PollOK
  <2>4. NoticesTypeOK'
    BY <1>0, <1>1, <2>1, <2>2 DEF NoticesTypeOK
  <2> QED
    BY <1>0, <1>1, <2>3, <2>4 DEF NoticeInv, TypeOK, bufferVars
<1> QED
  BY <1>3, <1>5, <1>6, <1>7, <1>8 DEF Visit, Browse

\* The log only grows: what is true of the pages stays true.
LEMMA PagesStay ==
  ASSUME NoticesTypeOK, PollOK, UNCHANGED pageVars,
         log' = log \/ (\E r \in SUBSET Events : log' = Append(log, r)),
         lost' \subseteq Events, failures' \in 0 .. MaxFailures
  PROVE  NoticesTypeOK' /\ PollOK'
<1>1. log \in Seq(SUBSET Events) /\ Len(log) \in Nat
  BY DEF NoticesTypeOK
<1>2. /\ log' \in Seq(SUBSET Events) /\ Len(log') \in Nat /\ Len(log) <= Len(log')
      /\ DOMAIN log \subseteq DOMAIN log'
  BY <1>1
<1>3. NoticesTypeOK'
  BY <1>1, <1>2 DEF NoticesTypeOK, pageVars
<1>4. ASSUME NEW t \in Tabs, poll[t] # None
      PROVE  poll[t].upto <= Len(log') /\ poll[t].last <= Len(log')
  <2>1. poll[t] \in Poll
    BY <1>4 DEF NoticesTypeOK
  <2> QED
    BY <1>1, <1>2, <1>4, <2>1 DEF Poll, PollOK
<1> QED
  BY <1>3, <1>4 DEF PollOK, pageVars

LEMMA FailsFacts ==
  ASSUME NoticesTypeOK, Fails PROVE failures' \in 0 .. MaxFailures
  BY FailureAssumption DEF NoticesTypeOK, Fails

\* What Submit, a flush and a summary may make of the buffer.
LEMMA FlushFacts ==
  ASSUME TypeOK, FlushIndividual
  PROVE  /\ UNCHANGED noticeVars /\ writing = <<>>
         /\ \/ pending = <<>> /\ UNCHANGED <<pending, aged, timer, writing>>
            \/ /\ pending # <<>> /\ pending' = <<>> /\ aged' = FALSE /\ timer' = FALSE
               /\ writing' = Singles(pending)
  BY DEF FlushIndividual, Take, Unlocked

LEMMA SubmitFacts ==
  ASSUME TypeOK, NEW e \in Events, Submit(e)
  PROVE  /\ UNCHANGED <<noticeVars, fired>> /\ writing = <<>>
         /\ Append(pending, e) \in Seq(Events)
         /\ \/ /\ pending' = <<>> /\ aged' = FALSE /\ timer' = FALSE
               /\ writing' = <<Members(Append(pending, e))>>
            \/ /\ pending' = Append(pending, e) /\ aged' \in BOOLEAN /\ timer' = TRUE
               /\ writing' = writing
<1> DEFINE buffer == Append(pending, e)
           old == pending # <<>> /\ aged
<1>1. pending \in Seq(Events) /\ aged \in BOOLEAN /\ buffer \in Seq(Events)
  BY DEF TypeOK
<1>2. /\ UNCHANGED <<noticeVars, fired>> /\ writing = <<>>
      /\ IF Summarises(buffer, old)
         THEN Summary(buffer)
         ELSE /\ pending' = buffer /\ aged' = old /\ timer' = Arm(buffer)
              /\ UNCHANGED writing
  BY DEF Submit, Unlocked
<1> QED
  BY <1>1, <1>2 DEF Summary, Take, Arm


LEMMA NoticeStep == NoticeInv /\ [Next]_vars => NoticeInv'
<1> SUFFICES ASSUME NoticeInv, [Next]_vars PROVE NoticeInv'
  OBVIOUS
<1>0. TypeOK /\ NoticesTypeOK /\ PollOK
  BY DEF NoticeInv, TypeOK
<1>1. ASSUME NEW t \in Tabs, Visit(t) PROVE NoticeInv'
  BY <1>1, NoticeVisit
<1>2. ASSUME UNCHANGED pageVars, lost' \subseteq Events, failures' \in 0 .. MaxFailures,
             log' = log \/ (\E r \in SUBSET Events : log' = Append(log, r)),
             pending' \in Seq(Events), aged' \in BOOLEAN, timer' \in BOOLEAN,
             fired' \in Nat, writing' \in Seq(SUBSET Events)
      PROVE  NoticeInv'
  BY <1>0, <1>2, PagesStay DEF NoticeInv, TypeOK
<1>3. /\ lost \subseteq Events /\ failures \in 0 .. MaxFailures
      /\ pending \in Seq(Events) /\ aged \in BOOLEAN /\ timer \in BOOLEAN
      /\ fired \in Nat /\ writing \in Seq(SUBSET Events)
  BY <1>0 DEF TypeOK, NoticesTypeOK
<1>4. ASSUME NEW e \in Events, Submit(e) PROVE NoticeInv'
  <2>1. Append(pending, e) \in Seq(Events) /\ UNCHANGED <<noticeVars, fired>>
    BY <1>0, <1>4, SubmitFacts
  <2>0. <<>> \in Seq(Events)
    OBVIOUS
  <2>2. Members(Append(pending, e)) \in SUBSET Events
    BY <2>1 DEF Members
  <2>3. <<Members(Append(pending, e))>> \in Seq(SUBSET Events)
    BY <2>2, OneRow
  <2>4. /\ pending' \in Seq(Events) /\ aged' \in BOOLEAN /\ timer' \in BOOLEAN
        /\ writing' \in Seq(SUBSET Events)
    BY <1>0, <1>3, <1>4, <2>0, <2>1, <2>3, SubmitFacts
  <2> QED
    BY <1>2, <1>3, <2>1, <2>4 DEF noticeVars, storeVars
<1>5. ASSUME NEW e \in Events, AppendRow(e), UNCHANGED bufferVars PROVE NoticeInv'
  BY <1>2, <1>3, <1>5 DEF AppendRow, bufferVars
<1>6. ASSUME NEW e \in Events, AppendFails(e), UNCHANGED bufferVars PROVE NoticeInv'
  BY <1>0, <1>2, <1>3, <1>6, FailsFacts DEF AppendFails, bufferVars
<1>7. CASE Age
  BY <1>2, <1>3, <1>7 DEF Age, noticeVars, storeVars
<1>8. CASE Fire
  <2>0. fired' = fired + 1 /\ timer' = FALSE
    BY <1>8 DEF Fire
  <2>1. fired' \in Nat
    BY <1>3, <2>0
  <2>a. timer' \in BOOLEAN
    BY <2>0
  <2>2. UNCHANGED <<noticeVars, pending, aged, writing>>
    BY <1>8 DEF Fire
  <2> QED
    BY <1>2, <1>3, <2>1, <2>a, <2>2 DEF noticeVars, storeVars
<1>9. CASE Callback \/ Flush
  <2>1. FlushIndividual /\ fired' \in Nat
    BY <1>3, <1>9 DEF Callback, Flush
  <2>2. Singles(pending) \in Seq(SUBSET Events) /\ <<>> \in Seq(Events)
    BY <1>3, SinglesFacts
  <2>3. /\ pending' \in Seq(Events) /\ aged' \in BOOLEAN /\ timer' \in BOOLEAN
        /\ writing' \in Seq(SUBSET Events) /\ UNCHANGED noticeVars
    BY <1>0, <1>3, <2>1, <2>2, FlushFacts
  <2> QED
    BY <1>2, <1>3, <2>1, <2>3 DEF noticeVars, storeVars
<1>10. CASE WriteRow
  <2>1. Head(writing) \in SUBSET Events /\ Tail(writing) \in Seq(SUBSET Events)
    BY <1>3, <1>10, TailFacts DEF WriteRow
  <2>2. /\ log' = Append(log, Head(writing)) /\ writing' = Tail(writing)
        /\ UNCHANGED <<lost, pageVars, failures, pending, aged, timer, fired>>
    BY <1>10 DEF WriteRow
  <2> QED
    BY <1>2, <1>3, <2>1, <2>2
<1>11. CASE WriteFails
  <2>1. Dropped \subseteq Events /\ <<>> \in Seq(SUBSET Events)
    BY <1>3 DEF Dropped, Members
  <2>2. failures' \in 0 .. MaxFailures
    BY <1>0, <1>11, FailsFacts DEF WriteFails
  <2>3. /\ lost' = lost \cup Dropped /\ writing' = <<>>
        /\ UNCHANGED <<log, pageVars, pending, aged, timer, fired>>
    BY <1>11 DEF WriteFails
  <2> QED
    BY <1>2, <1>3, <2>1, <2>2, <2>3
<1>12. CASE Restart
  <2>1. Buffered \subseteq Events
    BY <1>3 DEF Buffered, Members
  <2>2. failures' \in 0 .. MaxFailures
    BY <1>0, <1>12, FailsFacts DEF Restart
  <2>3. /\ lost' = lost \cup Buffered /\ UNCHANGED <<log, cursor, toasted>>
        /\ pending' = <<>> /\ aged' = FALSE /\ timer' = FALSE /\ fired' = 0 /\ writing' = <<>>
        /\ poll' = [t \in Tabs |-> None]
    BY <1>12 DEF Restart
  <2>4. poll' \in [Tabs -> Poll \cup {None}] /\ PollOK'
    BY <2>3 DEF PollOK
  <2>5. NoticesTypeOK'
    BY <1>0, <2>1, <2>2, <2>3, <2>4 DEF NoticesTypeOK
  <2>6. pending' \in Seq(Events) /\ writing' \in Seq(SUBSET Events)
    BY <2>3
  <2> QED
    BY <2>3, <2>4, <2>5, <2>6 DEF NoticeInv, TypeOK
<1>13. CASE UNCHANGED vars
  BY <1>2, <1>3, <1>13 DEF vars, noticeVars, storeVars, bufferVars
<1> QED
  BY <1>1, <1>4, <1>5, <1>6, <1>7, <1>8, <1>9, <1>10, <1>11, <1>12, <1>13 DEF Next, Happens

LEMMA HistoryIsStep == [HistoryNext]_historyVars => [Next]_vars
  BY DEF HistoryNext, historyVars, Next

\* Every reachable state of the buffer, the log and the pages is well typed: the cursor
\* and every answer lie within the log.
THEOREM NoticesTypeCorrect == Spec => []TypeOK
<1>1. NoticeInv => TypeOK
  BY DEF NoticeInv
<1> QED
  BY <1>1, NoticeInit, NoticeStep, PTL DEF Spec

-----------------------------------------------------------------------------
(* Events are conserved.  While rows are being written the buffer is       *)
(* empty: the mutex is held, and whoever took the buffer over emptied it.  *)

Told == UNION Members(log)

RowsInv ==
  /\ Disjoint(log) /\ Disjoint(writing) /\ Apart(pending)
  /\ pending # <<>> => writing = <<>>
  /\ pending # <<>> => timer \/ fired > 0
  /\ lost \cap Told = {}
  /\ (lost \cup Told) \cap Buffered = {}

LEMMA GivenIs == Given = lost \cup Told
  BY DEF Given, Told, Members

LEMMA EmptyRows == Members(<<>>) = {} /\ Disjoint(<<>>) /\ Apart(<<>>)
<1>1. DOMAIN <<>> = {}
  OBVIOUS
<1> QED
  BY <1>1 DEF Members, Disjoint, Apart

LEMMA RowsInit == Init => RowsInv
  BY EmptyRows DEF Init, NoticesInit, RowsInv, Told, Buffered

\* A new event at the end of the buffer.
LEMMA NewIsApart ==
  ASSUME TypeOK, RowsInv, NEW e \in Events, New(e)
  PROVE  /\ Apart(Append(pending, e)) /\ e \notin lost \cup Told
         /\ Members(Append(pending, e)) = Members(pending) \cup {e}
         /\ Members(Append(pending, e)) \cap (lost \cup Told) = {}
<1>0. pending \in Seq(Events)
  BY DEF TypeOK
<1>1. e \notin Members(pending) /\ e \notin lost \cup Told
  BY GivenIs DEF New, Buffered
<1>2. Members(Append(pending, e)) = Members(pending) \cup {e}
  BY <1>0, MembersAppend
<1>3. Apart(Append(pending, e))
  <2> DEFINE t == Append(pending, e)
  <2>1. /\ DOMAIN pending = 1..Len(pending) /\ DOMAIN t = 1..Len(pending) + 1
        /\ Len(pending) \in Nat /\ t[Len(pending) + 1] = e
        /\ \A i \in 1..Len(pending) : t[i] = pending[i]
    BY <1>0
  <2> HIDE DEF t
  <2>2. \A i \in 1..Len(pending) : pending[i] # e
    BY <1>1, <2>1 DEF Members
  <2>3. \A i \in 1..Len(pending) + 1 : i # Len(pending) + 1 => i \in 1..Len(pending)
    BY <2>1
  <2>4. ASSUME NEW i \in DOMAIN t, NEW j \in DOMAIN t, i # j PROVE t[i] # t[j]
    BY <2>1, <2>2, <2>3, <2>4 DEF RowsInv, Apart
  <2> QED
    BY <2>4 DEF Apart, t
<1> QED
  BY <1>1, <1>2, <1>3 DEF RowsInv, Buffered

LEMMA RowsStep ==
  ASSUME TypeOK, RowsInv, [Next]_vars
  PROVE  RowsInv'
<1>0. /\ log \in Seq(SUBSET Events) /\ pending \in Seq(Events)
      /\ writing \in Seq(SUBSET Events) /\ fired \in Nat
      /\ timer \in BOOLEAN
  BY DEF TypeOK, NoticesTypeOK
<1>1. ASSUME NEW t \in Tabs, Visit(t) PROVE RowsInv'
  BY <1>1
  DEF Visit, Browse, StartPoll, Since, MaxID, Handle, Drop, storeVars, bufferVars, RowsInv,
      Told, Buffered
<1>2. ASSUME NEW e \in Events, New(e), Submit(e) PROVE RowsInv'
  <2> DEFINE buffer == Append(pending, e)
  <2>1. /\ Apart(buffer) /\ Members(buffer) \cap (lost \cup Told) = {}
        /\ buffer \in Seq(Events)
    BY <1>2, NewIsApart, SubmitFacts
  <2>2. UNCHANGED <<log, lost, fired>> /\ writing = <<>>
    BY <1>2, SubmitFacts DEF noticeVars, storeVars
  <2>3. CASE pending' = <<>> /\ writing' = <<Members(buffer)>>
    <3>1. Members(buffer) \in SUBSET Events
      BY <2>1 DEF Members
    <3>2. Disjoint(writing') /\ UNION Members(writing') = Members(buffer)
      BY <2>3, <3>1, OneRow
    <3>3. Apart(pending') /\ Members(pending') = {}
      BY <2>3, EmptyRows
    <3>4. Buffered' = Members(buffer)
      BY <3>2, <3>3 DEF Buffered
    <3> QED
      BY <2>1, <2>2, <2>3, <3>2, <3>3, <3>4 DEF RowsInv, Told
  <2>4. CASE pending' = buffer /\ timer' = TRUE /\ writing' = writing
    <3>1. UNION Members(writing') = {} /\ Disjoint(writing')
      BY <2>2, <2>4, EmptyRows
    <3>2. Buffered' = Members(buffer)
      BY <2>4, <3>1 DEF Buffered
    <3> QED
      BY <2>1, <2>2, <2>4, <3>1, <3>2 DEF RowsInv, Told
  <2> QED
    BY <1>2, <2>3, <2>4, SubmitFacts
<1>3. ASSUME NEW e \in Events, New(e), AppendRow(e), UNCHANGED bufferVars PROVE RowsInv'
  <2>1. e \notin lost \cup Told /\ e \notin Buffered
    BY <1>3, GivenIs DEF New
  <2>2. PICK r \in SUBSET Events : r = {e} /\ log' = Append(log, r) /\ lost' = lost
    BY <1>3 DEF AppendRow
  <2>3. Disjoint(log')
    BY <1>0, <2>1, <2>2, DisjointAppend DEF RowsInv, Told
  <2>a. Members(Append(log, r)) = Members(log) \cup {r}
    BY <1>0, MembersAppend
  <2>b. Told' = Told \cup {e}
    BY <2>2, <2>a DEF Told
  <2>4. Buffered' = Buffered /\ UNCHANGED <<pending, timer, fired, writing>>
    BY <1>3 DEF bufferVars, Buffered
  <2> QED
    BY <2>1, <2>2, <2>3, <2>b, <2>4 DEF RowsInv
<1>4. ASSUME NEW e \in Events, New(e), AppendFails(e), UNCHANGED bufferVars PROVE RowsInv'
  <2>1. e \notin lost \cup Told /\ e \notin Buffered
    BY <1>4, GivenIs DEF New
  <2>2. lost' = lost \cup {e} /\ log' = log /\ Told' = Told
    BY <1>4 DEF AppendFails, Told
  <2>3. Buffered' = Buffered /\ UNCHANGED <<pending, timer, fired, writing>>
    BY <1>4 DEF bufferVars, Buffered
  <2> QED
    BY <2>1, <2>2, <2>3 DEF RowsInv
<1>5. CASE Age
  BY <1>5 DEF Age, noticeVars, storeVars, RowsInv, Told, Buffered
<1>6. CASE Fire
  BY <1>0, <1>6 DEF Fire, noticeVars, storeVars, RowsInv, Told, Buffered
<1>7. CASE Callback \/ Flush
  <2>1. FlushIndividual /\ UNCHANGED <<log, lost>> /\ writing = <<>> /\ Told' = Told
    BY <1>7, FlushFacts DEF Callback, Flush, noticeVars, storeVars, Told
  <2>2. CASE pending = <<>> /\ UNCHANGED <<pending, writing>>
    BY <2>1, <2>2 DEF RowsInv, Buffered
  <2>3. CASE pending # <<>> /\ pending' = <<>> /\ writing' = Singles(pending)
    <3>1. Disjoint(writing') /\ UNION Members(writing') = Members(pending)
      BY <1>0, <2>3, SinglesFacts DEF RowsInv
    <3>2. Apart(pending') /\ Members(pending') = {}
      BY <2>3, EmptyRows
    <3>3. Buffered' = Members(pending)
      BY <3>1, <3>2 DEF Buffered
    <3>4. Members(pending) \subseteq Buffered
      BY DEF Buffered
    <3> QED
      BY <2>1, <2>3, <3>1, <3>2, <3>3, <3>4 DEF RowsInv
  <2> QED
    BY <2>1, <2>2, <2>3, FlushFacts
<1>8. CASE WriteRow
  <2>1. /\ writing # <<>> /\ log' = Append(log, Head(writing)) /\ writing' = Tail(writing)
        /\ UNCHANGED <<lost, pending, timer, fired>>
    BY <1>8 DEF WriteRow
  <2>2. /\ Head(writing) \in SUBSET Events
        /\ Members(writing) = {Head(writing)} \cup Members(writing')
    BY <1>0, <2>1, TailFacts
  <2>3. Disjoint(writing') /\ Head(writing) \cap UNION Members(writing') = {}
    BY <1>0, <2>1, DisjointTail DEF RowsInv
  <2>4. pending = <<>> /\ Members(pending) = {} /\ Apart(pending)
    BY <2>1, EmptyRows DEF RowsInv
  <2>5. Buffered = Head(writing) \cup UNION Members(writing')
    BY <2>2, <2>4 DEF Buffered
  <2>6. Buffered' = UNION Members(writing')
    BY <2>1, <2>4 DEF Buffered
  <2>7. Head(writing) \cap (lost \cup Told) = {}
    BY <2>5 DEF RowsInv
  <2>8. Disjoint(log') /\ Told' = Told \cup Head(writing)
    BY <1>0, <2>1, <2>2, <2>7, DisjointAppend, MembersAppend DEF RowsInv, Told
  <2> QED
    BY <2>1, <2>3, <2>4, <2>5, <2>6, <2>7, <2>8 DEF RowsInv
<1>9. CASE WriteFails
  <2>1. /\ writing # <<>> /\ writing' = <<>> /\ lost' = lost \cup UNION Members(writing)
        /\ UNCHANGED <<log, pending, timer, fired>>
    BY <1>9 DEF WriteFails, Dropped
  <2>2. pending = <<>> /\ Members(pending) = {} /\ Apart(pending)
    BY <2>1, EmptyRows DEF RowsInv
  <2>3. Buffered' = {} /\ Disjoint(writing')
    BY <2>1, <2>2, EmptyRows DEF Buffered
  <2>4. UNION Members(writing) \subseteq Buffered
    BY DEF Buffered
  <2> QED
    BY <2>1, <2>2, <2>3, <2>4 DEF RowsInv, Told
<1>10. CASE Restart
  <2>1. pending' = <<>> /\ writing' = <<>> /\ lost' = lost \cup Buffered /\ log' = log
    BY <1>10 DEF Restart
  <2>2. Buffered' = {} /\ Disjoint(writing') /\ Apart(pending')
    BY <2>1, EmptyRows DEF Buffered
  <2> QED
    BY <2>1, <2>2 DEF RowsInv, Told
<1>11. CASE UNCHANGED vars
  BY <1>11 DEF vars, noticeVars, storeVars, bufferVars, RowsInv, Told, Buffered
<1> QED
  BY <1>1, <1>2, <1>3, <1>4, <1>5, <1>6, <1>7, <1>8, <1>9, <1>10, <1>11 DEF Next, Happens

\* No event is told of twice, lost while it is told of, or left in the buffer without a
\* timer or a callback: Append, the flushes and the rows they write hand every event on,
\* whatever fires while the mutex is held.
THEOREM EventsAreConserved == HistorySpec => []Conserved
<1> DEFINE Inv == NoticeInv /\ RowsInv
<1>1. HistoryInit => Inv
  BY NoticeInit, RowsInit DEF HistoryInit
<1>2. Inv /\ [HistoryNext]_historyVars => Inv'
  BY NoticeStep, RowsStep, HistoryIsStep DEF NoticeInv
<1>3. Inv => Conserved
  BY GivenIs DEF RowsInv, Told, Conserved, Disjoint
<1> QED
  BY <1>1, <1>2, <1>3, PTL DEF HistorySpec


-----------------------------------------------------------------------------
(* The cursor.  What a page asked with has been passed for good; and while *)
(* one poll at a time is out, it was asked with the cursor as it is.       *)

Passed(n) == 1 .. n \subseteq toasted \cup skipped

Alone ==
  /\ \A t, u \in Tabs : poll[t] # None /\ poll[u] # None => t = u
  /\ \A t \in Tabs : poll[t] # None => poll[t].after = cursor
  /\ toasted \subseteq 1 .. cursor
  /\ again = {}

CursorInv ==
  /\ NoticeInv
  /\ overlap \in BOOLEAN
  /\ Passed(cursor)
  /\ \A t \in Tabs : poll[t] # None => Passed(poll[t].after)
  /\ overlap \/ Alone

LEMMA CursorInit == HistoryInit => CursorInv
<1> SUFFICES ASSUME HistoryInit PROVE CursorInv
  OBVIOUS
<1>1. NoticeInv /\ overlap = FALSE /\ again = {}
  BY NoticeInit DEF HistoryInit
<1>2. cursor = 0 /\ toasted = {} /\ poll = [t \in Tabs |-> None]
  BY DEF HistoryInit, Init, NoticesInit
<1>3. 1 .. 0 = {}
  OBVIOUS
<1> QED
  BY <1>1, <1>2, <1>3 DEF CursorInv, Passed, Alone

\* Steps that no page takes.
LEMMA CursorFrame ==
  ASSUME CursorInv, NoticeInv', UNCHANGED <<cursor, toasted, skipped, again, overlap>>,
         \A t \in Tabs : poll'[t] \in {None, poll[t]}
  PROVE  CursorInv'
<1>1. ASSUME NEW n, Passed(n) PROVE 1 .. n \subseteq toasted' \cup skipped'
  BY <1>1 DEF Passed
<1>2. ASSUME NEW t \in Tabs, poll'[t] # None
      PROVE  1 .. poll'[t].after \subseteq toasted' \cup skipped'
  <2>1. poll'[t] = poll[t] /\ poll[t] # None
    BY <1>2
  <2> QED
    BY <2>1 DEF CursorInv, Passed
<1>3. Alone => Alone'
  BY DEF Alone
<1>4. Passed(cursor)'
  BY DEF CursorInv, Passed
<1> QED
  BY <1>2, <1>3, <1>4 DEF CursorInv, Passed

LEMMA StartKeepsCursor ==
  ASSUME CursorInv, NoticeInv', NEW t \in Tabs, StartPoll(t),
         UNCHANGED <<skipped, again>>, overlap' = (overlap \/ Out # {})
  PROVE  CursorInv'
<1>0. TypeOK /\ overlap \in BOOLEAN /\ overlap' \in BOOLEAN
  BY DEF CursorInv, NoticeInv
<1>1. PollIs(t, "since", cursor, cursor, 0) /\ UNCHANGED <<cursor, toasted>>
  BY <1>0, StartPollFacts DEF StartPoll
<1>2. Passed(cursor)'
  BY <1>1 DEF CursorInv, Passed
<1>3. ASSUME NEW u \in Tabs, poll'[u] # None
      PROVE  1 .. poll'[u].after \subseteq toasted' \cup skipped'
  <2>1. CASE u = t
    BY <1>1, <2>1 DEF PollIs, CursorInv, Passed
  <2>2. CASE u # t
    <3>1. poll'[u] = poll[u]
      BY <1>1, <2>2 DEF PollIs
    <3> QED
      BY <1>1, <1>3, <3>1 DEF CursorInv, Passed
  <2> QED
    BY <2>1, <2>2
<1>4. ASSUME ~overlap' PROVE Alone'
  <2>1. Alone /\ \A u \in Tabs : poll[u] = None
    BY <1>0, <1>4 DEF CursorInv, Out
  <2>2. \A u \in Tabs : poll'[u] # None => u = t
    BY <1>1, <2>1 DEF PollIs
  <2>3. poll'[t].after = cursor'
    BY <1>1 DEF PollIs
  <2> QED
    BY <1>1, <2>1, <2>2, <2>3 DEF Alone
<1> QED
  BY <1>0, <1>2, <1>3, <1>4 DEF CursorInv, Passed

\* An answer arrives, and the request was made with the same cursor.
LEMMA AnswerKeepsCursor ==
  ASSUME CursorInv, NoticeInv', NEW t \in Tabs, NEW pc, NEW upto, NEW last,
         poll[t] # None, PollIs(t, pc, poll[t].after, upto, last),
         UNCHANGED <<cursor, toasted, skipped, again, overlap>>
  PROVE  CursorInv'
<1>1. \A u \in Tabs : poll'[u] # None => poll[u] # None /\ poll'[u].after = poll[u].after
  BY DEF PollIs
<1>2. Passed(cursor)'
  BY DEF CursorInv, Passed
<1>3. ASSUME NEW u \in Tabs, poll'[u] # None
      PROVE  1 .. poll'[u].after \subseteq toasted' \cup skipped'
  BY <1>1, <1>3 DEF CursorInv, Passed
<1>4. Alone => Alone'
  BY <1>1 DEF Alone
<1> QED
  BY <1>2, <1>3, <1>4 DEF CursorInv, Passed

LEMMA HandleKeepsCursor ==
  ASSUME CursorInv, NoticeInv', NEW t \in Tabs, Handle(t), overlap' = overlap,
         again' = again \cup (toasted \cap Shown(t)),
         skipped' = IF poll[t].after = 0 THEN skipped \cup 1 .. poll[t].last ELSE skipped
  PROVE  CursorInv'
<1>0. /\ NoticeInv /\ TypeOK /\ At(t, "answer") /\ poll[t] # None
      /\ cursor \in Nat /\ poll \in [Tabs -> Poll \cup {None}]
  BY DEF CursorInv, NoticeInv, TypeOK, NoticesTypeOK, Handle, At
<1>1. /\ poll[t] \in Poll /\ Moved(t) \in Nat
      /\ poll[t].after = 0 => Shown(t) = {} /\ Moved(t) \in {poll[t].last, cursor}
      /\ poll[t].after > 0 => /\ Shown(t) = poll[t].after + 1 .. poll[t].upto
                              /\ \/ /\ Moved(t) = poll[t].upto
                                    /\ poll[t].upto > poll[t].after
                                 \/ Moved(t) = cursor /\ poll[t].upto = poll[t].after
  BY <1>0, MovedFacts
<1>2. PICK a \in Nat, l \in Nat, n \in Nat, m \in Nat, c \in Nat :
        /\ a = poll[t].after /\ n = poll[t].upto /\ l = poll[t].last
        /\ m = Moved(t) /\ c = cursor
  BY <1>0, <1>1 DEF Poll
<1>3. /\ cursor' = m /\ toasted' = toasted \cup Shown(t)
      /\ \A u \in Tabs : poll'[u] = IF u = t THEN None ELSE poll[u]
  BY <1>0, <1>2 DEF Handle
<1>4. toasted \subseteq toasted' /\ skipped \subseteq skipped'
  BY <1>3
<1>5. 1 .. a \subseteq toasted \cup skipped /\ 1 .. c \subseteq toasted \cup skipped
  BY <1>0, <1>2 DEF CursorInv, Passed
<1>6. 1 .. m \subseteq toasted' \cup skipped'
  <2>1. CASE a = 0
    <3>1. m \in {l, c} /\ skipped' = skipped \cup 1 .. l
      BY <1>1, <1>2, <2>1
    <3> QED
      BY <1>4, <1>5, <3>1
  <2>2. CASE a > 0
    <3>1. CASE m = c
      BY <1>4, <1>5, <3>1
    <3>2. CASE m = n /\ n > a
      <4>1. toasted' = toasted \cup (a + 1 .. n)
        BY <1>1, <1>2, <1>3, <2>2
      <4>2. \A i \in 1 .. n : i \in 1 .. a \/ i \in a + 1 .. n
        OBVIOUS
      <4> QED
        BY <1>4, <1>5, <3>2, <4>1, <4>2
    <3> QED
      BY <1>1, <1>2, <2>2, <3>1, <3>2
  <2> QED
    BY <2>1, <2>2
<1>7. Passed(cursor)'
  BY <1>3, <1>6 DEF Passed
<1>8. ASSUME NEW u \in Tabs, poll'[u] # None
      PROVE  1 .. poll'[u].after \subseteq toasted' \cup skipped'
  <2>1. poll'[u] = poll[u] /\ poll[u] # None
    BY <1>3, <1>8
  <2> QED
    BY <1>4, <2>1 DEF CursorInv, Passed
<1>9. ASSUME Alone PROVE Alone'
  <2>1. a = c /\ toasted \subseteq 1 .. c /\ again = {}
    BY <1>0, <1>2, <1>9 DEF Alone
  <2>2. \A u \in Tabs : poll'[u] = None
    BY <1>0, <1>3, <1>9 DEF Alone
  <2>3. toasted' \subseteq 1 .. m /\ toasted \cap Shown(t) = {}
    <3>1. CASE a = 0
      <4>1. Shown(t) = {} /\ toasted = {}
        BY <1>1, <1>2, <2>1, <3>1
      <4> QED
        BY <1>3, <4>1
    <3>2. CASE a > 0
      <4>1. Shown(t) = a + 1 .. n /\ ((m = n /\ n > a) \/ (m = c /\ n = a))
        BY <1>1, <1>2, <3>2
      <4> QED
        BY <1>3, <2>1, <4>1
    <3> QED
      BY <3>1, <3>2
  <2> QED
    BY <1>3, <2>1, <2>2, <2>3 DEF Alone
<1> QED
  BY <1>7, <1>8, <1>9 DEF CursorInv, Passed

LEMMA CursorStep == CursorInv /\ [HistoryNext]_historyVars => CursorInv'
<1> SUFFICES ASSUME CursorInv, [HistoryNext]_historyVars PROVE CursorInv'
  OBVIOUS
<1>0. /\ NoticeInv' /\ NoticeInv /\ overlap \in BOOLEAN
      /\ poll \in [Tabs -> Poll \cup {None}] /\ failures \in Nat
  BY NoticeStep, HistoryIsStep DEF CursorInv, NoticeInv, TypeOK, NoticesTypeOK
<1>1. CASE UNCHANGED historyVars
  BY <1>0, <1>1, CursorFrame DEF historyVars, vars, noticeVars, pageVars
<1>2. ASSUME NEW t \in Tabs, Visit(t),
             overlap' = (overlap \/ (At(t, "since")' /\ Out # {} /\ poll[t] = None)),
             IF At(t, "answer") /\ UNCHANGED failures
             THEN /\ again' = again \cup (toasted \cap Shown(t))
                  /\ skipped' = IF poll[t].after = 0 THEN skipped \cup 1 .. poll[t].last
                                                     ELSE skipped
             ELSE UNCHANGED <<again, skipped>>
      PROVE  CursorInv'
  <2>0. TypeOK
    BY <1>0 DEF NoticeInv
  <2>1. CASE StartPoll(t)
    <3>1. PollIs(t, "since", cursor, cursor, 0) /\ poll[t] = None
      BY <2>0, <2>1, StartPollFacts DEF StartPoll
    <3>2. At(t, "since")' /\ ~At(t, "answer")
      BY <3>1 DEF At, PollIs
    <3>3. UNCHANGED <<again, skipped>> /\ overlap' = (overlap \/ Out # {})
      BY <1>2, <3>1, <3>2
    <3> QED
      BY <1>0, <2>1, <3>3, StartKeepsCursor
  <2>2. ASSUME poll[t] # None PROVE overlap' = overlap
    BY <1>0, <1>2, <2>2
  <2>3. CASE Since(t)
    <3>1. poll[t] # None /\ ~At(t, "answer") /\ UNCHANGED <<cursor, toasted>>
      BY <2>3 DEF Since, At
    <3>2. UNCHANGED <<cursor, toasted, skipped, again, overlap>>
      BY <1>2, <2>2, <3>1
    <3>3. PICK pc, upto, last : PollIs(t, pc, poll[t].after, upto, last)
      BY <1>0, <2>3, SinceFacts
    <3> QED
      BY <1>0, <3>1, <3>2, <3>3, AnswerKeepsCursor
  <2>4. CASE MaxID(t)
    <3>1. poll[t] # None /\ ~At(t, "answer") /\ UNCHANGED <<cursor, toasted>>
      BY <2>4 DEF MaxID, At
    <3>2. UNCHANGED <<cursor, toasted, skipped, again, overlap>>
      BY <1>2, <2>2, <3>1
    <3>3. PollIs(t, "answer", poll[t].after, poll[t].upto, Len(log))
      BY <2>0, <2>4, MaxIDFacts
    <3> QED
      BY <1>0, <3>1, <3>2, <3>3, AnswerKeepsCursor
  <2>5. CASE Handle(t)
    <3>1. At(t, "answer") /\ poll[t] # None /\ failures' = failures
      BY <2>5 DEF Handle, At
    <3> QED
      BY <1>0, <1>2, <2>2, <2>5, <3>1, HandleKeepsCursor
  <2>6. CASE Drop(t)
    <3>1. /\ poll[t] # None /\ failures' # failures /\ UNCHANGED <<cursor, toasted>>
          /\ \A u \in Tabs : poll'[u] \in {None, poll[u]}
      BY <1>0, <2>6 DEF Drop, Fails
    <3>2. UNCHANGED <<skipped, again>> /\ overlap' = overlap
      BY <1>2, <2>2, <3>1
    <3> QED
      BY <1>0, <3>1, <3>2, CursorFrame
  <2> QED
    BY <1>2, <2>1, <2>3, <2>4, <2>5, <2>6 DEF Visit, Browse
<1>3. CASE /\ \/ \E e \in Events : Happens(e)
              \/ Age \/ Fire \/ Callback \/ Flush
              \/ WriteRow \/ WriteFails \/ Restart
           /\ UNCHANGED <<skipped, again, overlap>>
  <2>1. UNCHANGED <<cursor, toasted>> /\ \A t \in Tabs : poll'[t] \in {None, poll[t]}
    BY <1>3
    DEF Happens, Submit, AppendRow, AppendFails, Age, Fire, Callback, Flush,
        FlushIndividual, WriteRow, WriteFails, Restart, noticeVars, pageVars
  <2> QED
    BY <1>0, <1>3, <2>1, CursorFrame
<1> QED
  BY <1>1, <1>2, <1>3 DEF HistoryNext

\* The cursor that all pages share passes over no row that was neither toasted nor there
\* when a page without a cursor loaded, and polls that do not overlap toast no row twice,
\* whatever answers are late or dropped (poll() of the layout, Since, MaxID).
THEOREM CursorPassesNothing == HistorySpec => []CursorSound
<1>1. CursorInv => CursorSound
  BY DEF CursorInv, Passed, Alone, CursorSound
<1> QED
  BY <1>1, CursorInit, CursorStep, PTL DEF HistorySpec
=============================================================================
