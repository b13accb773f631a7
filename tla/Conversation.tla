---------------------------- MODULE Conversation ----------------------------
(***************************************************************************)
(* The local copy of one Devin conversation: the messages table of a       *)
(* session, the syncs that overwrite it, the follow-ups appended to it,    *)
(* its pins and its forks.                                                 *)
(*                                                                         *)
(*   internal/manager/manager.go     SyncSession, SendFollowUp             *)
(*   internal/manager/poller.go      the loop that syncs active sessions   *)
(*   internal/sessions/sessions.go   the messages table, Fork              *)
(*   internal/web/pr12_handlers.go   pin, unpin, fork                      *)
(*                                                                         *)
(* A sync is four statements around one call to Devin; the poller and any  *)
(* number of refresh buttons may be inside it at once.  Rotation says what *)
(* a quota answer does instead.  A cache is its rows in the order of ts:   *)
(* the timestamps of Devin are taken to be distinct and the local clock    *)
(* not to run behind them.                                                 *)
(***************************************************************************)
EXTENDS Integers, Sequences, FiniteSets

CONSTANTS
  Texts,       \* message contents
  Prompt,      \* the text the session was started with
  Forks,       \* ids of forked sessions
  Refreshes,   \* requests of the refresh button
  None,        \* no goroutine, no text
  MaxMessages, \* bound on the conversation
  MaxRequests, \* bound on the user's requests
  MaxFailures  \* bound on failed, cancelled and killed calls

ASSUME PromptAssumption == Prompt \in Texts
ASSUME BoundAssumption  == {MaxMessages, MaxRequests, MaxFailures} \subseteq Nat

Origin   == "origin"
Poller   == "poller"
Sessions == {Origin} \cup Forks
Syncs    == {Poller} \cup Refreshes

ASSUME NameAssumption == Origin \notin Forks /\ Poller \notin Refreshes

VARIABLES
  remote,  \* the messages Devin has
  inbox,   \* follow-ups Devin has acknowledged and not yet recorded
  over,    \* Devin reports the session as finished
  active,  \* the status of the origin is one that ListActive selects
  cache,   \* the messages table, per session
  forks,   \* the forks that exist
  typed,   \* the text of a SendFollowUp that is still to be cached
  noted,   \* the most replies that a notification has been written for
  job,     \* the local variables of each sync
  requests, failures \* how many there have been

remoteVars == <<remote, inbox, over>>
counts     == <<requests, failures>>
vars == <<remoteVars, active, cache, forks, typed, noted, job, counts>>

Message == [by : {"user", "devin"}, text : Texts]
Row     == [by : {"user", "devin"}, text : Texts, pinned : BOOLEAN]
Job     == [pc   : {"get", "list", "replace", "notify", "status"},
            snap : Seq(Message),
            over : BOOLEAN,
            prev : Nat]

ASSUME NoneAssumption == None \notin Texts \cup Job

TypeOK ==
  /\ remote \in Seq(Message) /\ inbox \in Seq(Texts) /\ over \in BOOLEAN
  /\ active \in BOOLEAN
  /\ cache \in [Sessions -> Seq(Row)]
  /\ forks \subseteq Forks
  /\ typed \in Texts \cup {None}
  /\ noted \in Nat
  /\ job \in [Syncs -> Job \cup {None}]
  /\ requests \in Nat /\ failures \in Nat

\* countAssistantMessages.
Replies(msgs) == Cardinality({i \in DOMAIN msgs : msgs[i].by = "devin"})

FromUser(text) == [by |-> "user", text |-> text]
Unpinned(msg)  == [by |-> msg.by, text |-> msg.text, pinned |-> FALSE]

\* StartTask has attached the Devin id and cached the prompt.
Init ==
  /\ remote = <<FromUser(Prompt)>> /\ inbox = <<>> /\ over = FALSE
  /\ active = TRUE
  /\ cache = [s \in Sessions |->
                IF s = Origin THEN <<Unpinned(FromUser(Prompt))>> ELSE <<>>]
  /\ forks = {}
  /\ typed = None
  /\ noted = 0
  /\ job = [w \in Syncs |-> None]
  /\ requests = 0 /\ failures = 0

At(w, pc) == job[w] # None /\ job[w].pc = pc

Asked == requests < MaxRequests /\ requests' = requests + 1 /\ UNCHANGED failures

-----------------------------------------------------------------------------
(* Devin.                                                                  *)

Room == Len(remote) + Len(inbox) < MaxMessages

DevinReplies(text) ==
  /\ ~over /\ Room
  /\ remote' = Append(remote, [by |-> "devin", text |-> text])
  /\ UNCHANGED <<inbox, over, active, cache, forks, typed, noted, job, counts>>

\* A follow-up wakes a session that had finished.
DevinRecords ==
  /\ inbox # <<>>
  /\ remote' = Append(remote, FromUser(Head(inbox)))
  /\ inbox' = Tail(inbox)
  /\ over' = FALSE
  /\ UNCHANGED <<active, cache, forks, typed, noted, job, counts>>

DevinFinishes ==
  /\ ~over /\ inbox = <<>>
  /\ over' = TRUE
  /\ UNCHANGED <<remote, inbox, active, cache, forks, typed, noted, job, counts>>

-----------------------------------------------------------------------------
(* SendFollowUp: Devin first, then the cache.  A fork has no Devin id, and *)
(* is refused.                                                             *)

SendFollowUp(text) ==
  /\ Asked
  /\ typed = None /\ Room
  /\ inbox' = Append(inbox, text)
  /\ typed' = text
  /\ UNCHANGED <<remote, over, active, cache, forks, noted, job>>

AppendMessage ==
  /\ typed # None
  /\ cache' = [cache EXCEPT ![Origin] = Append(@, Unpinned(FromUser(typed)))]
  /\ typed' = None
  /\ UNCHANGED <<remoteVars, active, forks, noted, job, counts>>

-----------------------------------------------------------------------------
(* SyncSession.                                                            *)

Begin(w) ==
  /\ job[w] = None
  /\ job' = [job EXCEPT ![w] = [pc |-> "get", snap |-> <<>>, over |-> FALSE, prev |-> 0]]
  /\ UNCHANGED <<remoteVars, active, cache, forks, typed, noted>>

\* Mutant: a session that Devin has finished is not asked for again.
PollUnfinished == active /\ ~over /\ Begin(Poller) /\ UNCHANGED counts

\* ListActive selects the row; a terminal status takes it off the list.
Poll == active /\ Begin(Poller) /\ UNCHANGED counts

\* The refresh button takes any session.
Refresh(w) == Asked /\ Begin(w)

GetSession(w) ==
  /\ At(w, "get")
  /\ job' = [job EXCEPT ![w] = [@ EXCEPT !.pc = "list", !.snap = remote, !.over = over]]
  /\ UNCHANGED <<remoteVars, active, cache, forks, typed, noted, counts>>

\* Mutant: what is new is judged by the new list.
PreviousNew(w) == Replies(job[w].snap)

\* Mutant: one message is not a reply.
PreviousLess(w) == Replies(cache[Origin]) - 1

\* The replies cached so far.
Previous(w) == Replies(cache[Origin])

ListMessages(w) ==
  /\ At(w, "list")
  /\ job' = [job EXCEPT ![w] = [@ EXCEPT !.pc = "replace", !.prev = Previous(w)]]
  /\ UNCHANGED <<remoteVars, active, cache, forks, typed, noted, counts>>

\* Mutant: pins are put back by position.
RepinnedByPlace(rows, msgs) ==
  [i \in DOMAIN msgs |->
     [by |-> msgs[i].by, text |-> msgs[i].text,
      pinned |-> i \in DOMAIN rows /\ rows[i].pinned]]

\* Pins are put back by content: on every message with the text of a pinned one.
Repinned(rows, msgs) ==
  [i \in DOMAIN msgs |->
     [by |-> msgs[i].by, text |-> msgs[i].text,
      pinned |-> \E j \in DOMAIN rows : rows[j].pinned /\ rows[j].text = msgs[i].text]]

Replaced(w) == Repinned(cache[Origin], job[w].snap)

\* One transaction: read the pins, truncate, insert.
ReplaceMessages(w) ==
  /\ At(w, "replace")
  /\ cache' = [cache EXCEPT ![Origin] = Replaced(w)]
  /\ job' = [job EXCEPT ![w] = [@ EXCEPT !.pc = "notify"]]
  /\ UNCHANGED <<remoteVars, active, forks, typed, noted, counts>>

HasNews(w) == Replies(job[w].snap) > job[w].prev

Larger(m, n) == IF m < n THEN n ELSE m

NotifyNewDevinMessages(w) ==
  /\ At(w, "notify")
  /\ noted' = IF HasNews(w) THEN Larger(noted, Replies(job[w].snap)) ELSE noted
  /\ job' = [job EXCEPT ![w] = [@ EXCEPT !.pc = "status"]]
  /\ UNCHANGED <<remoteVars, active, cache, forks, typed, counts>>

\* Mutant: the status is asked for again.
ClosesNow(w) == over

\* The status that came with the messages.
Closes(w) == job[w].over

\* A word that statusFromDevin does not know changes nothing.
SetStatus(w) ==
  /\ At(w, "status")
  /\ \/ active' = ~Closes(w)
     \/ ~Closes(w) /\ UNCHANGED active
  /\ job' = [job EXCEPT ![w] = None]
  /\ UNCHANGED <<remoteVars, cache, forks, typed, noted, counts>>

Step(w) ==
  \/ GetSession(w) \/ ListMessages(w) \/ ReplaceMessages(w)
  \/ NotifyNewDevinMessages(w) \/ SetStatus(w)

-----------------------------------------------------------------------------
(* Failures: Devin does not answer, or the context of a call is cancelled, *)
(* and every later statement of it fails; the process is killed.           *)

CanFail == failures < MaxFailures /\ failures' = failures + 1 /\ UNCHANGED requests

Cut(w) ==
  /\ CanFail /\ job[w] # None
  /\ job' = [job EXCEPT ![w] = None]
  /\ UNCHANGED <<remoteVars, active, cache, forks, typed, noted>>

CutFollowUp ==
  /\ CanFail /\ typed # None
  /\ typed' = None
  /\ UNCHANGED <<remoteVars, active, cache, forks, noted, job>>

Restart ==
  /\ CanFail
  /\ job' = [w \in Syncs |-> None]
  /\ typed' = None
  /\ UNCHANGED <<remoteVars, active, cache, forks, noted>>

-----------------------------------------------------------------------------
(* Pins and forks.  A page may show rows that a sync has replaced: their   *)
(* ids are gone, and pinning or forking at them changes nothing.           *)

SetPinned(s, i, pinned) ==
  /\ Asked
  /\ s = Origin \/ s \in forks
  /\ i \in DOMAIN cache[s]
  /\ cache' = [cache EXCEPT ![s][i] = [@ EXCEPT !.pinned = pinned]]
  /\ UNCHANGED <<remoteVars, active, forks, typed, noted, job>>

Pin(s, i)   == SetPinned(s, i, TRUE)
Unpin(s, i) == SetPinned(s, i, FALSE)

\* The source's list up to the anchor, or all of it, becomes the list of a session
\* that gets no Devin id.  The list is read before the transaction that inserts it;
\* nothing looks at the fork in between, so the two are one action at the read.
Fork(f, s, i) ==
  /\ Asked
  /\ f \notin forks
  /\ s = Origin \/ s \in forks
  /\ i \in 0 .. Len(cache[s])
  /\ i = 0 => cache[s] = <<>>
  /\ cache' = [cache EXCEPT ![f] = SubSeq(cache[s], 1, i)]
  /\ forks' = forks \cup {f}
  /\ UNCHANGED <<remoteVars, active, typed, noted, job>>

-----------------------------------------------------------------------------
Devin ==
  \/ \E text \in Texts : DevinReplies(text)
  \/ DevinRecords \/ DevinFinishes

User ==
  \/ \E text \in Texts : SendFollowUp(text)
  \/ \E w \in Refreshes : Refresh(w)
  \/ \E s \in Sessions : \E i \in DOMAIN cache[s] : Pin(s, i) \/ Unpin(s, i)
  \/ \E f \in Forks, s \in Sessions : \E i \in 0 .. Len(cache[s]) : Fork(f, s, i)

Failure == (\E w \in Syncs : Cut(w)) \/ CutFollowUp \/ Restart

Next ==
  \/ Devin \/ User \/ Failure
  \/ Poll \/ AppendMessage
  \/ \E w \in Syncs : Step(w)

Spec == Init /\ [][Next]_vars

\* The ticker of the poller fires, and calls that are under way return.
Fairness ==
  /\ WF_vars(Poll)
  /\ \A w \in Syncs : WF_vars(Step(w))

FairSpec == Spec /\ Fairness
=============================================================================
