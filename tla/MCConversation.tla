--------------------------- MODULE MCConversation ---------------------------
(***************************************************************************)
(* Conversation with history variables, and what a user may rely on.       *)
(***************************************************************************)
EXTENDS Conversation

VARIABLES
  lost,       \* the numbers of replies whose notification a failure has prevented
  overlapped, \* two syncs have been under way at once
  reopened    \* a follow-up was sent after Devin had finished

historyVars == <<vars, lost, overlapped, reopened>>

HistoryInit == Init /\ lost = {} /\ overlapped = FALSE /\ reopened = FALSE

Busy == {w \in Syncs : job[w] # None}

\* A sync that has written the cache and not yet said so.
Unannounced == {w \in Syncs : At(w, "notify") /\ HasNews(w)}

\* The calls that this step ends early.
Ended == {w \in Busy : job'[w] = None}

HistoryNext ==
  \/ /\ Devin \/ AppendMessage
        \/ (\E w \in Syncs : Step(w))
     /\ UNCHANGED <<lost, overlapped, reopened>>
  \/ /\ Poll \/ User
     /\ overlapped' = (overlapped \/ (Busy # {} /\ job' # job))
     /\ reopened' = (reopened \/ (over /\ inbox' # inbox))
     /\ UNCHANGED lost
  \/ /\ Failure
     /\ lost' = lost \cup {Replies(job[w].snap) : w \in Ended \cap Unannounced}
     /\ UNCHANGED <<overlapped, reopened>>

HistorySpec     == HistoryInit /\ [][HistoryNext]_historyVars
FairHistorySpec == HistorySpec /\ Fairness

\* There is, will be or would have been a notification for at least n replies.
Noticed(n) ==
  \/ n <= noted
  \/ \E m \in lost : n <= m
  \/ \E w \in Unannounced : n <= Replies(job[w].snap)

\* No reply enters the cache unannounced: whatever syncs overtake each other, the
\* replies cached are covered by a notification, by a sync that is about to write
\* one, or by one that a failure prevented.
ReplyNoticed ==
  Replies(cache[Origin]) > 0 => Noticed(Replies(cache[Origin]))

\* Once its status takes a session off the poller's list, the cache holds all of
\* Devin's replies, unless two syncs overlapped (the one with the older list may
\* write last) or the user went on with a session that had finished.
ClosedIsComplete ==
  ~active /\ Busy = {} =>
    \/ over /\ Replies(cache[Origin]) = Replies(remote)
    \/ overlapped \/ reopened

\* A re-sync keeps the user's pins: no step but an unpin takes a pin off a text that
\* the cache of the session still holds.
Holds(s, text)  == \E i \in DOMAIN cache[s] : cache[s][i].text = text
Pinned(s, text) == \E i \in DOMAIN cache[s] : cache[s][i].text = text /\ cache[s][i].pinned

PinsKept ==
  [][\/ \A s \in Sessions, text \in Texts :
          Pinned(s, text) /\ Holds(s, text)' => Pinned(s, text)'
     \/ \E s \in Sessions : \E i \in DOMAIN cache[s] : Unpin(s, i)]_cache

\* The poller brings every reply, for as long as the session is on its list.
RepliesArrive ==
  \A n \in 1 .. MaxMessages - 1 :
    (active /\ Replies(remote) >= n) ~> (~active \/ Replies(cache[Origin]) >= n)
=============================================================================
