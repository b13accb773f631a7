------------------------- MODULE ConversationProofs -------------------------
(***************************************************************************)
(* Conversation for any number of refreshes, forks and messages: types,    *)
(* the notifications of replies, the closing of a session, and pins.       *)
(***************************************************************************)
EXTENDS MCConversation, FiniteSetTheorems, SequenceTheorems, TLAPS

-----------------------------------------------------------------------------
(* Lists of messages and rows.                                             *)

LEMMA RepliesNat ==
  ASSUME NEW S, NEW s \in Seq(S)
  PROVE  Replies(s) \in Nat
<1> DEFINE D == {i \in DOMAIN s : s[i].by = "devin"}
<1>1. IsFiniteSet(1..Len(s)) /\ D \subseteq 1..Len(s)
  BY FS_Interval
<1>2. IsFiniteSet(D)
  BY <1>1, FS_Subset
<1> QED
  BY <1>2, FS_CardinalityType DEF Replies

\* The replies are counted by author alone.
LEMMA RepliesSame ==
  ASSUME NEW s, NEW t, DOMAIN t = DOMAIN s, \A i \in DOMAIN s : t[i].by = s[i].by
  PROVE  Replies(t) = Replies(s)
<1>1. {i \in DOMAIN t : t[i].by = "devin"} = {i \in DOMAIN s : s[i].by = "devin"}
  OBVIOUS
<1> QED
  BY <1>1 DEF Replies

LEMMA RepliesOfUser ==
  ASSUME NEW S, NEW s \in Seq(S), NEW x \in S, x.by = "user"
  PROVE  Replies(Append(s, x)) = Replies(s)
<1> DEFINE t == Append(s, x)
<1>1. /\ DOMAIN s = 1..Len(s) /\ DOMAIN t = 1..Len(s) + 1 /\ Len(s) \in Nat
      /\ t[Len(s) + 1] = x /\ \A i \in 1..Len(s) : t[i] = s[i]
  OBVIOUS
<1> HIDE DEF t
<1>2. \A i \in 1..Len(s) + 1 : i # Len(s) + 1 => i \in 1..Len(s)
  BY <1>1
<1>3. {i \in DOMAIN t : t[i].by = "devin"} = {i \in DOMAIN s : s[i].by = "devin"}
  BY <1>1, <1>2
<1> QED
  BY <1>3 DEF Replies, t

LEMMA ListIsSeq ==
  ASSUME NEW S, NEW n \in Nat, NEW f \in [1..n -> S]
  PROVE  f \in Seq(S) /\ Len(f) = n
  OBVIOUS

\* What a sync writes: the messages of Devin, one row each.
LEMMA RepinnedFacts ==
  ASSUME NEW rows \in Seq(Row), NEW msgs \in Seq(Message)
  PROVE  /\ Repinned(rows, msgs) \in Seq(Row)
         /\ Replies(Repinned(rows, msgs)) = Replies(msgs)
         /\ DOMAIN Repinned(rows, msgs) = DOMAIN msgs
         /\ \A i \in DOMAIN msgs :
              /\ Repinned(rows, msgs)[i].text = msgs[i].text
              /\ Repinned(rows, msgs)[i].pinned =
                   (\E j \in DOMAIN rows : rows[j].pinned /\ rows[j].text = msgs[i].text)
<1> DEFINE new == Repinned(rows, msgs)
<1>1. /\ DOMAIN new = DOMAIN msgs
      /\ \A i \in DOMAIN msgs :
           new[i] = [by |-> msgs[i].by, text |-> msgs[i].text,
                     pinned |-> \E j \in DOMAIN rows :
                                  rows[j].pinned /\ rows[j].text = msgs[i].text]
  BY DEF Repinned
<1>2. DOMAIN msgs = 1..Len(msgs) /\ Len(msgs) \in Nat /\ \A i \in DOMAIN msgs : msgs[i] \in Message
  OBVIOUS
<1>3. new = [i \in 1..Len(msgs) |-> new[i]]
  BY <1>2 DEF Repinned
<1> HIDE DEF new
<1>4. ASSUME NEW i \in DOMAIN msgs
      PROVE  /\ new[i] \in Row /\ new[i].by = msgs[i].by /\ new[i].text = msgs[i].text
             /\ new[i].pinned =
                  (\E j \in DOMAIN rows : rows[j].pinned /\ rows[j].text = msgs[i].text)
  <2> PICK pinned \in BOOLEAN :
        pinned = (\E j \in DOMAIN rows : rows[j].pinned /\ rows[j].text = msgs[i].text)
    OBVIOUS
  <2>1. new[i] = [by |-> msgs[i].by, text |-> msgs[i].text, pinned |-> pinned]
    BY <1>1
  <2>2. msgs[i] \in Message
    BY <1>2
  <2> QED
    BY <2>1, <2>2 DEF Row, Message
<1>5. new \in Seq(Row)
  BY <1>2, <1>3, <1>4, ListIsSeq
<1>6. Replies(new) = Replies(msgs)
  BY <1>1, <1>4, RepliesSame
<1> QED
  BY <1>1, <1>4, <1>5, <1>6 DEF new

-----------------------------------------------------------------------------
(* What the steps make of the jobs and of the caches.                      *)

\* The job of w has these fields, and the others are as they were.
JobIs(w, pc, snap, done, prev) ==
  /\ job' \in [Syncs -> Job \cup {None}]
  /\ job'[w] \in Job /\ job'[w] # None
  /\ job'[w].pc = pc /\ job'[w].snap = snap /\ job'[w].over = done /\ job'[w].prev = prev
  /\ \A v \in Syncs \ {w} : job'[v] = job[v]

LEMMA JobWritten ==
  ASSUME TypeOK, NEW w \in Syncs, NEW j \in Job, job' = [job EXCEPT ![w] = j],
         NEW pc, NEW snap, NEW done, NEW prev,
         j.pc = pc, j.snap = snap, j.over = done, j.prev = prev
  PROVE  JobIs(w, pc, snap, done, prev)
  BY NoneAssumption DEF JobIs, TypeOK

LEMMA JobUpdated ==
  ASSUME TypeOK, NEW w \in Syncs, job[w] # None,
         NEW pc \in {"get", "list", "replace", "notify", "status"},
         job' = [job EXCEPT ![w] = [@ EXCEPT !.pc = pc]]
  PROVE  JobIs(w, pc, job[w].snap, job[w].over, job[w].prev)
<1>1. job[w] \in Job
  BY DEF TypeOK
<1> DEFINE j == [job[w] EXCEPT !.pc = pc]
<1>2. /\ j \in Job /\ j.pc = pc
      /\ j.snap = job[w].snap /\ j.over = job[w].over /\ j.prev = job[w].prev
  BY <1>1 DEF Job
<1>3. job' = [job EXCEPT ![w] = j]
  OBVIOUS
<1> HIDE DEF j
<1> QED
  BY <1>2, <1>3, JobWritten

LEMMA BeginJob ==
  ASSUME TypeOK, NEW w \in Syncs, Begin(w)
  PROVE  JobIs(w, "get", <<>>, FALSE, 0) /\ job[w] = None
<1> DEFINE j == [pc |-> "get", snap |-> <<>>, over |-> FALSE, prev |-> 0]
<1>1. /\ j \in Job /\ j.pc = "get" /\ j.snap = <<>> /\ j.over = FALSE /\ j.prev = 0
  BY DEF Job
<1>2. job' = [job EXCEPT ![w] = j] /\ job[w] = None
  BY DEF Begin
<1> HIDE DEF j
<1> QED
  BY <1>1, <1>2, JobWritten

LEMMA GetJob ==
  ASSUME TypeOK, NEW w \in Syncs, GetSession(w)
  PROVE  JobIs(w, "list", remote, over, job[w].prev)
<1>1. job[w] \in Job /\ remote \in Seq(Message) /\ over \in BOOLEAN
  BY DEF TypeOK, GetSession, At
<1> DEFINE j == [job[w] EXCEPT !.pc = "list", !.snap = remote, !.over = over]
<1>2. /\ j \in Job /\ j.pc = "list"
      /\ j.snap = remote /\ j.over = over /\ j.prev = job[w].prev
  BY <1>1 DEF Job
<1>3. job' = [job EXCEPT ![w] = j]
  BY DEF GetSession
<1> HIDE DEF j
<1> QED
  BY <1>2, <1>3, JobWritten

LEMMA ListJob ==
  ASSUME TypeOK, NEW w \in Syncs, ListMessages(w)
  PROVE  JobIs(w, "replace", job[w].snap, job[w].over, Replies(cache[Origin]))
<1>1. job[w] \in Job /\ cache[Origin] \in Seq(Row)
  BY DEF TypeOK, ListMessages, At, Sessions
<1>2. PICK n \in Nat : n = Replies(cache[Origin])
  BY <1>1, RepliesNat
<1> DEFINE j == [job[w] EXCEPT !.pc = "replace", !.prev = n]
<1>3. /\ j \in Job /\ j.pc = "replace"
      /\ j.snap = job[w].snap /\ j.over = job[w].over /\ j.prev = n
  BY <1>1 DEF Job
<1>4. job' = [job EXCEPT ![w] = j]
  BY <1>2 DEF ListMessages, Previous
<1> HIDE DEF j
<1> QED
  BY <1>2, <1>3, <1>4, JobWritten

LEMMA ReplaceJob ==
  ASSUME TypeOK, NEW w \in Syncs, ReplaceMessages(w)
  PROVE  JobIs(w, "notify", job[w].snap, job[w].over, job[w].prev)
  BY JobUpdated DEF ReplaceMessages, At

LEMMA NotifyJob ==
  ASSUME TypeOK, NEW w \in Syncs, NotifyNewDevinMessages(w)
  PROVE  JobIs(w, "status", job[w].snap, job[w].over, job[w].prev)
  BY JobUpdated DEF NotifyNewDevinMessages, At

\* Only s among the caches changes, and it becomes the list t.
CacheIs(s, t) ==
  /\ cache' \in [Sessions -> Seq(Row)]
  /\ cache'[s] = t
  /\ \A u \in Sessions \ {s} : cache'[u] = cache[u]

LEMMA CacheWritten ==
  ASSUME TypeOK, NEW s \in Sessions, NEW t \in Seq(Row), cache' = [cache EXCEPT ![s] = t]
  PROVE  CacheIs(s, t)
  BY DEF TypeOK, CacheIs

LEMMA AppendCache ==
  ASSUME TypeOK, AppendMessage
  PROVE  /\ CacheIs(Origin, Append(cache[Origin], Unpinned(FromUser(typed))))
         /\ Unpinned(FromUser(typed)) \in Row /\ Unpinned(FromUser(typed)).by = "user"
<1>1. Unpinned(FromUser(typed)) \in Row /\ Unpinned(FromUser(typed)).by = "user"
  BY DEF TypeOK, AppendMessage, Unpinned, FromUser, Row
<1>2. Origin \in Sessions /\ cache[Origin] \in Seq(Row)
  BY DEF TypeOK, Sessions
<1>3. PICK x \in Row : x = Unpinned(FromUser(typed))
  BY <1>1
<1>4. Append(cache[Origin], x) \in Seq(Row)
  BY <1>2
<1> QED
  BY <1>1, <1>2, <1>3, <1>4, CacheWritten DEF AppendMessage

LEMMA ReplaceCache ==
  ASSUME TypeOK, NEW w \in Syncs, ReplaceMessages(w)
  PROVE  /\ CacheIs(Origin, Repinned(cache[Origin], job[w].snap))
         /\ cache[Origin] \in Seq(Row) /\ job[w].snap \in Seq(Message)
<1>1. job[w] \in Job /\ Origin \in Sessions /\ cache[Origin] \in Seq(Row)
  BY DEF TypeOK, ReplaceMessages, At, Sessions
<1>2. job[w].snap \in Seq(Message)
  BY <1>1 DEF Job
<1> QED
  BY <1>1, <1>2, RepinnedFacts, CacheWritten DEF ReplaceMessages, Replaced

LEMMA ReplacedReplies ==
  ASSUME TypeOK, NEW w \in Syncs, ReplaceMessages(w)
  PROVE  Replies(cache'[Origin]) = Replies(job[w].snap)
<1>1. /\ cache'[Origin] = Repinned(cache[Origin], job[w].snap)
      /\ cache[Origin] \in Seq(Row) /\ job[w].snap \in Seq(Message)
  BY ReplaceCache DEF CacheIs
<1>2. Replies(Repinned(cache[Origin], job[w].snap)) = Replies(job[w].snap)
  BY <1>1, RepinnedFacts
<1> QED
  BY <1>1, <1>2

\* A pin or an unpin: only the mark of one row changes.
LEMMA PinCache ==
  ASSUME TypeOK, NEW s \in Sessions, NEW i \in DOMAIN cache[s], NEW pinned \in BOOLEAN,
         SetPinned(s, i, pinned)
  PROVE  \E t \in Seq(Row) :
           /\ CacheIs(s, t)
           /\ DOMAIN t = DOMAIN cache[s]
           /\ \A k \in DOMAIN t : /\ t[k].by = cache[s][k].by
                                  /\ t[k].text = cache[s][k].text
                                  /\ t[k].pinned = IF k = i THEN pinned
                                                            ELSE cache[s][k].pinned
<1>1. cache[s] \in Seq(Row) /\ cache[s][i] \in Row
  BY DEF TypeOK
<1> DEFINE x == [cache[s][i] EXCEPT !.pinned = pinned]
           t == [cache[s] EXCEPT ![i] = x]
<1>2. x \in Row /\ x.by = cache[s][i].by /\ x.text = cache[s][i].text /\ x.pinned = pinned
  BY <1>1 DEF Row
<1>3. cache' = [cache EXCEPT ![s] = t]
  BY DEF SetPinned
<1> HIDE DEF x
<1>4. /\ t \in Seq(Row) /\ DOMAIN t = DOMAIN cache[s]
      /\ \A k \in DOMAIN t : t[k] = IF k = i THEN x ELSE cache[s][k]
  BY <1>1, <1>2
<1> HIDE DEF t
<1>5. CacheIs(s, t)
  BY <1>3, <1>4, CacheWritten
<1> QED
  BY <1>2, <1>4, <1>5

LEMMA ForkCache ==
  ASSUME TypeOK, NEW f \in Forks, NEW s \in Sessions, NEW i \in 0 .. Len(cache[s]), Fork(f, s, i)
  PROVE  \E t \in Seq(Row) : CacheIs(f, t)
<1>1. cache[s] \in Seq(Row) /\ f \in Sessions
  BY DEF TypeOK, Sessions
<1>2. SubSeq(cache[s], 1, i) \in Seq(Row)
  BY <1>1
<1> QED
  BY <1>1, <1>2, CacheWritten DEF Fork

-----------------------------------------------------------------------------
(* Types, and the caches of forks that do not exist yet.                   *)

CacheInv == TypeOK /\ \A f \in Forks \ forks : cache[f] = <<>>

LEMMA CacheInit == Init => CacheInv
<1> SUFFICES ASSUME Init PROVE CacheInv
  OBVIOUS
<1>1. FromUser(Prompt) \in Message /\ Unpinned(FromUser(Prompt)) \in Row
  BY PromptAssumption DEF FromUser, Unpinned, Message, Row
<1>2. <<FromUser(Prompt)>> \in Seq(Message) /\ <<Unpinned(FromUser(Prompt))>> \in Seq(Row)
  BY <1>1
<1>3. cache \in [Sessions -> Seq(Row)]
  BY <1>2 DEF Init
<1>4. \A f \in Forks : cache[f] = <<>>
  BY NameAssumption DEF Init, Sessions
<1>5. TypeOK
  <2>1. remote \in Seq(Message) /\ inbox \in Seq(Texts)
    BY <1>2 DEF Init
  <2> QED
    BY <1>3, <2>1 DEF Init, TypeOK
<1> QED
  BY <1>4, <1>5 DEF CacheInv

LEMMA CacheStep == CacheInv /\ [Next]_vars => CacheInv'
<1> SUFFICES ASSUME CacheInv, [Next]_vars PROVE CacheInv'
  OBVIOUS
<1>0. TypeOK /\ \A f \in Forks \ forks : cache[f] = <<>>
  BY DEF CacheInv
<1>1. CASE Devin
  <2>1. CASE \E text \in Texts : DevinReplies(text)
    BY <1>0, <2>1 DEF DevinReplies, CacheInv, TypeOK, Message, counts
  <2>2. CASE DevinRecords
    <3>1. Head(inbox) \in Texts /\ Tail(inbox) \in Seq(Texts)
      BY <1>0, <2>2 DEF DevinRecords, TypeOK
    <3>2. PICK x \in Message : x = FromUser(Head(inbox))
      BY <3>1 DEF FromUser, Message
    <3>3. remote' \in Seq(Message)
      BY <1>0, <2>2, <3>2 DEF DevinRecords, TypeOK
    <3> QED
      BY <1>0, <2>2, <3>1, <3>3 DEF DevinRecords, CacheInv, TypeOK, counts
  <2>3. CASE DevinFinishes
    BY <1>0, <2>3 DEF DevinFinishes, CacheInv, TypeOK, counts
  <2> QED
    BY <1>1, <2>1, <2>2, <2>3 DEF Devin
<1>2. ASSUME NEW text \in Texts, SendFollowUp(text) PROVE CacheInv'
  BY <1>0, <1>2 DEF SendFollowUp, Asked, CacheInv, TypeOK
<1>3. CASE Poll
  <2>1. job' \in [Syncs -> Job \cup {None}]
    BY <1>0, <1>3, BeginJob DEF Poll, Syncs, JobIs
  <2> QED
    BY <1>0, <1>3, <2>1 DEF Poll, Begin, CacheInv, TypeOK, remoteVars, counts
<1>4. ASSUME NEW w \in Refreshes, Refresh(w) PROVE CacheInv'
  <2>1. job' \in [Syncs -> Job \cup {None}]
    BY <1>0, <1>4, BeginJob DEF Refresh, Syncs, JobIs
  <2> QED
    BY <1>0, <1>4, <2>1 DEF Refresh, Begin, Asked, CacheInv, TypeOK, remoteVars
<1>5. ASSUME NEW s \in Sessions, NEW i \in DOMAIN cache[s], NEW pinned \in BOOLEAN,
             SetPinned(s, i, pinned)
      PROVE  CacheInv'
  <2>1. PICK t \in Seq(Row) : CacheIs(s, t)
    BY <1>0, <1>5, PinCache
  <2>2. s \notin Forks \ forks
    BY <1>5, NameAssumption DEF SetPinned
  <2> QED
    BY <1>0, <1>5, <2>1, <2>2 DEF SetPinned, Asked, CacheInv, TypeOK, CacheIs, remoteVars, Sessions
<1>6. ASSUME NEW f \in Forks, NEW s \in Sessions, NEW i \in 0 .. Len(cache[s]), Fork(f, s, i)
      PROVE  CacheInv'
  <2>1. PICK t \in Seq(Row) : CacheIs(f, t)
    BY <1>0, <1>6, ForkCache
  <2> QED
    BY <1>0, <1>6, <2>1 DEF Fork, Asked, CacheInv, TypeOK, CacheIs, remoteVars, Sessions
<1>7. CASE AppendMessage
  <2>1. CacheIs(Origin, Append(cache[Origin], Unpinned(FromUser(typed))))
    BY <1>0, <1>7, AppendCache
  <2> QED
    BY <1>0, <1>7, <2>1, NameAssumption
    DEF AppendMessage, CacheInv, TypeOK, CacheIs, remoteVars, counts, Sessions
<1>8. ASSUME NEW w \in Syncs, GetSession(w) PROVE CacheInv'
  BY <1>0, <1>8, GetJob DEF GetSession, CacheInv, TypeOK, JobIs, remoteVars, counts
<1>9. ASSUME NEW w \in Syncs, ListMessages(w) PROVE CacheInv'
  BY <1>0, <1>9, ListJob DEF ListMessages, CacheInv, TypeOK, JobIs, remoteVars, counts
<1>10. ASSUME NEW w \in Syncs, ReplaceMessages(w) PROVE CacheInv'
  <2>1. CacheIs(Origin, Repinned(cache[Origin], job[w].snap)) /\ Origin \notin Forks
    BY <1>0, <1>10, ReplaceCache, NameAssumption
  <2>2. job' \in [Syncs -> Job \cup {None}]
    BY <1>0, <1>10, ReplaceJob DEF JobIs
  <2> QED
    BY <1>0, <1>10, <2>1, <2>2
    DEF ReplaceMessages, CacheInv, TypeOK, CacheIs, remoteVars, counts, Sessions
<1>11. ASSUME NEW w \in Syncs, NotifyNewDevinMessages(w) PROVE CacheInv'
  <2>1. job[w] \in Job
    BY <1>0, <1>11 DEF NotifyNewDevinMessages, At, TypeOK
  <2>2. Replies(job[w].snap) \in Nat
    BY <2>1, RepliesNat DEF Job
  <2>3. noted' \in Nat
    BY <1>0, <1>11, <2>2 DEF NotifyNewDevinMessages, Larger, TypeOK
  <2>4. job' \in [Syncs -> Job \cup {None}]
    BY <1>0, <1>11, NotifyJob DEF JobIs
  <2> QED
    BY <1>0, <1>11, <2>3, <2>4
    DEF NotifyNewDevinMessages, CacheInv, TypeOK, remoteVars, counts
<1>12. ASSUME NEW w \in Syncs, SetStatus(w) PROVE CacheInv'
  <2>1. job[w] \in Job /\ job' \in [Syncs -> Job \cup {None}]
    BY <1>0, <1>12 DEF SetStatus, At, TypeOK
  <2>2. active' \in BOOLEAN
    BY <1>0, <1>12, <2>1 DEF SetStatus, Closes, TypeOK, Job
  <2> QED
    BY <1>0, <1>12, <2>1, <2>2 DEF SetStatus, CacheInv, TypeOK, remoteVars, counts
<1>13. CASE Failure
  BY <1>0, <1>13
  DEF Failure, Cut, CutFollowUp, Restart, CanFail, CacheInv, TypeOK, remoteVars
<1>14. CASE UNCHANGED vars
  BY <1>0, <1>14 DEF vars, CacheInv, TypeOK, remoteVars, counts
<1> QED
  BY <1>1, <1>2, <1>3, <1>4, <1>5, <1>6, <1>7, <1>8, <1>9, <1>10, <1>11, <1>12, <1>13, <1>14
  DEF Next, User, Step, Pin, Unpin

\* Every reachable state of a conversation is well typed.
THEOREM ConversationTypeCorrect == Spec => []TypeOK
<1>1. CacheInv => TypeOK
  BY DEF CacheInv
<1> QED
  BY <1>1, CacheInit, CacheStep, PTL DEF Spec

-----------------------------------------------------------------------------
(* Pins.                                                                   *)

PinStays(s, text) == Pinned(s, text) /\ Holds(s, text)' => Pinned(s, text)'

LEMMA PinsStay ==
  ASSUME CacheInv, [Next]_vars
  PROVE  \/ \A s \in Sessions, text \in Texts : PinStays(s, text)
         \/ \E s \in Sessions : \E i \in DOMAIN cache[s] : Unpin(s, i)
<1>0. TypeOK /\ \A f \in Forks \ forks : cache[f] = <<>>
  BY DEF CacheInv
<1> USE DEF PinStays
<1>1. ASSUME NEW s \in Sessions, cache'[s] = cache[s], NEW text
      PROVE  PinStays(s, text)
  BY <1>1 DEF Pinned, Holds
<1>2. CASE cache' = cache
  BY <1>1, <1>2
<1>3. CASE AppendMessage
  <2>1. CacheIs(Origin, Append(cache[Origin], Unpinned(FromUser(typed))))
    BY <1>0, <1>3, AppendCache
  <2>2. PICK x \in Row : x = Unpinned(FromUser(typed))
    BY <1>0, <1>3, AppendCache
  <2>3. cache[Origin] \in Seq(Row) /\ cache'[Origin] = Append(cache[Origin], x)
    BY <1>0, <2>1, <2>2 DEF TypeOK, Sessions, CacheIs
  <2>4. \A i \in DOMAIN cache[Origin] :
          i \in DOMAIN cache'[Origin] /\ cache'[Origin][i] = cache[Origin][i]
    BY <2>3
  <2>5. ASSUME NEW text PROVE PinStays(Origin, text)
    BY <2>4 DEF Pinned
  <2> QED
    BY <1>1, <2>1, <2>5 DEF CacheIs
<1>4. ASSUME NEW w \in Syncs, ReplaceMessages(w), NEW s \in Sessions, NEW text \in Texts
      PROVE  PinStays(s, text)
  <2>1. /\ CacheIs(Origin, Repinned(cache[Origin], job[w].snap))
        /\ cache[Origin] \in Seq(Row) /\ job[w].snap \in Seq(Message)
    BY <1>0, <1>4, ReplaceCache
  <2>2. CASE s # Origin
    BY <1>1, <2>1, <2>2 DEF CacheIs
  <2>3. CASE s = Origin
    <3> SUFFICES ASSUME Pinned(Origin, text), Holds(Origin, text)' PROVE Pinned(Origin, text)'
      BY <2>3
    <3>1. PICK i \in DOMAIN cache'[Origin] : cache'[Origin][i].text = text
      BY DEF Holds
    <3> DEFINE new == Repinned(cache[Origin], job[w].snap)
    <3>a. /\ DOMAIN new = DOMAIN job[w].snap
          /\ \A k \in DOMAIN job[w].snap :
               /\ new[k].text = job[w].snap[k].text
               /\ new[k].pinned =
                    (\E j \in DOMAIN cache[Origin] :
                       cache[Origin][j].pinned /\ cache[Origin][j].text = job[w].snap[k].text)
      BY <2>1, RepinnedFacts
    <3>b. cache'[Origin] = new
      BY <2>1 DEF CacheIs
    <3> HIDE DEF new
    <3>2. /\ i \in DOMAIN job[w].snap /\ job[w].snap[i].text = text
          /\ cache'[Origin][i].pinned =
               (\E j \in DOMAIN cache[Origin] :
                  cache[Origin][j].pinned /\ cache[Origin][j].text = job[w].snap[i].text)
      BY <3>1, <3>a, <3>b
    <3>3. \E j \in DOMAIN cache[Origin] :
            cache[Origin][j].pinned /\ cache[Origin][j].text = job[w].snap[i].text
      BY <3>2 DEF Pinned
    <3>4. cache'[Origin][i].pinned
      BY <3>2, <3>3
    <3> QED
      BY <3>1, <3>4 DEF Pinned
  <2> QED
    BY <2>2, <2>3
<1>5. ASSUME NEW s \in Sessions, NEW i \in DOMAIN cache[s], Pin(s, i),
             NEW u \in Sessions, NEW text \in Texts
      PROVE  PinStays(u, text)
  <2>1. PICK t \in Seq(Row) :
           /\ CacheIs(s, t)
           /\ DOMAIN t = DOMAIN cache[s]
           /\ \A k \in DOMAIN t : /\ t[k].by = cache[s][k].by
                                  /\ t[k].text = cache[s][k].text
                                  /\ t[k].pinned = IF k = i THEN TRUE
                                                            ELSE cache[s][k].pinned
    BY <1>0, <1>5, PinCache DEF Pin
  <2>2. CASE u # s
    BY <1>1, <2>1, <2>2 DEF CacheIs
  <2>3. CASE u = s
    BY <2>1, <2>3 DEF CacheIs, Pinned
  <2> QED
    BY <2>2, <2>3
<1>6. ASSUME NEW f \in Forks, NEW s \in Sessions, NEW i \in 0 .. Len(cache[s]), Fork(f, s, i),
             NEW u \in Sessions, NEW text \in Texts
      PROVE  PinStays(u, text)
  <2>1. PICK t \in Seq(Row) : CacheIs(f, t)
    BY <1>0, <1>6, ForkCache
  <2>2. CASE u # f
    BY <1>1, <2>1, <2>2 DEF CacheIs
  <2>3. CASE u = f
    <3>1. cache[u] = <<>>
      BY <1>0, <1>6, <2>3 DEF Fork
    <3>2. ~Pinned(u, text)
      BY <3>1 DEF Pinned
    <3> QED
      BY <3>2
  <2> QED
    BY <2>2, <2>3
<1> QED
  BY <1>2, <1>3, <1>4, <1>5, <1>6
  DEF Next, Devin, DevinReplies, DevinRecords, DevinFinishes, User, SendFollowUp, Refresh,
      Begin, Poll, Step, GetSession, ListMessages, NotifyNewDevinMessages, SetStatus,
      Failure, Cut, CutFollowUp, Restart, vars

LEMMA HistoryIsStep == [HistoryNext]_historyVars => [Next]_vars
  BY DEF HistoryNext, historyVars, Next

\* A re-sync, a fork, a follow-up or a crash takes no pin off a text that the session
\* still holds (ReplaceMessages puts pins back by content): only an unpin does.
THEOREM PinsAreKept == HistorySpec => PinsKept
<1>1. HistoryInit => CacheInv
  BY CacheInit DEF HistoryInit
<1>2. CacheInv /\ [HistoryNext]_historyVars => CacheInv'
  BY CacheStep, HistoryIsStep
<1>3. CacheInv /\ [HistoryNext]_historyVars =>
        [\/ \A s \in Sessions, text \in Texts :
              Pinned(s, text) /\ Holds(s, text)' => Pinned(s, text)'
         \/ \E s \in Sessions : \E i \in DOMAIN cache[s] : Unpin(s, i)]_cache
  BY PinsStay, HistoryIsStep DEF PinStays
<1> QED
  BY <1>1, <1>2, <1>3, PTL DEF HistorySpec, PinsKept

-----------------------------------------------------------------------------
(* One step seen from the replies in the cache, and from one job.          *)

LEMMA OriginReplies ==
  ASSUME CacheInv, Next, \A w \in Syncs : ~ReplaceMessages(w)
  PROVE  Replies(cache'[Origin]) = Replies(cache[Origin])
<1>0. TypeOK /\ Origin \in Sessions /\ Origin \notin Forks /\ cache[Origin] \in Seq(Row)
  BY NameAssumption DEF CacheInv, Sessions, TypeOK
<1>1. CASE cache'[Origin] = cache[Origin]
  BY <1>1
<1>2. CASE AppendMessage
  <2>1. PICK x \in Row : x.by = "user" /\ cache'[Origin] = Append(cache[Origin], x)
    BY <1>0, <1>2, AppendCache DEF CacheIs
  <2> QED
    BY <1>0, <2>1, RepliesOfUser
<1>3. ASSUME NEW s \in Sessions, NEW i \in DOMAIN cache[s], NEW pinned \in BOOLEAN,
             SetPinned(s, i, pinned)
      PROVE  Replies(cache'[Origin]) = Replies(cache[Origin])
  <2>1. PICK t \in Seq(Row) : /\ CacheIs(s, t) /\ DOMAIN t = DOMAIN cache[s]
                              /\ \A k \in DOMAIN t : t[k].by = cache[s][k].by
    BY <1>0, <1>3, PinCache
  <2>2. Replies(t) = Replies(cache[s])
    BY <2>1, RepliesSame
  <2> QED
    BY <1>0, <2>1, <2>2 DEF CacheIs
<1>4. ASSUME NEW f \in Forks, NEW s \in Sessions, NEW i \in 0 .. Len(cache[s]), Fork(f, s, i)
      PROVE  cache'[Origin] = cache[Origin]
  <2>1. PICK t \in Seq(Row) : CacheIs(f, t)
    BY <1>0, <1>4, ForkCache
  <2> QED
    BY <1>0, <2>1 DEF CacheIs
<1> QED
  BY <1>1, <1>2, <1>3, <1>4
  DEF Next, Devin, DevinReplies, DevinRecords, DevinFinishes, User, SendFollowUp, Refresh,
      Begin, Poll, Step, GetSession, ListMessages, NotifyNewDevinMessages, SetStatus,
      Failure, Cut, CutFollowUp, Restart, Pin, Unpin

LEMMA JobsElsewhere ==
  ASSUME TypeOK, NEW w \in Syncs, NEW v \in Syncs, v # w, Step(v) \/ Begin(v) \/ Cut(v)
  PROVE  job'[w] = job[w]
  BY DEF TypeOK, Step, GetSession, ListMessages, ReplaceMessages, NotifyNewDevinMessages,
         SetStatus, Begin, Cut

LEMMA JobMoves ==
  ASSUME TypeOK, NEW w \in Syncs
  PROVE  /\ Devin \/ AppendMessage \/ (\E v \in Syncs : Step(v)) =>
              job'[w] = job[w] \/ Step(w)
         /\ Poll \/ User => job'[w] = job[w] \/ Begin(w)
         /\ Failure => job'[w] = job[w] \/ job'[w] = None
<1>1. Devin \/ AppendMessage \/ (\E v \in Syncs : Step(v)) => job'[w] = job[w] \/ Step(w)
  BY JobsElsewhere DEF Devin, DevinReplies, DevinRecords, DevinFinishes, AppendMessage
<1>2. Poll \/ User => job'[w] = job[w] \/ Begin(w)
  BY JobsElsewhere
  DEF Poll, User, SendFollowUp, Refresh, Pin, Unpin, SetPinned, Fork, Syncs
<1>3. Failure => job'[w] = job[w] \/ job'[w] = None
  BY DEF Failure, Cut, CutFollowUp, Restart, TypeOK
<1> QED
  BY <1>1, <1>2, <1>3

\* The stage a step of w leads to.
LEMMA StageReached ==
  ASSUME TypeOK, NEW w \in Syncs
  PROVE  /\ GetSession(w) => job'[w].pc = "list"
         /\ ListMessages(w) => job'[w].pc = "replace"
         /\ ReplaceMessages(w) => job'[w].pc = "notify"
         /\ NotifyNewDevinMessages(w) => job'[w].pc = "status"
         /\ Begin(w) => job'[w].pc = "get"
         /\ SetStatus(w) => job'[w] = None
<1>1. SetStatus(w) => job'[w] = None
  BY DEF SetStatus, TypeOK
<1> QED
  BY <1>1, GetJob, ListJob, ReplaceJob, NotifyJob, BeginJob DEF JobIs

-----------------------------------------------------------------------------
(* Notifications.  What a sync will compare the new list with was itself   *)
(* announced: replies that another sync has cached before are covered.     *)

Told(n) == n > 0 => Noticed(n)

NoticeInv ==
  /\ CacheInv
  /\ lost \subseteq Nat
  /\ \A n \in Nat : n = Replies(cache[Origin]) => Told(n)
  /\ \A w \in Syncs : At(w, "replace") => \A n \in Nat : n = job[w].prev => Told(n)

LEMMA NoticedKept ==
  ASSUME CacheInv, lost \subseteq Nat, HistoryNext, NEW n \in Nat, Noticed(n)
  PROVE  Noticed(n)'
<1>0. TypeOK
  BY DEF CacheInv
<1>1. Next
  BY DEF HistoryNext, Next
<1>2. CASE n <= noted
  <2>1. ASSUME NEW w \in Syncs, NotifyNewDevinMessages(w) PROVE n <= noted'
    <3>1. job[w] \in Job
      BY <1>0, <2>1 DEF NotifyNewDevinMessages, At, TypeOK
    <3>2. Replies(job[w].snap) \in Nat /\ noted \in Nat
      BY <1>0, <3>1, RepliesNat DEF Job, TypeOK
    <3> QED
      BY <1>2, <2>1, <3>2 DEF NotifyNewDevinMessages, Larger
  <2>2. n <= noted'
    BY <1>1, <1>2, <2>1
    DEF Next, Devin, DevinReplies, DevinRecords, DevinFinishes, User, SendFollowUp, Refresh,
        Begin, Poll, Step, GetSession, ListMessages, ReplaceMessages, SetStatus, Failure,
        Cut, CutFollowUp, Restart, Pin, Unpin, SetPinned, Fork, AppendMessage
  <2> QED
    BY <2>2 DEF Noticed
<1>3. CASE \E m \in lost : n <= m
  BY <1>3 DEF HistoryNext, Noticed
<1>4. ASSUME NEW w \in Unannounced, n <= Replies(job[w].snap) PROVE Noticed(n)'
  <2>1. /\ w \in Syncs /\ job[w] # None /\ job[w].pc = "notify" /\ HasNews(w)
        /\ job[w] \in Job
    BY <1>0 DEF Unannounced, At, TypeOK
  <2>2. CASE job'[w] = job[w]
    <3>1. w \in Unannounced'
      BY <2>1, <2>2 DEF Unannounced, At, HasNews
    <3>2. n <= Replies(job'[w].snap)
      BY <1>4, <2>2
    <3> QED
      BY <3>1, <3>2 DEF Noticed
  <2>3. CASE NotifyNewDevinMessages(w)
    <3>1. Replies(job[w].snap) \in Nat /\ noted \in Nat
      BY <1>0, <2>1, RepliesNat DEF Job, TypeOK
    <3>2. n <= noted'
      BY <1>4, <2>1, <2>3, <3>1 DEF NotifyNewDevinMessages, Larger
    <3> QED
      BY <3>2 DEF Noticed
  <2>4. CASE /\ job'[w] = None
             /\ lost' = lost \cup {Replies(job[v].snap) : v \in Ended \cap Unannounced}
    <3>1. w \in Ended
      BY <2>1, <2>4 DEF Ended, Busy
    <3>2. Replies(job[w].snap) \in lost'
      BY <2>4, <3>1
    <3> QED
      BY <1>4, <3>2 DEF Noticed
  <2>5. ~Begin(w) /\ (Step(w) => NotifyNewDevinMessages(w))
    BY <2>1 DEF Begin, Step, GetSession, ListMessages, ReplaceMessages, SetStatus, At
  <2> QED
    BY <1>0, <2>1, <2>2, <2>3, <2>4, <2>5, JobMoves DEF HistoryNext
<1> QED
  BY <1>2, <1>3, <1>4 DEF Noticed

LEMMA NoticeStep == NoticeInv /\ [HistoryNext]_historyVars => NoticeInv'
<1> SUFFICES ASSUME NoticeInv, [HistoryNext]_historyVars PROVE NoticeInv'
  OBVIOUS
<1>0. CacheInv /\ CacheInv' /\ TypeOK /\ TypeOK' /\ Origin \in Sessions
  BY CacheStep, HistoryIsStep DEF NoticeInv, CacheInv, Sessions
<1>1. CASE UNCHANGED historyVars
  <2>1. ASSUME NEW n, Noticed(n) PROVE Noticed(n)'
    BY <1>1, <2>1 DEF Noticed, Unannounced, At, HasNews, historyVars, vars
  <2> QED
    BY <1>0, <1>1, <2>1 DEF NoticeInv, Told, At, historyVars, vars
<1>2. CASE HistoryNext
  <2>0. Next
    BY <1>2 DEF HistoryNext, Next
  <2>1. lost' \subseteq Nat
    <3>1. ASSUME NEW w \in Unannounced PROVE Replies(job[w].snap) \in Nat
      <4>1. job[w] \in Job
        BY <1>0 DEF Unannounced, At, TypeOK
      <4> QED
        BY <4>1, RepliesNat DEF Job
    <3> QED
      BY <1>2, <3>1 DEF HistoryNext, NoticeInv
  <2>2. ASSUME NEW n \in Nat, Told(n) PROVE Told(n)'
    BY <1>0, <1>2, <2>2, NoticedKept DEF Told, NoticeInv
  <2>3. ASSUME NEW n \in Nat, n = Replies(cache'[Origin]) PROVE Told(n)'
    <3>1. CASE \A w \in Syncs : ~ReplaceMessages(w)
      <4>1. n = Replies(cache[Origin])
        BY <1>0, <2>0, <2>3, <3>1, OriginReplies
      <4> QED
        BY <2>2, <4>1 DEF NoticeInv
    <3>2. ASSUME NEW w \in Syncs, ReplaceMessages(w) PROVE Told(n)'
      <4>1. job[w] \in Job /\ At(w, "replace")
        BY <1>0, <3>2 DEF ReplaceMessages, At, TypeOK
      <4>2. n = Replies(job[w].snap)
        BY <1>0, <2>3, <3>2, ReplacedReplies
      <4>3. PICK p \in Nat : p = job[w].prev
        BY <4>1 DEF Job
      <4>4. Told(p)'
        BY <2>2, <4>1, <4>3 DEF NoticeInv
      <4>5. CASE n > p
        <5>1. /\ job'[w] # None /\ job'[w].pc = "notify"
              /\ job'[w].snap = job[w].snap /\ job'[w].prev = p
          BY <1>0, <3>2, <4>3, ReplaceJob DEF JobIs
        <5>2. w \in Unannounced' /\ n <= Replies(job'[w].snap)
          BY <4>2, <4>5, <5>1 DEF Unannounced, At, HasNews
        <5> QED
          BY <5>2 DEF Told, Noticed
      <4>6. CASE n <= p
        <5> SUFFICES ASSUME n > 0 PROVE Noticed(n)'
          BY DEF Told
        <5>1. Noticed(p)' /\ noted' \in Nat
          BY <1>0, <4>4, <4>6 DEF Told, TypeOK
        <5>2. ASSUME NEW v \in Unannounced', p <= Replies(job'[v].snap)
              PROVE  n <= Replies(job'[v].snap)
          <6>1. job'[v] \in Job
            BY <1>0 DEF Unannounced, At, TypeOK
          <6>2. Replies(job'[v].snap) \in Nat
            BY <6>1, RepliesNat DEF Job
          <6> QED
            BY <4>6, <5>2, <6>2
        <5>3. ASSUME NEW m \in lost', p <= m PROVE n <= m
          BY <2>1, <4>6, <5>3
        <5> QED
          BY <4>6, <5>1, <5>2, <5>3 DEF Noticed
      <4> QED
        BY <4>3, <4>5, <4>6
    <3> QED
      BY <3>1, <3>2
  <2>4. ASSUME NEW w \in Syncs, At(w, "replace")', NEW n \in Nat, n = job'[w].prev
        PROVE  Told(n)'
    <3>1. job'[w] # None /\ job'[w].pc = "replace"
      BY <2>4 DEF At
    <3>2. CASE job'[w] = job[w]
      BY <2>2, <2>4, <3>1, <3>2 DEF NoticeInv, At
    <3>3. CASE ListMessages(w)
      <4>1. n = Replies(cache[Origin])
        BY <1>0, <2>4, <3>3, ListJob DEF JobIs
      <4> QED
        BY <2>2, <4>1 DEF NoticeInv
    <3>4. Step(w) => ListMessages(w)
      BY <1>0, <3>1, StageReached DEF Step
    <3>5. ~Begin(w)
      BY <1>0, <3>1, StageReached
    <3> QED
      BY <1>0, <1>2, <3>1, <3>2, <3>3, <3>4, <3>5, JobMoves DEF HistoryNext
  <2> QED
    BY <1>0, <2>1, <2>3, <2>4 DEF NoticeInv
<1> QED
  BY <1>1, <1>2

LEMMA PromptOnly == Init => Replies(cache[Origin]) = 0
<1> SUFFICES ASSUME Init PROVE Replies(cache[Origin]) = 0
  OBVIOUS
<1>1. cache[Origin] = <<Unpinned(FromUser(Prompt))>>
  BY DEF Init, Sessions
<1>0. Unpinned(FromUser(Prompt)) \in Row /\ Unpinned(FromUser(Prompt)).by = "user"
  BY PromptAssumption DEF Unpinned, FromUser, Row
<1>2. PICK x \in Row : x = Unpinned(FromUser(Prompt)) /\ x.by = "user"
  BY <1>0
<1>3. {i \in DOMAIN <<x>> : <<x>>[i].by = "devin"} = {}
  BY <1>2
<1> QED
  BY <1>1, <1>2, <1>3, FS_EmptySet DEF Replies

LEMMA NoticeInit == HistoryInit => NoticeInv
<1> SUFFICES ASSUME HistoryInit PROVE NoticeInv
  OBVIOUS
<1>1. CacheInv /\ Replies(cache[Origin]) = 0
  BY CacheInit, PromptOnly DEF HistoryInit
<1> QED
  BY <1>1 DEF HistoryInit, Init, NoticeInv, Told, At

\* Every reply in the cache is announced, about to be, or its notification was cut off by
\* a failure (notifyNewDevinMessages), however many syncs overtake each other between
\* reading the cache, writing it and writing the notification.
THEOREM RepliesAreNoticed == HistorySpec => []ReplyNoticed
<1>1. NoticeInv => ReplyNoticed
  <2> SUFFICES ASSUME NoticeInv PROVE ReplyNoticed
    OBVIOUS
  <2>1. cache[Origin] \in Seq(Row)
    BY DEF NoticeInv, CacheInv, TypeOK, Sessions
  <2>2. Replies(cache[Origin]) \in Nat
    BY <2>1, RepliesNat
  <2> QED
    BY <2>2 DEF NoticeInv, Told, ReplyNoticed
<1> QED
  BY <1>1, NoticeInit, NoticeStep, PTL DEF HistorySpec


-----------------------------------------------------------------------------
(* The closing of a session.  While syncs do not overlap and nobody goes   *)
(* on with a finished session, a sync that has seen it finished holds the  *)
(* whole conversation.                                                     *)

CachedAll == Replies(cache[Origin]) = Replies(remote)

\* What the job of w knows, once Devin has answered it.
SawTheEnd(w) ==
  job[w] # None /\ job[w].pc # "get" =>
    /\ job[w].over => over /\ job[w].snap = remote
    /\ job[w].over /\ job[w].pc \in {"notify", "status"} => CachedAll
    /\ ~active => job[w].over

Closing ==
  /\ \A v, w \in Syncs : job[v] # None /\ job[w] # None => v = w
  /\ over => inbox = <<>>
  /\ ~active => over /\ CachedAll
  /\ \A w \in Syncs : SawTheEnd(w)

ClosedInv ==
  /\ CacheInv
  /\ overlapped \in BOOLEAN /\ reopened \in BOOLEAN
  /\ overlapped \/ reopened \/ Closing

LEMMA ClosedInit == HistoryInit => ClosedInv
<1>1. HistoryInit => CacheInv
  BY CacheInit DEF HistoryInit
<1>2. HistoryInit => Closing
  BY DEF HistoryInit, Init, Closing, SawTheEnd
<1> QED
  BY <1>1, <1>2 DEF ClosedInv, HistoryInit

\* Steps that leave Devin, the status and the number of cached replies alone.
LEMMA ClosingFrame ==
  ASSUME Closing, UNCHANGED <<remote, inbox, over, active>>,
         Replies(cache'[Origin]) = Replies(cache[Origin]),
         \A w \in Syncs : job'[w] = job[w] \/ job'[w] = None
  PROVE  Closing'
<1>1. CachedAll' <=> CachedAll
  BY DEF CachedAll
<1>2. ASSUME NEW w \in Syncs PROVE SawTheEnd(w)'
  <2>1. SawTheEnd(w)
    BY DEF Closing
  <2>2. CASE job'[w] = job[w]
    BY <1>1, <2>1, <2>2 DEF SawTheEnd
  <2>3. CASE job'[w] = None
    BY <2>3 DEF SawTheEnd
  <2> QED
    BY <2>2, <2>3
<1> QED
  BY <1>1, <1>2 DEF Closing

\* The step of a sync that alone is under way.
LEMMA ClosingStep ==
  ASSUME CacheInv, Closing, NEW w \in Syncs, Step(w)
  PROVE  Closing'
<1>0. /\ TypeOK /\ job[w] # None /\ job[w] \in Job /\ over \in BOOLEAN
      /\ UNCHANGED <<remote, inbox, over>>
  BY DEF CacheInv, TypeOK, Step, GetSession, ListMessages, ReplaceMessages,
         NotifyNewDevinMessages, SetStatus, At, remoteVars
<1>1. \A v \in Syncs \ {w} : job[v] = None /\ job'[v] = None
  <2>1. ASSUME NEW v \in Syncs, v # w PROVE job'[v] = job[v]
    BY <1>0, <2>1, JobsElsewhere
  <2> QED
    BY <1>0, <2>1 DEF Closing
<1>2. ASSUME SawTheEnd(w)', ~active' => over' /\ CachedAll' PROVE Closing'
  <2>1. ASSUME NEW v \in Syncs, v # w PROVE SawTheEnd(v)'
    BY <1>1, <2>1 DEF SawTheEnd
  <2>2. \A u, v \in Syncs : job'[u] # None /\ job'[v] # None => u = v
    BY <1>1
  <2>3. over' => inbox' = <<>>
    BY <1>0 DEF Closing
  <2> QED
    BY <1>2, <2>1, <2>2, <2>3 DEF Closing
<1>3. SawTheEnd(w) /\ (~active => over /\ CachedAll)
  BY DEF Closing
<1>4. CASE GetSession(w)
  <2>1. CachedAll' <=> CachedAll
    BY <1>0, <1>4 DEF CachedAll, GetSession
  <2>2. JobIs(w, "list", remote, over, job[w].prev) /\ active' = active
    BY <1>0, <1>4, GetJob DEF GetSession
  <2> QED
    BY <1>0, <1>2, <1>3, <2>1, <2>2 DEF JobIs, SawTheEnd
<1>5. CASE ListMessages(w)
  <2>1. CachedAll' <=> CachedAll
    BY <1>0, <1>5 DEF CachedAll, ListMessages
  <2>2. JobIs(w, "replace", job[w].snap, job[w].over, Replies(cache[Origin]))
    BY <1>0, <1>5, ListJob
  <2>3. active' = active /\ job[w].pc = "list"
    BY <1>5 DEF ListMessages, At
  <2> QED
    BY <1>0, <1>2, <1>3, <2>1, <2>2, <2>3 DEF JobIs, SawTheEnd
<1>6. CASE ReplaceMessages(w)
  <2>1. job[w].snap = remote => CachedAll'
    BY <1>0, <1>6, ReplacedReplies DEF CachedAll
  <2>2. JobIs(w, "notify", job[w].snap, job[w].over, job[w].prev)
    BY <1>0, <1>6, ReplaceJob
  <2>3. active' = active /\ job[w].pc = "replace"
    BY <1>6 DEF ReplaceMessages, At
  <2> QED
    BY <1>0, <1>2, <1>3, <2>1, <2>2, <2>3 DEF JobIs, SawTheEnd
<1>7. CASE NotifyNewDevinMessages(w)
  <2>1. CachedAll' <=> CachedAll
    BY <1>0, <1>7 DEF CachedAll, NotifyNewDevinMessages
  <2>2. JobIs(w, "status", job[w].snap, job[w].over, job[w].prev)
    BY <1>0, <1>7, NotifyJob
  <2>3. active' = active /\ job[w].pc = "notify"
    BY <1>7 DEF NotifyNewDevinMessages, At
  <2> QED
    BY <1>0, <1>2, <1>3, <2>1, <2>2, <2>3 DEF JobIs, SawTheEnd
<1>8. CASE SetStatus(w)
  <2>1. CachedAll' <=> CachedAll
    BY <1>0, <1>8 DEF CachedAll, SetStatus
  <2>2. job'[w] = None /\ job[w].pc = "status"
    BY <1>0, <1>8, StageReached DEF SetStatus, At
  <2>3. ~active' => job[w].over
    <3>1. PICK b \in BOOLEAN : b = job[w].over
      BY <1>0 DEF Job
    <3>2. (active' = ~b) \/ (~b /\ active' = active)
      BY <1>8, <3>1 DEF SetStatus, Closes
    <3>3. ~active => b
      BY <1>0, <1>3, <2>2, <3>1 DEF SawTheEnd
    <3>4. ~active' => b
      <4>1. CASE active' = ~b
        BY <4>1, Zenon
      <4>2. CASE ~b /\ active' = active
        <5>1. active
          BY <3>3, <4>2
        <5>2. active'
          BY <4>2, <5>1, Zenon
        <5> QED
          BY <5>2
      <4> QED
        BY <3>2, <4>1, <4>2
    <3>5. b => job[w].over
      BY <3>1
    <3> QED
      BY <3>4, <3>5
  <2> QED
    BY <1>0, <1>2, <1>3, <2>1, <2>2, <2>3 DEF SawTheEnd
<1> QED
  BY <1>4, <1>5, <1>6, <1>7, <1>8 DEF Step

\* A call that finds no other under way.
LEMMA ClosingBegin ==
  ASSUME CacheInv, Closing, NEW w \in Syncs, Begin(w), Busy = {}
  PROVE  Closing'
<1>1. /\ job'[w] # None /\ job'[w].pc = "get"
      /\ \A v \in Syncs \ {w} : job'[v] = None
  BY BeginJob DEF CacheInv, JobIs, Busy
<1>2. ASSUME NEW v \in Syncs PROVE SawTheEnd(v)'
  BY <1>1 DEF SawTheEnd
<1>3. UNCHANGED <<remote, inbox, over, active, cache>>
  BY DEF Begin, remoteVars
<1>4. CachedAll' <=> CachedAll
  BY <1>3 DEF CachedAll
<1> QED
  BY <1>1, <1>2, <1>3, <1>4 DEF Closing

\* What Devin does: a finished session stays as it is.
LEMMA ClosingDevin ==
  ASSUME CacheInv, Closing, Devin
  PROVE  Closing'
<1>1. UNCHANGED <<active, cache, job>> /\ over \in BOOLEAN
  BY DEF Devin, DevinReplies, DevinRecords, DevinFinishes, CacheInv, TypeOK
<1>2. ~over /\ (over' => inbox' = <<>>)
  <2>1. CASE \E text \in Texts : DevinReplies(text)
    BY <2>1 DEF DevinReplies
  <2>2. CASE DevinRecords
    BY <2>2 DEF DevinRecords, Closing
  <2>3. CASE DevinFinishes
    BY <2>3 DEF DevinFinishes
  <2> QED
    BY <2>1, <2>2, <2>3 DEF Devin
<1>3. active /\ \A w \in Syncs : job[w] # None /\ job[w].pc # "get" => ~job[w].over
  BY <1>2 DEF Closing, SawTheEnd
<1>4. ASSUME NEW w \in Syncs PROVE SawTheEnd(w)'
  BY <1>1, <1>3 DEF SawTheEnd
<1> QED
  BY <1>1, <1>2, <1>3, <1>4 DEF Closing

LEMMA ClosedStep == ClosedInv /\ [HistoryNext]_historyVars => ClosedInv'
<1> SUFFICES ASSUME ClosedInv, [HistoryNext]_historyVars PROVE ClosedInv'
  OBVIOUS
<1>0. CacheInv /\ CacheInv'
  BY CacheStep, HistoryIsStep DEF ClosedInv
<1>1. CASE UNCHANGED historyVars
  <2>1. Closing => Closing'
    BY <1>1, ClosingFrame DEF historyVars, vars, remoteVars
  <2> QED
    BY <1>0, <1>1, <2>1 DEF ClosedInv, historyVars
<1>2. CASE HistoryNext
  <2>0. overlapped \in BOOLEAN /\ reopened \in BOOLEAN
    BY DEF ClosedInv
  <2>1. /\ overlapped' \in BOOLEAN /\ reopened' \in BOOLEAN
        /\ (overlapped => overlapped') /\ (reopened => reopened')
    BY <1>2, <2>0 DEF HistoryNext
  <2> SUFFICES ASSUME ~overlapped', ~reopened' PROVE Closing'
    BY <1>0, <2>1 DEF ClosedInv
  <2>2. Closing /\ TypeOK
    BY <1>0, <2>1 DEF ClosedInv, CacheInv
  <2>3. CASE Devin
    BY <1>0, <2>2, <2>3, ClosingDevin
  <2>4. ASSUME NEW w \in Syncs, Step(w) PROVE Closing'
    BY <1>0, <2>2, <2>4, ClosingStep
  <2>5. ASSUME \A w \in Syncs : ~ReplaceMessages(w),
               UNCHANGED <<remote, inbox, over, active>>,
               \A w \in Syncs : job'[w] = job[w] \/ job'[w] = None
        PROVE  Closing'
    <3>1. Replies(cache'[Origin]) = Replies(cache[Origin])
      BY <1>0, <1>2, <2>5, OriginReplies DEF HistoryNext, Next
    <3> QED
      BY <2>2, <2>5, <3>1, ClosingFrame
  <2>6. CASE AppendMessage
    BY <2>4, <2>5, <2>6 DEF AppendMessage, remoteVars, Step
  <2>7. CASE Failure
    <3>1. UNCHANGED <<remote, inbox, over, active>>
      BY <2>7 DEF Failure, Cut, CutFollowUp, Restart, remoteVars
    <3>2. \A w \in Syncs : job'[w] = job[w] \/ job'[w] = None
      BY <2>2, <2>7, JobMoves
    <3> QED
      BY <2>4, <2>5, <3>1, <3>2 DEF Step
  <2>8. CASE /\ Poll \/ User
             /\ overlapped' = (overlapped \/ (Busy # {} /\ job' # job))
             /\ reopened' = (reopened \/ (over /\ inbox' # inbox))
    <3>1. (job' # job => Busy = {}) /\ (inbox' # inbox => ~over)
      BY <2>8
    <3>2. ASSUME NEW w \in Syncs, Begin(w) PROVE Closing'
      <4>1. job'[w] # None /\ job[w] = None
        BY <2>2, <3>2, BeginJob DEF JobIs
      <4> QED
        BY <1>0, <2>2, <3>1, <3>2, <4>1, ClosingBegin
    <3>3. ASSUME NEW text \in Texts, SendFollowUp(text) PROVE Closing'
      <4>1. inbox' # inbox
        BY <2>2, <3>3 DEF SendFollowUp, TypeOK
      <4>2. ~over /\ UNCHANGED <<remote, over, active, cache, job>>
        BY <3>1, <3>3, <4>1 DEF SendFollowUp
      <4>3. ASSUME NEW w \in Syncs PROVE SawTheEnd(w)'
        BY <2>2, <4>2 DEF Closing, SawTheEnd
      <4> QED
        BY <2>2, <4>2, <4>3 DEF Closing
    <3>4. ASSUME UNCHANGED <<remote, inbox, over, active, job>> PROVE Closing'
      BY <2>4, <2>5, <3>4 DEF Step
    <3> QED
      BY <2>8, <3>2, <3>3, <3>4
      DEF Poll, User, Refresh, Pin, Unpin, SetPinned, Fork, remoteVars, Syncs
  <2> QED
    BY <1>2, <2>3, <2>4, <2>6, <2>7, <2>8 DEF HistoryNext
<1> QED
  BY <1>1, <1>2

\* When SetStatus takes a session off the poller's list, the cache holds all of Devin's
\* replies, unless two syncs overlapped or a finished session was gone on with: the
\* status comes with the list of messages, and is written after it.
THEOREM ClosedSessionsAreComplete == HistorySpec => []ClosedIsComplete
<1>1. ClosedInv => ClosedIsComplete
  BY DEF ClosedInv, Closing, CachedAll, ClosedIsComplete
<1> QED
  BY <1>1, ClosedInit, ClosedStep, PTL DEF HistorySpec
=============================================================================
