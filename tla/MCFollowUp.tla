----------------------------- MODULE MCFollowUp -----------------------------
(***************************************************************************)
(* Rotation with two history variables: for the follow-up text that a      *)
(* handoff is to carry, and for the key that a rotation is to leave.       *)
(***************************************************************************)
EXTENDS Rotation, TLC

CONSTANT MaxLifts \* bound: how often a key is put back to use

VARIABLES
  wiped,  \* rotations whose follow-up text a sync has dropped from the cache
  lifted, \* rotations whose exhausted key was put back between the bench and the pick
  lifts   \* how often a key was put back

cacheVars == <<vars, wiped, lifted, lifts>>

\* Fairness is per goroutine and no property names a key: exchanging two keys maps a
\* behaviour to one in which the same goroutines take the same steps, so the symmetry
\* is sound for HandoffsSettle too.
KeySymmetry == Permutations(Keys)

\* A follow-up that has cached its text; before and after its handoff row is written.
Caching(w)  == job[w].op = "follow" /\ job[w].pc \in {"stamp", "mark", "handoff"}
Carrying(w) == job[w].op = "follow" /\ job[w].pc \in HoldSteps

\* A sync of the same session replaces the cache.
WipedUnder(w) == Caching(w) /\ job[w].dying \in unsent \ unsent'

\* A quota rotation that has benched the dying key and may still open its replacement.
Leaving(w) ==
  /\ job[w].op \notin {"manual", "aborted"}
  /\ job[w].pc \in {"handoff", "pick", "open", "create", "attach", "link"}

\* The reactivator or a checker puts the key back that the rotation has just benched.
LiftedUnder(w) ==
  job[w].pc \in {"handoff", "pick"} /\ sess[job[w].dying].key \in usable' \ usable

CacheInit == Init /\ wiped = {} /\ lifted = {} /\ lifts = 0
CacheNext ==
  /\ Next
  /\ wiped' = {w \in Jobs : (Caching(w) \/ Carrying(w))' /\ (w \in wiped \/ WipedUnder(w))}
  /\ lifted' = {w \in Jobs : Leaving(w)' /\ (w \in lifted \/ LiftedUnder(w))}
  /\ lifts' = lifts + Cardinality(usable' \ usable)
  /\ lifts' <= MaxLifts

CacheSpec     == CacheInit /\ [][CacheNext]_cacheVars
FairCacheSpec == CacheSpec /\ Fairness

\* A quota rotation opens the replacement on another key than the exhausted one (rotate
\* relies on Pick no longer seeing it), however the benches, lifts and picks of other
\* calls, sweeps and checks fall in between; unless one of them puts that very key back
\* between this rotation's bench and its Pick.
QuotaChangesKey ==
  \A w \in Jobs \ lifted :
    Leaving(w) /\ job[w].pc \in {"create", "attach", "link"}
      => sess[job[w].new].key # sess[job[w].dying].key

\* "Cache the pending user message locally so the handoff prompt includes it":
\* the handoff of a follow-up that ran into the quota carries its text, unless a
\* sync of the same session has replaced the cache in between.
FollowUpCarried == \A w \in Jobs \ wiped : Carrying(w) => handoffs[job[w].hand].text
=============================================================================
