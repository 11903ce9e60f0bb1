------------------------------- MODULE Sampler -------------------------------
(* Which of the fetched games a backfill analyses (sampler.py).  A game is  *)
(* [id, created]; a sample is the set of its games, and Sample the set of   *)
(* the samples that random draws can lead to.                               *)
EXTENDS Naturals, FiniteSetsExt

Newer(g, h) == g.created > h.created \/ (g.created = h.created /\ g.id < h.id)

(* ordered[:n], the order being stable: newest first.                       *)
Newest(games, n) == {g \in games : Cardinality({h \in games : Newer(h, g)}) < n}
Below(a, b) == IF a < b THEN a ELSE b
Minus(a, b) == IF a > b THEN a - b ELSE 0

(* Mutant: the older games are drawn up to the cap, the recent ones aside.  *)
OlderUpToCap(cap, olderN, recent, pool) == Below(Below(olderN, cap), Cardinality(pool))

(* min(older_n, cap - len(recent), len(older_pool)), or none below 0.       *)
Older(cap, olderN, recent, pool) ==
  Below(Below(olderN, Minus(cap, Cardinality(recent))), Cardinality(pool))

Stratified(games, cap, recentN, olderN) ==
  LET recent == Newest(games, recentN)
      pool == games \ recent
  IN {recent \cup old : old \in kSubset(Older(cap, olderN, recent, pool), pool)}

Sample(games, strategy, cap, recentN, olderN) ==
  IF Cardinality(games) <= cap THEN {games}
  ELSE CASE strategy = "recent" -> {Newest(games, cap)}
         [] strategy = "random" -> kSubset(cap, games)
         [] strategy = "stratified" -> Stratified(games, cap, recentN, olderN)

-----------------------------------------------------------------------------

(* A sample has no more than cap games, however the draws fall; only        *)
(* recent_n may exceed it, being taken before the cap is looked at          *)
(* (sampler.py:54).  No room is wasted, and except at random no game is     *)
(* passed over for an older one among the newest recent_n.                  *)
SampleWithinCaps(games, strategy, cap, recentN, olderN) ==
  LET all == Cardinality(games) IN
  \A s \in Sample(games, strategy, cap, recentN, olderN) :
    /\ s \subseteq games
    /\ \/ Cardinality(s) <= cap
       \/ strategy = "stratified" /\ Cardinality(s) <= recentN
    /\ strategy # "stratified" \/ recentN + olderN >= cap =>
         Cardinality(s) >= Below(cap, all)
    /\ strategy = "stratified" => Newest(games, Below(cap, recentN)) \subseteq s
    /\ strategy = "recent" => \A g \in s, h \in games \ s : Newer(g, h)

=============================================================================
