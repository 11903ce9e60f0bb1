--------------------------- MODULE OperatorProofs ---------------------------
(* Proofs about the pure functions of Scores, Sampler, Analysis, Annotation,*)
(* Pawns and Exchange, for every argument; and so of whatever calls are made*)
(* (Calls).                                                                 *)
EXTENDS Calls, FiniteSetTheorems, FunctionTheorems, SequenceTheorems,
        WellFoundedInduction, TLAPS

-----------------------------------------------------------------------------
(* Scores.                                                                  *)

(* Mates and centipawns share one scale and never collide (mateValue, Cp):  *)
(* any mate of the mover is better than any evaluation, and a quicker one   *)
(* is better than a slower one.                                             *)
THEOREM MatesApart ==
  ASSUME NEW n \in 1 .. 1000, NEW m \in 1 .. 1000, NEW cp \in Int
  PROVE  BandsApart(n, m, cp)
  BY DEF BandsApart, IsMateScore, MateValue, Cp, Clamp, Greatest, Least, Abs,
         MateScore, MateThreshold, MaxCp

(* Clamped values are in range.                                             *)
LEMMA ClampInRange ==
  ASSUME NEW s \in Int
  PROVE  Clamp(s, 0, SharpnessCap) \in 0 .. 800
  BY DEF Clamp, Greatest, Least, SharpnessCap

(* Clamping keeps the order.                                                *)
LEMMA ClampMonotone ==
  ASSUME NEW s \in Int, NEW t \in Int, s <= t
  PROVE  Clamp(s, 0, SharpnessCap) <= Clamp(t, 0, SharpnessCap)
  BY DEF Clamp, Greatest, Least, SharpnessCap

(* Thresholds are integers.                                                 *)
LEMMA ThresholdIsInt ==
  ASSUME NEW s \in 0 .. 800
  PROVE  /\ Threshold("inaccuracy", s) \in Int
         /\ Threshold("mistake", s) \in Int
         /\ Threshold("blunder", s) \in Int
  BY DEF Threshold, Base, Rounding

(* The truncation of doubles takes one off only where the exact threshold   *)
(* is an integer: it never falls below that of a quieter position.          *)
LEMMA ThresholdMonotone ==
  ASSUME NEW s \in 0 .. 800, NEW t \in 0 .. 800, s <= t
  PROVE  /\ Threshold("inaccuracy", s) <= Threshold("inaccuracy", t)
         /\ Threshold("mistake", s) <= Threshold("mistake", t)
         /\ Threshold("blunder", s) <= Threshold("blunder", t)
  <1>1. CASE s = t
    BY <1>1, ThresholdIsInt
  <1>2. CASE s < t
    <2>1. Threshold("inaccuracy", s) <= Threshold("inaccuracy", t)
      BY <1>2 DEF Threshold, Base, Rounding
    <2>2. Threshold("mistake", s) <= Threshold("mistake", t)
      BY <1>2 DEF Threshold, Base, Rounding
    <2>3. Threshold("blunder", s) <= Threshold("blunder", t)
      BY <1>2 DEF Threshold, Base, Rounding
    <2> QED
      BY <2>1, <2>2, <2>3
  <1> QED
    BY <1>1, <1>2

(* classifySeverity: a loss is never judged more severely because the       *)
(* position was sharper, the rounding of its doubles included.              *)
THEOREM Milder ==
  ASSUME NEW delta \in Int, NEW faced \in Int, NEW s \in Int, NEW t \in Int
  PROVE  SharperIsMilder(delta, faced, s, t)
  <1> SUFFICES ASSUME s <= t
               PROVE  Rank(ClassifySeverity(delta, faced, t)) <= Rank(ClassifySeverity(delta, faced, s))
    BY DEF SharperIsMilder
  <1> DEFINE x == Clamp(s, 0, SharpnessCap)
             y == Clamp(t, 0, SharpnessCap)
  <1>1. x \in 0 .. 800 /\ y \in 0 .. 800 /\ x <= y
    BY ClampInRange, ClampMonotone
  <1> HIDE DEF x, y
  <1>2. /\ Threshold("inaccuracy", x) <= Threshold("inaccuracy", y)
        /\ Threshold("mistake", x) <= Threshold("mistake", y)
        /\ Threshold("blunder", x) <= Threshold("blunder", y)
    BY <1>1, ThresholdMonotone
  <1>3. /\ Threshold("inaccuracy", x) \in Int /\ Threshold("inaccuracy", y) \in Int
        /\ Threshold("mistake", x) \in Int /\ Threshold("mistake", y) \in Int
        /\ Threshold("blunder", x) \in Int /\ Threshold("blunder", y) \in Int
    BY <1>1, ThresholdIsInt
  <1>4. CASE Abs(faced) > DecidedEval
    BY <1>4 DEF ClassifySeverity, Rank
  <1>5. CASE ~(Abs(faced) > DecidedEval)
    <2>1. \A u \in {s, t} :
            ClassifySeverity(delta, faced, u) =
              LET z == Clamp(u, 0, SharpnessCap) IN
              IF delta >= Threshold("blunder", z) THEN "blunder"
              ELSE IF delta >= Threshold("mistake", z) THEN "mistake"
              ELSE IF delta >= Threshold("inaccuracy", z) THEN "inaccuracy" ELSE "none"
      BY <1>5 DEF ClassifySeverity
    <2>2. Rank("none") = 0 /\ Rank("inaccuracy") = 1 /\ Rank("mistake") = 2 /\ Rank("blunder") = 3
      BY DEF Rank
    <2> QED
      BY <1>2, <1>3, <2>1, <2>2 DEF x, y
  <1> QED
    BY <1>4, <1>5

(* classifySeverity: what counts as a mistake or a blunder cost at least    *)
(* 100 centipawns in a position that was not decided.                       *)
THEOREM Costs ==
  ASSUME NEW delta \in Int, NEW faced \in Int, NEW sharp \in Int
  PROVE  MistakesCost(delta, faced, sharp)
  <1> DEFINE x == Clamp(sharp, 0, SharpnessCap)
  <1>1. x \in 0 .. 800
    BY ClampInRange
  <1> HIDE DEF x
  <1>2. Threshold("mistake", x) >= 100 /\ Threshold("blunder", x) >= 100
    <2>1. Threshold("mistake", 0) >= 100 /\ Threshold("blunder", 0) >= 100
      BY DEF Threshold, Base, Rounding
    <2>2. 0 \in 0 .. 800 /\ x \in 0 .. 800 /\ 0 <= x
      BY <1>1
    <2>3. \A z \in {0, x} : Threshold("mistake", z) \in Int /\ Threshold("blunder", z) \in Int
      BY <2>2, ThresholdIsInt
    <2>4. Threshold("mistake", 0) <= Threshold("mistake", x)
          /\ Threshold("blunder", 0) <= Threshold("blunder", x)
      BY <2>2, ThresholdMonotone
    <2> QED
      BY <2>1, <2>3, <2>4
  <1>3. Abs(faced) \in Int
    BY DEF Abs
  <1>4. Threshold("mistake", x) \in Int /\ Threshold("blunder", x) \in Int
    BY <1>1, ThresholdIsInt
  <1> QED
    BY <1>2, <1>3, <1>4 DEF MistakesCost, ClassifySeverity, DecidedEval, x

-----------------------------------------------------------------------------
(* Sampler.  A game's rank is the number of newer ones.  No two games have  *)
(* the same one, so the ranks of n games are 0 to n - 1, and the newest k   *)
(* are as many as they are meant to be.                                     *)

NewerThan(games, g) == {h \in games : Newer(h, g)}
RankOf(games) == [g \in games |-> Cardinality(NewerThan(games, g))]

(* Newer orders the games totally.                                          *)
LEMMA NewerOrders ==
  ASSUME NEW games, Fetched(games), NEW g \in games, NEW h \in games
  PROVE  /\ ~Newer(g, g)
         /\ g # h => (Newer(g, h) <=> ~Newer(h, g))
         /\ Newer(g, h) => \A x \in games : Newer(x, g) => Newer(x, h)
  <1>1. g.id \in Nat /\ g.created \in Nat /\ h.id \in Nat /\ h.created \in Nat
    BY DEF Fetched
  <1>2. g # h => g.id # h.id
    BY DEF Fetched
  <1>3. \A x \in games : x.id \in Nat /\ x.created \in Nat
    BY DEF Fetched
  <1> QED
    BY <1>1, <1>2, <1>3 DEF Newer

(* A rank is a number.                                                      *)
LEMMA RankType ==
  ASSUME NEW games, Fetched(games)
  PROVE  RankOf(games) \in [games -> Nat]
  <1>1. ASSUME NEW g \in games
        PROVE  Cardinality(NewerThan(games, g)) \in Nat
    BY FS_Subset, FS_CardinalityType DEF Fetched, NewerThan
  <1> QED
    BY <1>1 DEF RankOf

(* The newer of two games has the lower rank.                               *)
LEMMA NewerRanksLower ==
  ASSUME NEW games, Fetched(games), NEW g \in games, NEW h \in games
  PROVE  RankOf(games)[g] < RankOf(games)[h] <=> Newer(g, h)
  <1>1. ASSUME NEW x \in games, NEW y \in games, Newer(x, y)
        PROVE  RankOf(games)[x] < RankOf(games)[y]
    <2>1. NewerThan(games, x) \subseteq NewerThan(games, y)
      BY <1>1, NewerOrders DEF NewerThan
    <2>2. x \in NewerThan(games, y) /\ x \notin NewerThan(games, x)
      BY <1>1, NewerOrders DEF NewerThan
    <2>3. IsFiniteSet(NewerThan(games, y))
      BY FS_Subset DEF Fetched, NewerThan
    <2>4. Cardinality(NewerThan(games, x)) <= Cardinality(NewerThan(games, y))
          /\ Cardinality(NewerThan(games, x)) # Cardinality(NewerThan(games, y))
      BY <2>1, <2>2, <2>3, FS_Subset
    <2> QED
      BY <2>4, RankType DEF RankOf
  <1>2. RankOf(games)[g] \in Nat /\ RankOf(games)[h] \in Nat
    BY RankType
  <1>3. CASE g = h
    BY <1>2, <1>3, NewerOrders
  <1>4. CASE g # h
    BY <1>1, <1>2, <1>4, NewerOrders
  <1> QED
    BY <1>3, <1>4

(* The ranks are exactly 0 to the number of games less one.                 *)
LEMMA RanksAreBijective ==
  ASSUME NEW games, Fetched(games)
  PROVE  RankOf(games) \in Bijection(games, 0 .. Cardinality(games) - 1)
  <1> DEFINE n == Cardinality(games)
             ranks == 0 .. n - 1
  <1>1. n \in Nat
    BY FS_CardinalityType DEF Fetched
  <1>2. ASSUME NEW g \in games
        PROVE  RankOf(games)[g] \in ranks
    <2>1. NewerThan(games, g) \in SUBSET games /\ NewerThan(games, g) # games
      BY NewerOrders DEF NewerThan
    <2>2. Cardinality(NewerThan(games, g)) <= n /\ Cardinality(NewerThan(games, g)) # n
      BY <2>1, FS_Subset DEF Fetched
    <2>3. RankOf(games)[g] \in Nat /\ RankOf(games)[g] = Cardinality(NewerThan(games, g))
      BY RankType DEF RankOf
    <2> QED
      BY <1>1, <2>2, <2>3
  <1>3. RankOf(games) \in Injection(games, ranks)
    <2>1. RankOf(games) \in [games -> ranks]
      BY <1>2, RankType
    <2>2. ASSUME NEW g \in games, NEW h \in games, RankOf(games)[g] = RankOf(games)[h]
          PROVE  g = h
      <3>1. ~Newer(g, h) /\ ~Newer(h, g)
        BY <2>2, NewerRanksLower, RankType
      <3> QED
        BY <3>1, NewerOrders
    <2> QED
      BY <2>1, <2>2 DEF Injection, IsInjective
  <1>4. IsFiniteSet(ranks) /\ Cardinality(ranks) = n
    BY <1>1, FS_Interval
  <1>5. RankOf(games) \in Surjection(games, ranks)
    BY <1>3, <1>4, FS_Injection
  <1> QED
    BY <1>3, <1>5 DEF Bijection

(* ordered[:n] has n games, or all of them (sample).                        *)
LEMMA NewestCount ==
  ASSUME NEW games, Fetched(games), NEW n \in Nat
  PROVE  /\ Newest(games, n) \subseteq games
         /\ IsFiniteSet(Newest(games, n))
         /\ Cardinality(Newest(games, n)) = Below(n, Cardinality(games))
  <1> DEFINE all == Cardinality(games)
             m == Below(n, all)
             S == Newest(games, n)
             f == [g \in S |-> RankOf(games)[g]]
  <1>1. all \in Nat /\ m \in Nat /\ m <= all /\ m <= n
    BY FS_CardinalityType DEF Fetched, Below
  <1>2. S = {g \in games : RankOf(games)[g] < n}
    BY DEF Newest, RankOf, NewerThan
  <1>3. IsFiniteSet(S)
    BY <1>2, FS_Subset DEF Fetched
  <1>4. \A g \in games : RankOf(games)[g] \in 0 .. all - 1
    BY RanksAreBijective DEF Bijection, Injection
  <1>5. f \in [S -> 0 .. m - 1]
    <2>1. ASSUME NEW g \in S
          PROVE  RankOf(games)[g] \in 0 .. m - 1
      BY <1>1, <1>2, <1>4 DEF Below
    <2> QED
      BY <2>1
  <1>6. \A g, h \in S : f[g] = f[h] => g = h
    BY <1>2, RanksAreBijective DEF Bijection, Injection, IsInjective
  <1>7. \A r \in 0 .. m - 1 : \E g \in S : f[g] = r
    <2> SUFFICES ASSUME NEW r \in 0 .. m - 1
                 PROVE  \E g \in S : f[g] = r
      OBVIOUS
    <2>1. r \in 0 .. all - 1 /\ r < n
      BY <1>1
    <2>2. PICK g \in games : RankOf(games)[g] = r
      BY <2>1, RanksAreBijective DEF Bijection, Surjection
    <2> QED
      BY <1>2, <2>1, <2>2
  <1>8. f \in Bijection(S, 0 .. m - 1)
    BY <1>5, <1>6, <1>7 DEF Bijection, Injection, Surjection, IsInjective
  <1>9. Cardinality(0 .. m - 1) = m
    BY <1>1, FS_Interval
  <1>10. Cardinality(S) = m
    BY <1>3, <1>8, <1>9, FS_Bijection DEF ExistsBijection
  <1> QED
    BY <1>2, <1>3, <1>10

(* sample: whatever games are fetched and however the draws fall, a sample  *)
(* fits the cap (or the newest recent_n, which are taken before the cap is  *)
(* looked at), leaves no room that it could fill, and passes over no newer  *)
(* game where newness counts.                                               *)
THEOREM SampleFits ==
  ASSUME NEW games, Fetched(games), NEW strategy \in {"recent", "random", "stratified"},
         NEW cap \in Nat, NEW recentN \in Nat, NEW olderN \in Nat
  PROVE  SampleWithinCaps(games, strategy, cap, recentN, olderN)
  <1> DEFINE all == Cardinality(games)
  <1> SUFFICES ASSUME NEW s \in Sample(games, strategy, cap, recentN, olderN)
               PROVE  /\ s \subseteq games
                      /\ \/ Cardinality(s) <= cap
                         \/ strategy = "stratified" /\ Cardinality(s) <= recentN
                      /\ strategy # "stratified" \/ recentN + olderN >= cap =>
                           Cardinality(s) >= Below(cap, all)
                      /\ strategy = "stratified" => Newest(games, Below(cap, recentN)) \subseteq s
                      /\ strategy = "recent" => \A g \in s, h \in games \ s : Newer(g, h)
    BY DEF SampleWithinCaps
  <1>1. IsFiniteSet(games) /\ all \in Nat
    BY FS_CardinalityType DEF Fetched
  <1>2. CASE all <= cap
    <2>1. s = games
      BY <1>2 DEF Sample
    <2>2. Newest(games, Below(cap, recentN)) \subseteq games
      BY DEF Newest
    <2> QED
      BY <1>1, <1>2, <2>1, <2>2 DEF Below
  <1>3. CASE ~(all <= cap) /\ strategy = "recent"
    <2>1. s = Newest(games, cap)
      BY <1>3 DEF Sample
    <2>2. s \subseteq games /\ Cardinality(s) = Below(cap, all)
      BY <2>1, NewestCount
    <2>3. ASSUME NEW g \in s, NEW h \in games \ s
          PROVE  Newer(g, h)
      <3>1. RankOf(games)[g] < cap /\ ~(RankOf(games)[h] < cap)
        BY <2>1, <2>2 DEF Newest, RankOf, NewerThan
      <3>2. RankOf(games)[g] \in Nat /\ RankOf(games)[h] \in Nat
        BY <2>2, RankType
      <3>3. RankOf(games)[g] < RankOf(games)[h]
        BY <3>1, <3>2
      <3> QED
        BY <2>2, <3>3, NewerRanksLower
    <2> QED
      BY <1>1, <1>3, <2>2, <2>3 DEF Below
  <1>4. CASE ~(all <= cap) /\ strategy = "random"
    <2>1. s \subseteq games /\ Cardinality(s) = cap
      BY <1>4 DEF Sample, kSubset
    <2> QED
      BY <1>1, <1>4, <2>1 DEF Below
  <1>5. CASE ~(all <= cap) /\ strategy = "stratified"
    <2> DEFINE recent == Newest(games, recentN)
               pool == games \ recent
               r == Cardinality(recent)
               k == Older(cap, olderN, recent, pool)
    <2>1. PICK old \in kSubset(k, pool) : s = recent \cup old
      BY <1>5 DEF Sample, Stratified
    <2>2. recent \subseteq games /\ IsFiniteSet(recent) /\ r = Below(recentN, all)
      BY NewestCount
    <2>3. old \subseteq pool /\ Cardinality(old) = k
      BY <2>1 DEF kSubset
    <2>4. IsFiniteSet(old) /\ IsFiniteSet(pool)
      BY <1>1, <2>3, FS_Subset
    <2>5. Cardinality(pool) = all - r
      <3>1. Cardinality(pool) = all - Cardinality(games \cap recent)
        BY <1>1, FS_Difference
      <3>2. games \cap recent = recent
        BY <2>2
      <3> QED
        BY <3>1, <3>2
    <2>6. Cardinality(s) = r + k
      <3>1. recent \cap old = {}
        BY <2>3
      <3>2. r \in Nat /\ Cardinality(old) \in Nat
        BY <2>2, <2>4, FS_CardinalityType
      <3>3. Cardinality(recent \cup old) = r + Cardinality(old) - Cardinality(recent \cap old)
        BY <2>2, <2>4, FS_Union
      <3> QED
        BY <2>1, <2>3, <3>1, <3>2, <3>3, FS_EmptySet
    <2>7. k = Below(Below(olderN, Minus(cap, r)), all - r)
      BY <2>5 DEF Older
    <2>8. Newest(games, Below(cap, recentN)) \subseteq recent
      <3>1. \A g \in games : RankOf(games)[g] \in Nat
        BY RankType
      <3>2. \A g \in games : RankOf(games)[g] < Below(cap, recentN) => RankOf(games)[g] < recentN
        BY <3>1 DEF Below
      <3> QED
        BY <3>2 DEF Newest, RankOf, NewerThan
    <2>9. s \subseteq games
      BY <2>1, <2>2, <2>3
    <2> HIDE DEF recent, pool, r, k
    <2>10. Cardinality(s) <= cap \/ Cardinality(s) <= recentN
      BY <1>1, <1>5, <2>2, <2>6, <2>7 DEF Below, Minus
    <2>11. recentN + olderN >= cap => Cardinality(s) >= Below(cap, all)
      BY <1>1, <1>5, <2>2, <2>6, <2>7 DEF Below, Minus
    <2> QED
      BY <1>5, <2>1, <2>8, <2>9, <2>10, <2>11
  <1> QED
    BY <1>2, <1>3, <1>4, <1>5

-----------------------------------------------------------------------------
(* Numbers and sequences.                                                   *)

(* A set of numbers that has any has a least one.                           *)
LEMMA LeastOf ==
  ASSUME NEW S, S \subseteq Nat, S # {}
  PROVE  Min(S) \in S /\ \A k \in S : Min(S) <= k
  <1>1. OpToRel(<, Nat) = {ss \in Nat \X Nat : ss[1] < ss[2]}
    BY DEF OpToRel
  <1>2. PICK m \in S : \A k \in S : ~(<<k, m>> \in OpToRel(<, Nat))
    BY NatLessThanWellFounded, WFMin
  <1>3. ASSUME NEW k \in S, k < m PROVE FALSE
    <2>1. k \in Nat /\ m \in Nat
      OBVIOUS
    <2>2. <<k, m>> \in {ss \in Nat \X Nat : ss[1] < ss[2]}
      BY <1>3, <2>1
    <2> QED
      BY <1>1, <1>2, <2>2
  <1>4. \A k \in S : m <= k
    <2>1. \A k \in S : k \in Nat /\ m \in Nat
      OBVIOUS
    <2> QED
      BY <1>3, <2>1
  <1> QED
    BY <1>4 DEF Min

(* Induction over the numbers up to n, of a set of numbers.                 *)
LEMMA CountingUp ==
  ASSUME NEW n \in Nat, NEW S, 0 \in S, \A m \in 0 .. n - 1 : m \in S => m + 1 \in S
  PROVE  \A m \in 0 .. n : m \in S
  <1> DEFINE missed == {m \in 0 .. n : m \notin S}
  <1> SUFFICES ASSUME missed # {} PROVE FALSE
    OBVIOUS
  <1>1. Min(missed) \in missed /\ \A k \in missed : Min(missed) <= k
    BY LeastOf
  <1>2. PICK m \in missed : \A k \in missed : m <= k
    BY <1>1
  <1>3. m \in Nat /\ m # 0
    OBVIOUS
  <1>4. m - 1 \in 0 .. n - 1 /\ m - 1 \notin missed
    BY <1>2, <1>3
  <1> QED
    BY <1>3, <1>4

(* Induction over all the numbers.                                          *)
LEMMA CountingOn ==
  ASSUME NEW S, 0 \in S, \A n \in Nat : n \in S => n + 1 \in S
  PROVE  \A n \in Nat : n \in S
  <1> SUFFICES ASSUME NEW n \in Nat PROVE n \in S
    OBVIOUS
  <1>1. \A m \in 0 .. n - 1 : m \in S => m + 1 \in S
    OBVIOUS
  <1>2. \A m \in 0 .. n : m \in S
    BY <1>1, CountingUp
  <1> QED
    BY <1>2

-----------------------------------------------------------------------------
(* Picked: the k-th of the places picked stands at k.                       *)

Places(places) == \E n \in Nat : \A j \in places : j \in 1 .. n
Upto(places, i) == Cardinality({j \in places : j <= i})

(* How many of the places are up to i.                                      *)
LEMMA UptoType ==
  ASSUME NEW n \in Nat, NEW places, \A j \in places : j \in 1 .. n, NEW i \in Int
  PROVE  /\ IsFiniteSet(places) /\ Cardinality(places) \in Nat
         /\ Upto(places, i) \in 0 .. Cardinality(places)
         /\ i < 1 => Upto(places, i) = 0
         /\ i >= n => Upto(places, i) = Cardinality(places)
  <1> DEFINE S == {j \in places : j <= i}
  <1>0. \A j \in places : j \in Int /\ 1 <= j /\ j <= n
    OBVIOUS
  <1>1. IsFiniteSet(places)
    <2>1. 1 \in Int /\ n \in Int
      OBVIOUS
    <2>2. IsFiniteSet(1 .. n)
      BY <2>1, FS_Interval
    <2>3. places \subseteq 1 .. n
      OBVIOUS
    <2> QED
      BY <2>2, <2>3, FS_Subset
  <1>2. IsFiniteSet(S) /\ Cardinality(S) <= Cardinality(places)
    BY <1>1, FS_Subset
  <1>3. Cardinality(S) \in Nat /\ Cardinality(places) \in Nat
    BY <1>1, <1>2, FS_CardinalityType
  <1>4. i < 1 => S = {}
    BY <1>0
  <1>5. i >= n => S = places
    BY <1>0
  <1> QED
    BY <1>1, <1>2, <1>3, <1>4, <1>5, FS_EmptySet DEF Upto

(* One more number is one more place, or none.                              *)
LEMMA UptoStep ==
  ASSUME NEW n \in Nat, NEW places, \A j \in places : j \in 1 .. n, NEW i \in 1 .. n
  PROVE  /\ i \in places => Upto(places, i) = Upto(places, i - 1) + 1
         /\ i \notin places => Upto(places, i) = Upto(places, i - 1)
  <1> DEFINE S == {j \in places : j <= i}
             T == {j \in places : j <= i - 1}
  <1>0. \A j \in places : j \in Int
    OBVIOUS
  <1>1. IsFiniteSet(T)
    BY UptoType, FS_Subset
  <1>2. CASE i \in places
    <2>1. S = T \cup {i} /\ i \notin T
      <3>1. \A j \in places : j <= i <=> j <= i - 1 \/ j = i
        BY <1>0
      <3>2. ~(i <= i - 1)
        OBVIOUS
      <3> QED
        BY <1>2, <3>1, <3>2
    <2> QED
      BY <1>1, <1>2, <2>1, FS_AddElement DEF Upto
  <1>3. CASE i \notin places
    <2>1. S = T
      BY <1>0, <1>3
    <2> QED
      BY <1>3, <2>1 DEF Upto
  <1> QED
    BY <1>2, <1>3

(* Places of higher numbers have more places up to them.                    *)
LEMMA UptoIncreases ==
  ASSUME NEW n \in Nat, NEW places, \A j \in places : j \in 1 .. n, NEW i \in places, NEW k \in Int, k < i
  PROVE  Upto(places, k) < Upto(places, i) /\ Upto(places, i) \in 1 .. Cardinality(places)
  <1> DEFINE S == {j \in places : j <= i}
             T == {j \in places : j <= k}
  <1>0. \A j \in places : j \in Int
    OBVIOUS
  <1>1. IsFiniteSet(S)
    BY UptoType, FS_Subset
  <1>2. T \subseteq S /\ i \in S /\ i \notin T
    BY <1>0
  <1>3. Cardinality(T) <= Cardinality(S) /\ Cardinality(T) # Cardinality(S)
    BY <1>1, <1>2, FS_Subset
  <1>4. Upto(places, k) \in Nat /\ Upto(places, i) \in 0 .. Cardinality(places)
        /\ Cardinality(places) \in Nat
    <2>1. i \in Int
      OBVIOUS
    <2>2. Upto(places, k) \in 0 .. Cardinality(places) /\ Upto(places, i) \in 0 .. Cardinality(places)
          /\ Cardinality(places) \in Nat
      BY <2>1, UptoType
    <2> QED
      BY <2>2
  <1> QED
    BY <1>3, <1>4 DEF Upto

(* No two places have as many up to them.                                   *)
LEMMA UptoOneToOne ==
  ASSUME NEW n \in Nat, NEW places, \A j \in places : j \in 1 .. n, NEW i \in places, NEW j \in places
  PROVE  /\ i \in 1 .. n /\ Upto(places, i) \in 1 .. Cardinality(places)
         /\ Upto(places, i) = Upto(places, j) => i = j
  <1>1. i \in Int /\ j \in Int /\ i - 1 \in Int /\ j - 1 \in Int /\ i \in 1 .. n
    OBVIOUS
  <1>2. Upto(places, i) \in 1 .. Cardinality(places) /\ Upto(places, j) \in 1 .. Cardinality(places)
    <2>1. i - 1 < i /\ j - 1 < j
      BY <1>1
    <2> QED
      BY <1>1, <2>1, UptoIncreases
  <1>3. i < j => Upto(places, i) < Upto(places, j)
    BY <1>1, UptoIncreases
  <1>4. j < i => Upto(places, j) < Upto(places, i)
    BY <1>1, UptoIncreases
  <1> QED
    BY <1>1, <1>2, <1>3, <1>4

(* Every number up to that of the places is reached.                        *)
LEMMA UptoOntoAll ==
  ASSUME NEW n \in Nat, NEW places, \A j \in places : j \in 1 .. n, NEW k \in 1 .. Cardinality(places)
  PROVE  \E i \in places : Upto(places, i) = k
  <1> DEFINE m == Cardinality(places)
             f == [i \in places |-> Upto(places, i)]
  <1>1. m \in Nat /\ IsFiniteSet(places)
    BY UptoType
  <1>3. \A i \in places : Upto(places, i) \in 1 .. m
    BY UptoOneToOne
  <1>4. \A i, j \in places : f[i] = f[j] => i = j
    BY UptoOneToOne
  <1>5. f \in [places -> 1 .. m]
    BY <1>3
  <1>6. f \in Injection(places, 1 .. m)
    BY <1>4, <1>5 DEF Injection, IsInjective
  <1>7. IsFiniteSet(1 .. m) /\ Cardinality(1 .. m) = m
    BY <1>1, FS_Interval
  <1>8. f \in Surjection(places, 1 .. m)
    BY <1>6, <1>7, <1>1, FS_Injection
  <1> QED
    BY <1>8 DEF Surjection

(* What is picked is the elements at the places, each where it counts.      *)
LEMMA PickedByPlace ==
  ASSUME NEW seq, NEW places, Places(places)
  PROVE  LET picked == Picked(seq, places) IN
         /\ DOMAIN picked = 1 .. Cardinality(places) /\ Cardinality(places) \in Nat
         /\ \A i \in places :
              Upto(places, i) \in 1 .. Cardinality(places) /\ picked[Upto(places, i)] = seq[i]
         /\ \A k \in 1 .. Cardinality(places) :
              \E i \in places : Upto(places, i) = k /\ picked[k] = seq[i]
  <1> DEFINE picked == Picked(seq, places)
             m == Cardinality(places)
             At(k) == CHOOSE i \in places : Upto(places, i) = k
  <1>0. PICK n \in Nat : \A j \in places : j \in 1 .. n
    BY DEF Places
  <1>1. m \in Nat
    BY <1>0, UptoType
  <1>2. picked = [k \in 1 .. m |-> seq[At(k)]]
    BY DEF Picked, Upto
  <1>4. \A i \in places : Upto(places, i) \in 1 .. m
    BY <1>0, UptoOneToOne
  <1>5. \A i, j \in places : Upto(places, i) = Upto(places, j) => i = j
    BY <1>0, UptoOneToOne
  <1>6. \A k \in 1 .. m : At(k) \in places /\ Upto(places, At(k)) = k
    BY <1>0, UptoOntoAll
  <1>7. \A i \in places : At(Upto(places, i)) = i
    BY <1>4, <1>5, <1>6
  <1> HIDE DEF At
  <1>8. DOMAIN picked = 1 .. m
    BY <1>2
  <1>9. \A i \in places : picked[Upto(places, i)] = seq[i]
    BY <1>2, <1>4, <1>7
  <1>10. \A k \in 1 .. m : picked[k] = seq[At(k)]
    BY <1>2
  <1> HIDE DEF picked
  <1> QED
    BY <1>1, <1>4, <1>6, <1>8, <1>9, <1>10 DEF picked

(* What is picked is a sequence of what was there.                          *)
LEMMA PickedIsSeq ==
  ASSUME NEW S, NEW seq, NEW places, Places(places), \A j \in places : seq[j] \in S
  PROVE  Picked(seq, places) \in Seq(S) /\ Len(Picked(seq, places)) = Cardinality(places)
  <1> DEFINE picked == Picked(seq, places)
             m == Cardinality(places)
  <1>0. /\ m \in Nat /\ DOMAIN picked = 1 .. m
        /\ \A k \in 1 .. m : \E i \in places : picked[k] = seq[i]
    BY PickedByPlace
  <1>1. m \in Nat /\ DOMAIN picked = 1 .. m /\ \A k \in 1 .. m : picked[k] \in S
    BY <1>0
  <1>2. picked = [k \in 1 .. m |-> picked[k]]
    <2>1. picked = [k \in DOMAIN picked |-> picked[k]]
      BY DEF Picked
    <2> QED
      BY <1>1, <2>1
  <1> HIDE DEF picked, m
  <1>3. picked \in Seq(S)
    BY <1>1, <1>2, IsASeq
  <1>4. Len(picked) = m
    BY <1>1, <1>3, LenProperties
  <1> QED
    BY <1>3, <1>4 DEF picked, m

(* The places of numbers keep their order.                                  *)
LEMMA UptoInOrder ==
  ASSUME NEW n \in Nat, NEW places, \A j \in places : j \in 1 .. n,
         NEW i \in places, NEW j \in places
  PROVE  Upto(places, j) <= Upto(places, i) <=> j <= i
  <1>1. /\ i \in 1 .. n /\ Upto(places, i) \in 1 .. Cardinality(places) /\ Cardinality(places) \in Nat
        /\ j \in 1 .. n /\ Upto(places, j) \in 1 .. Cardinality(places)
        /\ IsFiniteSet(places)
    BY UptoOneToOne, UptoType
  <1>2. ASSUME NEW x \in places, NEW y \in places, x \in Int, y \in Int, x <= y
        PROVE  Upto(places, x) <= Upto(places, y)
    <2> DEFINE A == {k \in places : k <= x}
               B == {k \in places : k <= y}
    <2>1. \A k \in places : k \in Int
      OBVIOUS
    <2>2. \A k \in Int : k <= x => k <= y
      BY <1>2
    <2>3. A \subseteq B /\ IsFiniteSet(B)
      BY <1>1, <2>1, <2>2, FS_Subset
    <2> QED
      BY <2>3, FS_Subset DEF Upto
  <1>3. Upto(places, i) = Upto(places, j) => i = j
    BY UptoOneToOne
  <1>4. Upto(places, i) \in Int /\ Upto(places, j) \in Int /\ i \in Int /\ j \in Int
    BY <1>1
  <1>5. j <= i => Upto(places, j) <= Upto(places, i)
    BY <1>2, <1>4
  <1>6. i <= j => Upto(places, i) <= Upto(places, j)
    BY <1>2, <1>4
  <1> DEFINE u == Upto(places, i)
             v == Upto(places, j)
  <1> HIDE DEF u, v
  <1> QED
    BY <1>3, <1>4, <1>5, <1>6 DEF u, v

-----------------------------------------------------------------------------
(* FlattenSeq: the function it is defined by exists, and is built up one    *)
(* sequence at a time.                                                      *)

Chained(f, ss, m) == f[1] = ss[1] /\ \A i \in 1 .. m - 1 : f[i + 1] = f[i] \o ss[i + 1]

(* Sequences can be concatenated one after the other.                       *)
LEMMA ChainExists ==
  ASSUME NEW S, NEW ss \in Seq(Seq(S)), ss # <<>>
  PROVE  \E f \in [1 .. Len(ss) -> Seq(S)] : Chained(f, ss, Len(ss))
  <1> DEFINE n == Len(ss)
             good == {m \in Nat : m = 0 \/ \E f \in [1 .. m -> Seq(S)] : Chained(f, ss, m)}
  <1>1. n \in Nat /\ n # 0 /\ \A i \in 1 .. n : ss[i] \in Seq(S)
    BY EmptySeq
  <1>2. ASSUME NEW m \in 0 .. n - 1, m \in good
        PROVE  m + 1 \in good
    <2>1. CASE m = 0
      <3> DEFINE f == [i \in 1 .. 1 |-> ss[1]]
      <3>1. f \in [1 .. 1 -> Seq(S)] /\ Chained(f, ss, 1)
        BY <1>1 DEF Chained
      <3> QED
        BY <2>1, <3>1
    <2>2. CASE m # 0
      <3>1. PICK g \in [1 .. m -> Seq(S)] : Chained(g, ss, m)
        BY <1>2, <2>2
      <3> DEFINE f == [i \in 1 .. m + 1 |-> IF i = m + 1 THEN g[m] \o ss[m + 1] ELSE g[i]]
      <3>2. m \in 1 .. m /\ m + 1 \in 1 .. n /\ m \in Nat
        BY <1>1, <1>2, <2>2
      <3>3. g[m] \o ss[m + 1] \in Seq(S)
        BY <1>1, <3>1, <3>2
      <3>4. f \in [1 .. m + 1 -> Seq(S)]
        BY <3>1, <3>2, <3>3
      <3>5. f[1] = ss[1]
        BY <3>1, <3>2 DEF Chained
      <3>6. ASSUME NEW i \in 1 .. (m + 1) - 1
            PROVE  f[i + 1] = f[i] \o ss[i + 1]
        <4>1. CASE i = m
          <5>1. f[m + 1] = g[m] \o ss[m + 1]
            BY <3>2
          <5>2. m # m + 1 /\ m \in 1 .. m + 1
            BY <3>2
          <5>3. f[m] = g[m]
            BY <5>2
          <5> QED
            BY <4>1, <5>1, <5>3
        <4>2. CASE i # m
          <5>1. /\ i \in 1 .. m - 1 /\ i \in 1 .. m + 1 /\ i + 1 \in 1 .. m + 1
                /\ i # m + 1 /\ i + 1 # m + 1
            BY <3>2, <4>2
          <5>2. f[i] = g[i] /\ f[i + 1] = g[i + 1]
            BY <5>1
          <5>3. g[i + 1] = g[i] \o ss[i + 1]
            BY <3>1, <5>1 DEF Chained
          <5> QED
            BY <5>2, <5>3
        <4> QED
          BY <4>1, <4>2
      <3> HIDE DEF f
      <3>7. Chained(f, ss, m + 1)
        BY <3>5, <3>6 DEF Chained
      <3> QED
        BY <3>2, <3>4, <3>7
    <2> QED
      BY <2>1, <2>2
  <1>3. 0 \in good
    OBVIOUS
  <1> HIDE DEF good
  <1>4. n \in good
    <2>1. \A m \in 0 .. n : m \in good
      BY <1>1, <1>2, <1>3, CountingUp
    <2> QED
      BY <1>1, <2>1
  <1> QED
    BY <1>1, <1>4 DEF good

(* FlattenSeq is the last of the concatenations.                            *)
LEMMA FlattenChain ==
  ASSUME NEW S, NEW ss \in Seq(Seq(S)), ss # <<>>
  PROVE  \E f \in [1 .. Len(ss) -> Seq(S)] :
           Chained(f, ss, Len(ss)) /\ FlattenSeq(ss) = f[Len(ss)]
  <1> DEFINE n == Len(ss)
             Step(f) == [i \in 1 .. n |-> IF i = 1 THEN ss[i] ELSE f[i - 1] \o ss[i]]
  <1>1. n \in Nat /\ n # 0 /\ \A i \in 1 .. n : ss[i] \in Seq(S)
    BY EmptySeq
  <1>2. PICK g \in [1 .. n -> Seq(S)] : Chained(g, ss, n)
    BY ChainExists
  <1>3. g = Step(g)
    <2>1. \A i \in 1 .. n : g[i] = IF i = 1 THEN ss[i] ELSE g[i - 1] \o ss[i]
      <3> SUFFICES ASSUME NEW i \in 1 .. n, i # 1
                   PROVE  g[i] = g[i - 1] \o ss[i]
        BY <1>2 DEF Chained
      <3>1. i - 1 \in 1 .. n - 1 /\ (i - 1) + 1 = i
        BY <1>1
      <3> QED
        BY <1>2, <3>1 DEF Chained
    <2> QED
      BY <1>2, <2>1
  <1>4. \E f : f = Step(f) /\ FlattenSeq(ss) = f[n]
    BY <1>1, <1>3, Zenon DEF FlattenSeq
  <1>5. PICK f : f = Step(f) /\ FlattenSeq(ss) = f[n]
    BY <1>4
  <1>6. \A i \in 1 .. n : f[i] = IF i = 1 THEN ss[i] ELSE f[i - 1] \o ss[i]
    <2>1. \A i \in 1 .. n : f[i] = Step(f)[i]
      BY <1>5, Zenon
    <2> QED
      BY <2>1
  <1>7. f[1] = ss[1] /\ \A i \in 1 .. n - 1 : f[i + 1] = f[i] \o ss[i + 1]
    <2>1. 1 \in 1 .. n /\ \A i \in 1 .. n - 1 : i + 1 \in 1 .. n /\ i + 1 # 1 /\ (i + 1) - 1 = i
      BY <1>1
    <2> QED
      BY <1>6, <2>1
  <1>8. \A m \in 0 .. n : m \in {k \in Nat : k = 0 \/ f[k] = g[k]}
    <2> DEFINE same == {k \in Nat : k = 0 \/ f[k] = g[k]}
    <2>1. 0 \in same
      OBVIOUS
    <2>2. ASSUME NEW m \in 0 .. n - 1, m \in same
          PROVE  m + 1 \in same
      <3>1. CASE m = 0
        BY <1>2, <1>7, <3>1 DEF Chained
      <3>2. CASE m # 0
        <4>1. m \in 1 .. n - 1 /\ f[m] = g[m] /\ m + 1 \in Nat
          BY <1>1, <2>2, <3>2
        <4> QED
          BY <1>2, <1>7, <4>1 DEF Chained
      <3> QED
        BY <3>1, <3>2
    <2> HIDE DEF same
    <2>3. \A m \in 0 .. n : m \in same
      BY <1>1, <2>1, <2>2, CountingUp
    <2> QED
      BY <2>3 DEF same
  <1>9. n \in 0 .. n
    BY <1>1
  <1>10. f[n] = g[n]
    BY <1>1, <1>8, <1>9
  <1> QED
    BY <1>2, <1>5, <1>10

(* What a flattened sequence is made of.                                    *)
LEMMA FlattenElements ==
  ASSUME NEW S, NEW ss \in Seq(Seq(S))
  PROVE  /\ FlattenSeq(ss) \in Seq(S)
         /\ \A c \in 1 .. Len(ss) : \A i \in 1 .. Len(ss[c]) :
              \E k \in 1 .. Len(FlattenSeq(ss)) : FlattenSeq(ss)[k] = ss[c][i]
  <1> DEFINE n == Len(ss)
  <1>1. CASE ss = <<>>
    <2>1. FlattenSeq(ss) = <<>> /\ n = 0
      BY <1>1, EmptySeq DEF FlattenSeq
    <2> QED
      BY <2>1, EmptySeq
  <1>2. CASE ss # <<>>
    <2>1. PICK f \in [1 .. n -> Seq(S)] : Chained(f, ss, n) /\ FlattenSeq(ss) = f[n]
      BY <1>2, FlattenChain
    <2>2. n \in Nat /\ n # 0 /\ \A i \in 1 .. n : ss[i] \in Seq(S)
      BY <1>2, EmptySeq
    <2> DEFINE Has(m) == \A c \in 1 .. m : \A i \in 1 .. Len(ss[c]) :
                 \E k \in 1 .. Len(f[m]) : f[m][k] = ss[c][i]
               good == {m \in Nat : m = 0 \/ Has(m)}
    <2>3. 0 \in good
      OBVIOUS
    <2>4. ASSUME NEW m \in 0 .. n - 1, m \in good
          PROVE  m + 1 \in good
      <3>1. m + 1 \in 1 .. n /\ m \in Nat /\ m + 1 \in Nat
        BY <2>2
      <3> SUFFICES ASSUME NEW c \in 1 .. m + 1, NEW i \in 1 .. Len(ss[c])
                   PROVE  \E k \in 1 .. Len(f[m + 1]) : f[m + 1][k] = ss[c][i]
        BY <3>1
      <3>2. CASE m = 0
        <4>1. f[1] = ss[1] /\ c = 1
          BY <2>1, <3>2 DEF Chained
        <4> QED
          BY <3>2, <4>1
      <3>3. CASE m # 0
        <4>0. Has(m)
          BY <2>4, <3>3
        <4> HIDE DEF Has
        <4>1. m \in 1 .. n - 1 /\ m \in 1 .. n /\ Has(m)
          BY <2>2, <3>3, <4>0
        <4>2. f[m + 1] = f[m] \o ss[m + 1] /\ f[m] \in Seq(S) /\ ss[m + 1] \in Seq(S)
          BY <2>1, <2>2, <3>1, <4>1 DEF Chained
        <4>3. CASE c = m + 1
          <5> DEFINE k == Len(f[m]) + i
          <5>1. Len(f[m]) \in Nat /\ Len(ss[m + 1]) \in Nat /\ i \in 1 .. Len(ss[m + 1])
            BY <4>2, <4>3, LenProperties
          <5>2. k \in 1 .. Len(f[m]) + Len(ss[m + 1]) /\ ~(k <= Len(f[m])) /\ k - Len(f[m]) = i
            <6>1. \A a, b \in Nat : \A x \in 1 .. b :
                    a + x \in 1 .. a + b /\ ~(a + x <= a) /\ (a + x) - a = x
              OBVIOUS
            <6> HIDE DEF Chained
            <6> QED
              BY <5>1, <6>1
          <5> HIDE DEF k
          <5>3. Len(f[m + 1]) = Len(f[m]) + Len(ss[m + 1]) /\ f[m + 1][k] = ss[m + 1][k - Len(f[m])]
            BY <4>2, <5>1, <5>2, ConcatProperties
          <5> QED
            BY <4>3, <5>2, <5>3
        <4>4. CASE c # m + 1
          <5>1. c \in 1 .. m
            BY <3>1, <4>4
          <5>2. PICK k \in 1 .. Len(f[m]) : f[m][k] = ss[c][i]
            BY <4>1, <5>1 DEF Has
          <5>3. Len(f[m]) \in Nat /\ Len(ss[m + 1]) \in Nat
            BY <4>2, LenProperties
          <5>4. k \in 1 .. Len(f[m]) + Len(ss[m + 1]) /\ k <= Len(f[m])
            <6>1. \A a, b \in Nat : \A x \in 1 .. a : x \in 1 .. a + b /\ x <= a
              OBVIOUS
            <6> QED
              BY <5>3, <6>1
          <5>5. Len(f[m + 1]) = Len(f[m]) + Len(ss[m + 1]) /\ f[m + 1][k] = f[m][k]
            BY <4>2, <5>3, <5>4, ConcatProperties
          <5> QED
            BY <5>2, <5>4, <5>5
        <4> QED
          BY <4>3, <4>4
      <3> QED
        BY <3>2, <3>3
    <2> HIDE DEF good
    <2>5. \A m \in 0 .. n : m \in good
      BY <2>2, <2>3, <2>4, CountingUp
    <2>6. n \in good
      BY <2>2, <2>5
    <2>7. Has(n)
      BY <2>2, <2>6 DEF good
    <2>8. f[n] \in Seq(S)
      BY <2>1, <2>2
    <2> QED
      BY <2>1, <2>7, <2>8
  <1> QED
    BY <1>1, <1>2

-----------------------------------------------------------------------------
(* Analysis: a batch of games, each as if it were alone.                    *)

(* analyzeGames keeps a FEN once, and finds it again.                       *)
LEMMA DistinctHasAll ==
  ASSUME NEW S, NEW s \in Seq(S), NEW k \in 1 .. Len(s)
  PROVE  LET fens == Distinct(s) IN
         /\ DOMAIN fens = 1 .. Len(fens)
         /\ FenIndex(fens, s[k]) \in DOMAIN fens
         /\ fens[FenIndex(fens, s[k])] = s[k]
  <1> DEFINE places == {i \in DOMAIN s : \A j \in 1 .. i - 1 : s[j] # s[i]}
             same == {i \in DOMAIN s : s[i] = s[k]}
             fens == Distinct(s)
             found == {i \in 1 .. Len(fens) : fens[i] = s[k]}
  <1>1. Len(s) \in Nat /\ DOMAIN s = 1 .. Len(s) /\ \A i \in 1 .. Len(s) : s[i] \in S
    BY LenProperties
  <1>2. fens = Picked(s, places) /\ Places(places) /\ \A j \in places : s[j] \in S
    BY <1>1 DEF Distinct, Places
  <1> HIDE DEF fens
  <1>3. fens \in Seq(S) /\ Len(fens) = Cardinality(places)
    BY <1>1, <1>2, PickedIsSeq
  <1>4. DOMAIN fens = 1 .. Len(fens) /\ Len(fens) \in Nat
    BY <1>3, LenProperties
  <1>5. \E i \in places : s[i] = s[k]
    <2>1. same \subseteq Nat /\ same # {}
      BY <1>1
    <2>2. Min(same) \in same /\ \A i \in same : Min(same) <= i
      BY <2>1, LeastOf
    <2>3. PICK i \in same : \A j \in same : i <= j
      BY <2>2
    <2>4. \A j \in 1 .. i - 1 : j \in DOMAIN s /\ ~(i <= j)
      BY <1>1
    <2>5. i \in places
      BY <2>3, <2>4
    <2> QED
      BY <2>5
  <1>6. found \subseteq Nat /\ found # {}
    <2>1. PICK i \in places : s[i] = s[k]
      BY <1>5
    <2>2. Upto(places, i) \in 1 .. Cardinality(places) /\ Picked(s, places)[Upto(places, i)] = s[i]
      BY <1>1, <1>2, PickedByPlace
    <2>3. Upto(places, i) \in found
      BY <1>2, <1>3, <2>1, <2>2
    <2> QED
      BY <2>3
  <1>7. FenIndex(fens, s[k]) = Min(found)
    BY <1>6 DEF FenIndex, SelectInSeq
  <1>8. Min(found) \in found
    BY <1>6, LeastOf
  <1> QED
    BY <1>4, <1>7, <1>8 DEF fens

(* GameCollector: the moves of a game are the first of those its text has,  *)
(* the positions the first of those it passes through.                      *)
Said(toks) == Picked(toks, {k \in DOMAIN toks : toks[k] # "result"})

(* So a game has a position before and after each of its moves.             *)
LEMMA ParseLegal ==
  ASSUME NEW engine, NEW pgn, LegalPgn(pgn, engine)
  PROVE  LET game == Parse(pgn)
         IN
         /\ game.plies \in Seq(Tokens) /\ game.fens \in Seq(Fens)
         /\ Len(game.fens) = Len(game.plies) + 1
         /\ Len(game.fens) <= Len(pgn.fens)
         /\ \A i \in 1 .. Len(game.fens) : game.fens[i] = pgn.fens[i]
         /\ \A k \in DOMAIN game.plies : game.plies[k] = Said(pgn.toks)[k]
  <1> DEFINE toks == pgn.toks
             game == Parse(pgn)
             bad == SelectInSeq(toks, LAMBDA t : t = "bad")
             read == {i \in DOMAIN toks : (bad # 0 => i < bad) /\ toks[i] # "result"}
             all == {k \in DOMAIN toks : toks[k] # "result"}
             T == Tokens
  <1>1. /\ toks \in Seq(T) /\ pgn.fens \in Seq(Fens) /\ Len(toks) < Len(pgn.fens)
        /\ Len(toks) \in Nat /\ Len(pgn.fens) \in Nat /\ DOMAIN toks = 1 .. Len(toks)
        /\ \A i \in 1 .. Len(toks) : toks[i] \in T
    BY LenProperties DEF LegalPgn
  <1>2. Read(toks) = Picked(toks, read)
    BY DEF Read
  <1>a. bad \in Nat
    <2> DEFINE I == {i \in 1 .. Len(toks) : toks[i] = "bad"}
    <2>1. bad = IF I # {} THEN Min(I) ELSE 0
      BY DEF SelectInSeq
    <2>2. I # {} => Min(I) \in I
      <3>1. I \subseteq Nat
        OBVIOUS
      <3> QED
        BY <3>1, LeastOf
    <2> QED
      BY <2>1, <2>2
  <1> HIDE DEF bad
  <1>3. /\ \A i \in read : i \in 1 .. Len(toks) /\ toks[i] \in T
        /\ Places(read) /\ Places(all)
    BY <1>1 DEF Places
  <1>4. /\ Picked(toks, read) \in Seq(T)
        /\ Len(Picked(toks, read)) = Cardinality(read) /\ Cardinality(read) \in Nat
        /\ Cardinality(read) <= Len(toks)
    <2>1. Picked(toks, read) \in Seq(T) /\ Len(Picked(toks, read)) = Cardinality(read)
      BY <1>1, <1>3, PickedIsSeq
    <2>2. IsFiniteSet(1 .. Len(toks)) /\ Cardinality(1 .. Len(toks)) = Len(toks)
      <3> DEFINE n == Len(toks)
      <3>1. n \in Int /\ 1 \in Int /\ n \in Nat
        BY <1>1
      <3> HIDE DEF n
      <3>2. IsFiniteSet(1 .. n) /\ Cardinality(1 .. n) = n
        BY <3>1, FS_Interval
      <3> QED
        BY <3>2 DEF n
    <2>3. read \subseteq 1 .. Len(toks)
      BY <1>3
    <2>4. Cardinality(read) <= Len(toks)
      BY <2>2, <2>3, FS_Subset
    <2>5. Cardinality(read) \in Nat
      BY <2>1, LenProperties
    <2> QED
      BY <2>1, <2>4, <2>5
  <1>5. \A k \in 1 .. Cardinality(read) : Picked(toks, read)[k] = Picked(toks, all)[k]
    <2> SUFFICES ASSUME NEW k \in 1 .. Cardinality(read)
                 PROVE  Picked(toks, read)[k] = Picked(toks, all)[k]
      OBVIOUS
    <2>1. PICK i \in read : Upto(read, i) = k /\ Picked(toks, read)[k] = toks[i]
      <3> HIDE DEF read, toks
      <3> QED
        BY <1>3, PickedByPlace
    <2>2. i \in all /\ i \in Nat
      BY <1>1
    <2>3. \A j \in all : j <= i => j \in read
      BY <1>1, <1>a
    <2>4. {j \in read : j <= i} = {j \in all : j <= i}
      BY <2>3
    <2>5. Upto(all, i) = k
      BY <2>1, <2>4 DEF Upto
    <2>6. Picked(toks, all)[Upto(all, i)] = toks[i]
      BY <1>3, <2>2, PickedByPlace
    <2> QED
      BY <2>1, <2>5, <2>6
  <1> HIDE DEF read, all
  <1>6. /\ game.plies \in Seq(T) /\ Len(game.plies) \in Nat /\ Len(game.plies) <= Len(toks)
        /\ \A k \in DOMAIN game.plies : game.plies[k] = Picked(toks, all)[k]
    <2>1. CASE pgn.standard
      <3>1. game.plies = Picked(toks, read)
        BY <1>2, <2>1 DEF Parse
      <3>2. DOMAIN Picked(toks, read) = 1 .. Cardinality(read)
        BY <1>4, LenProperties
      <3> QED
        BY <1>4, <1>5, <3>1, <3>2
    <2>2. CASE ~pgn.standard
      <3>1. game.plies = <<>>
        BY <2>2 DEF Parse
      <3> QED
        BY <1>1, <3>1, EmptySeq
    <2> QED
      BY <2>1, <2>2
  <1>7. game.fens = SubSeq(pgn.fens, 1, Len(game.plies) + 1)
    BY DEF Parse
  <1> HIDE DEF game
  <1>8. /\ game.fens \in Seq(Fens) /\ Len(game.fens) = Len(game.plies) + 1
        /\ \A i \in 1 .. Len(game.plies) + 1 : game.fens[i] = pgn.fens[i]
    <2> DEFINE m == Len(game.plies) + 1
    <2>1. m \in 1 .. Len(pgn.fens)
      BY <1>1, <1>6
    <2> HIDE DEF m
    <2>2. SubSeq(pgn.fens, 1, m) \in Seq(Fens) /\ Len(SubSeq(pgn.fens, 1, m)) = m
          /\ \A i \in 1 .. m : SubSeq(pgn.fens, 1, m)[i] = pgn.fens[i]
      <3>1. m \in 1 .. Len(pgn.fens) + 1 /\ 1 \in 1 .. Len(pgn.fens) + 1
        BY <1>1, <2>1
      <3> QED
        BY <1>1, <2>1, <3>1
    <2> QED
      BY <1>7, <2>2 DEF m
  <1>9. Len(game.fens) <= Len(pgn.fens)
    BY <1>1, <1>6, <1>8
  <1>10. Said(toks) = Picked(toks, all)
    BY DEF Said, all
  <1> HIDE DEF toks
  <1> QED
    BY <1>6, <1>8, <1>9, <1>10 DEF game, toks

(* analyzeGames: which PGNs yield a game, and what it says of one.          *)

Kept(pgns) == {i \in DOMAIN pgns : Parse(pgns[i]).plies # <<>>}
Judged(game, engine) ==
  [i \in DOMAIN game.plies |->
    MoveAnalysis(game.fens[i], game.plies[i], PositionEval(engine, game.fens[i]),
                 PositionEval(engine, game.fens[i + 1]), i - 1)]

(* Sharing the evaluations changes nothing: every position is found with    *)
(* the evaluation it would have been given by itself.                       *)
LEMMA BatchJudged ==
  ASSUME NEW engine, NEW pgns, LegalBatch(pgns, engine)
  PROVE  LET out == AnalyzeGames(pgns, engine)
             kept == Kept(pgns)
         IN
         /\ \A i \in kept : i \in 1 .. Len(pgns)
         /\ Len(pgns) \in Nat /\ Cardinality(kept) \in Nat
         /\ DOMAIN out = 1 .. Cardinality(kept)
         /\ out = [g \in DOMAIN out |-> out[g]]
         /\ \A g \in DOMAIN out : \E i \in kept :
              Upto(kept, i) = g /\ out[g] = Judged(Parse(pgns[i]), engine)
         /\ \A i \in kept : /\ Upto(kept, i) \in DOMAIN out
                            /\ out[Upto(kept, i)] = Judged(Parse(pgns[i]), engine)
  <1> DEFINE out == AnalyzeGames(pgns, engine)
             kept == Kept(pgns)
             n == Len(pgns)
             parsed == [i \in DOMAIN pgns |-> Parse(pgns[i])]
             games == ParsePgns(pgns)
             texts == [g \in DOMAIN games |-> games[g].fens]
             flat == FlattenSeq(texts)
             fens == Distinct(flat)
             evals == [i \in DOMAIN fens |-> PositionEval(engine, fens[i])]
             m == Cardinality(kept)
  <1>1. n \in Nat /\ DOMAIN pgns = 1 .. n /\ \A i \in 1 .. n : LegalPgn(pgns[i], engine)
    BY DEF LegalBatch
  <1>2. games = Picked(parsed, kept)
    BY DEF ParsePgns, Kept
  <1>3. \A i \in kept : i \in 1 .. n /\ parsed[i] = Parse(pgns[i])
    BY <1>1 DEF Kept
  <1>4. /\ DOMAIN games = 1 .. m /\ m \in Nat
        /\ \A i \in kept : Upto(kept, i) \in 1 .. m /\ games[Upto(kept, i)] = parsed[i]
        /\ \A k \in 1 .. m : \E i \in kept : Upto(kept, i) = k /\ games[k] = parsed[i]
    <2>1. Places(kept)
      BY <1>1, <1>3 DEF Places
    <2> HIDE DEF kept, parsed, games
    <2> QED
      BY <1>2, <2>1, PickedByPlace
  <1> HIDE DEF games, parsed
  <1>5. \A k \in 1 .. m : /\ games[k].fens \in Seq(Fens) /\ games[k].plies \in Seq(Tokens)
                          /\ Len(games[k].fens) = Len(games[k].plies) + 1
    <2> SUFFICES ASSUME NEW k \in 1 .. m
                 PROVE  /\ games[k].fens \in Seq(Fens) /\ games[k].plies \in Seq(Tokens)
                        /\ Len(games[k].fens) = Len(games[k].plies) + 1
      OBVIOUS
    <2>1. PICK i \in kept : games[k] = Parse(pgns[i]) /\ LegalPgn(pgns[i], engine)
      BY <1>1, <1>3, <1>4
    <2> QED
      BY <2>1, ParseLegal
  <1>6. texts \in Seq(Seq(Fens)) /\ Len(texts) = m
    <2>1. texts = [k \in 1 .. m |-> games[k].fens]
      BY <1>4
    <2>2. \A k \in 1 .. m : games[k].fens \in Seq(Fens)
      BY <1>5
    <2> HIDE DEF texts, m
    <2>3. texts \in Seq(Seq(Fens))
      BY <1>4, <2>1, <2>2, IsASeq
    <2>4. Len(texts) = m
      BY <1>4, <2>1, <2>3, LenProperties
    <2> QED
      BY <2>3, <2>4
  <1>7. \A k \in 1 .. m : \A i \in 1 .. Len(games[k].fens) :
          LET f == games[k].fens[i]
          IN evals[FenIndex(fens, f)] = PositionEval(engine, f)
    <2> SUFFICES ASSUME NEW k \in 1 .. m, NEW i \in 1 .. Len(games[k].fens)
                 PROVE  evals[FenIndex(fens, games[k].fens[i])] = PositionEval(engine, games[k].fens[i])
      OBVIOUS
    <2>1. texts[k] = games[k].fens /\ k \in 1 .. Len(texts)
      BY <1>4, <1>6
    <2> HIDE DEF texts, fens
    <2>2. flat \in Seq(Fens)
      BY <1>6, FlattenElements
    <2>3. PICK x \in 1 .. Len(flat) : flat[x] = games[k].fens[i]
      <3>1. \A c \in 1 .. Len(texts) : \A y \in 1 .. Len(texts[c]) :
              \E x \in 1 .. Len(flat) : flat[x] = texts[c][y]
        BY <1>6, FlattenElements
      <3> QED
        BY <2>1, <3>1
    <2> HIDE DEF flat
    <2>4. FenIndex(fens, flat[x]) \in DOMAIN fens /\ fens[FenIndex(fens, flat[x])] = flat[x]
      BY <2>2, <2>3, DistinctHasAll DEF fens
    <2> QED
      BY <2>3, <2>4
  <1>8. out = [g \in DOMAIN games |->
                [i \in DOMAIN games[g].plies |->
                  MoveAnalysis(games[g].fens[i], games[g].plies[i],
                               evals[FenIndex(fens, games[g].fens[i])],
                               evals[FenIndex(fens, games[g].fens[i + 1])], i - 1)]]
    BY DEF AnalyzeGames, games
  <1> HIDE DEF out, evals, fens, texts, flat
  <1>9. \A g \in 1 .. m : out[g] = Judged(games[g], engine)
    <2> SUFFICES ASSUME NEW g \in 1 .. m PROVE out[g] = Judged(games[g], engine)
      OBVIOUS
    <2>1. \A i \in DOMAIN games[g].plies :
            i \in 1 .. Len(games[g].fens) /\ i + 1 \in 1 .. Len(games[g].fens)
      <3>1. /\ DOMAIN games[g].plies = 1 .. Len(games[g].plies) /\ Len(games[g].plies) \in Nat
            /\ Len(games[g].fens) = Len(games[g].plies) + 1
        BY <1>5, LenProperties
      <3> QED
        BY <3>1
    <2>2. \A i \in DOMAIN games[g].plies :
            /\ evals[FenIndex(fens, games[g].fens[i])] = PositionEval(engine, games[g].fens[i])
            /\ evals[FenIndex(fens, games[g].fens[i + 1])] = PositionEval(engine, games[g].fens[i + 1])
      BY <1>7, <2>1
    <2>3. out[g] = [i \in DOMAIN games[g].plies |->
                     MoveAnalysis(games[g].fens[i], games[g].plies[i],
                                  evals[FenIndex(fens, games[g].fens[i])],
                                  evals[FenIndex(fens, games[g].fens[i + 1])], i - 1)]
      BY <1>4, <1>8
    <2> QED
      BY <2>2, <2>3 DEF Judged
  <1>10. DOMAIN out = 1 .. m /\ out = [g \in DOMAIN out |-> out[g]]
    BY <1>4, <1>8
  <1>11. \A g \in 1 .. m : \E i \in kept :
           Upto(kept, i) = g /\ out[g] = Judged(Parse(pgns[i]), engine)
    BY <1>3, <1>4, <1>9
  <1>12. \A i \in kept : Upto(kept, i) \in 1 .. m /\ out[Upto(kept, i)] = Judged(Parse(pgns[i]), engine)
    BY <1>3, <1>4, <1>9
  <1>13. (\A i \in kept : i \in 1 .. n) /\ n \in Nat /\ m \in Nat
    BY <1>1, <1>3, <1>4
  <1> HIDE DEF kept, m
  <1> QED
    BY <1>10, <1>11, <1>12, <1>13 DEF kept, m, out

(* A game has one analysis for each of its moves.                           *)
LEMMA JudgedIsSeq ==
  ASSUME NEW engine, NEW pgn, LegalPgn(pgn, engine)
  PROVE  LET game == Parse(pgn)
             judged == Judged(game, engine)
         IN /\ DOMAIN judged = DOMAIN game.plies /\ DOMAIN game.plies = 1 .. Len(game.plies)
            /\ Len(judged) = Len(game.plies) /\ Len(game.plies) \in Nat
            /\ judged = <<>> <=> game.plies = <<>>
            /\ \A i \in DOMAIN game.plies :
                 /\ i \in 1 .. Len(game.fens) /\ i + 1 \in 1 .. Len(game.fens)
                 /\ judged[i] = MoveAnalysis(game.fens[i], game.plies[i],
                                  PositionEval(engine, game.fens[i]),
                                  PositionEval(engine, game.fens[i + 1]), i - 1)
  <1> DEFINE game == Parse(pgn)
             judged == Judged(game, engine)
             k == Len(game.plies)
  <1>1. /\ k \in Nat /\ DOMAIN game.plies = 1 .. k
        /\ Len(game.fens) = k + 1 /\ game.plies \in Seq(Tokens)
    BY ParseLegal, LenProperties
  <1>2. judged = [i \in 1 .. k |-> judged[i]]
    BY <1>1 DEF Judged
  <1>3. judged \in Seq({judged[i] : i \in 1 .. k})
    <2> DEFINE S == {judged[i] : i \in 1 .. k}
    <2>1. \A i \in 1 .. k : judged[i] \in S
      OBVIOUS
    <2> HIDE DEF judged, S, k
    <2> QED
      BY <1>1, <1>2, <2>1, IsASeq
  <1>4. Len(judged) = k /\ DOMAIN judged = 1 .. k
    <2> HIDE DEF judged, k
    <2> QED
      BY <1>1, <1>2, <1>3, LenProperties
  <1>5. judged = <<>> <=> k = 0
    <2> HIDE DEF judged, k
    <2> QED
      BY <1>1, <1>3, <1>4, EmptySeq
  <1>6. game.plies = <<>> <=> k = 0
    BY <1>1, EmptySeq
  <1>7. \A i \in 1 .. k : i \in 1 .. Len(game.fens) /\ i + 1 \in 1 .. Len(game.fens)
    BY <1>1
  <1>8. \A i \in 1 .. k :
          judged[i] = MoveAnalysis(game.fens[i], game.plies[i],
                        PositionEval(engine, game.fens[i]),
                        PositionEval(engine, game.fens[i + 1]), i - 1)
    BY <1>1 DEF Judged
  <1> HIDE DEF game, judged, k
  <1> QED
    BY <1>1, <1>4, <1>5, <1>6, <1>7, <1>8 DEF game, judged, k

(* A game by itself.                                                        *)
LEMMA AloneJudged ==
  ASSUME NEW engine, NEW pgn, LegalPgn(pgn, engine)
  PROVE  AnalyzeGames(<<pgn>>, engine) =
           IF Parse(pgn).plies = <<>> THEN <<>> ELSE <<Judged(Parse(pgn), engine)>>
  <1> DEFINE pgns == <<pgn>>
             out == AnalyzeGames(pgns, engine)
             kept == Kept(pgns)
             judged == Judged(Parse(pgn), engine)
  <1>1. LegalBatch(pgns, engine) /\ pgns[1] = pgn /\ DOMAIN pgns = {1}
    BY DEF LegalBatch
  <1>2. /\ DOMAIN out = 1 .. Cardinality(kept)
        /\ out = [g \in DOMAIN out |-> out[g]]
        /\ \A i \in kept : out[Upto(kept, i)] = Judged(Parse(pgns[i]), engine)
    <2> HIDE DEF pgns
    <2> QED
      BY <1>1, BatchJudged
  <1>3. kept = IF Parse(pgn).plies = <<>> THEN {} ELSE {1}
    BY <1>1 DEF Kept
  <1> HIDE DEF out, kept, judged
  <1>4. CASE Parse(pgn).plies = <<>>
    <2>1. Cardinality(kept) = 0
      BY <1>3, <1>4, FS_EmptySet
    <2>2. DOMAIN out = {}
      BY <1>2, <2>1
    <2>3. out = <<>>
      BY <1>2, <2>2
    <2> QED
      BY <1>4, <2>3 DEF out
  <1>5. CASE Parse(pgn).plies # <<>>
    <2>1. kept = {1} /\ Cardinality({1}) = 1
      BY <1>3, <1>5, FS_Singleton
    <2>2. {j \in {1} : j <= 1} = {1}
      OBVIOUS
    <2>3. Upto(kept, 1) = 1
      BY <2>1, <2>2 DEF Upto
    <2>4. out[1] = judged /\ DOMAIN out = {1}
      BY <1>1, <1>2, <2>1, <2>3 DEF judged
    <2>5. out = [g \in 1 .. 1 |-> judged]
      <3>1. DOMAIN out = 1 .. 1
        BY <2>4
      <3>2. \A g \in 1 .. 1 : out[g] = judged
        BY <2>4
      <3>3. out = [g \in 1 .. 1 |-> out[g]]
        BY <1>2, <3>1
      <3> QED
        BY <3>2, <3>3
    <2>6. out = <<judged>>
      BY <2>5
    <2> QED
      BY <1>5, <2>6 DEF out, judged
  <1> QED
    BY <1>4, <1>5

(* What the games of a batch yield by themselves, one after the other.      *)
LEMMA AllAlone ==
  ASSUME NEW engine, NEW pgns, LegalBatch(pgns, engine)
  PROVE  AnalyzeGames(pgns, engine) =
           FlattenSeq([i \in DOMAIN pgns |-> AnalyzeGames(<<pgns[i]>>, engine)])
  <1> DEFINE n == Len(pgns)
             out == AnalyzeGames(pgns, engine)
             kept == Kept(pgns)
             J(i) == Judged(Parse(pgns[i]), engine)
             S == {J(i) : i \in kept}
             ss == [i \in DOMAIN pgns |-> AnalyzeGames(<<pgns[i]>>, engine)]
             m == Cardinality(kept)
  <1>1. n \in Nat /\ DOMAIN pgns = 1 .. n /\ \A i \in 1 .. n : LegalPgn(pgns[i], engine)
    BY BatchJudged DEF LegalBatch
  <1>2. /\ DOMAIN out = 1 .. m /\ m \in Nat
        /\ out = [g \in DOMAIN out |-> out[g]]
        /\ \A g \in 1 .. m : \E i \in kept : Upto(kept, i) = g /\ out[g] = J(i)
        /\ \A i \in kept : i \in 1 .. n
    <2>1. /\ DOMAIN out = 1 .. m /\ m \in Nat
          /\ out = [g \in DOMAIN out |-> out[g]]
          /\ \A i \in kept : i \in 1 .. n
      BY BatchJudged
    <2>2. \A g \in DOMAIN out : \E i \in kept :
            Upto(kept, i) = g /\ out[g] = Judged(Parse(pgns[i]), engine)
      BY BatchJudged
    <2> HIDE DEF out, kept, m
    <2> QED
      BY <2>1, <2>2
  <1>3. \A i \in 1 .. n : /\ i \in kept => ss[i] = <<J(i)>>
                          /\ i \notin kept => ss[i] = <<>>
    BY <1>1, AloneJudged DEF Kept
  <1>4. \A i \in 1 .. n : ss[i] \in Seq(S)
    <2> SUFFICES ASSUME NEW i \in 1 .. n PROVE ss[i] \in Seq(S)
      OBVIOUS
    <2>1. CASE i \in kept
      <3>1. J(i) \in S
        BY <2>1
      <3>2. ss[i] = <<J(i)>>
        BY <1>3, <2>1
      <3>3. \A x \in S : <<x>> \in Seq(S)
        OBVIOUS
      <3> HIDE DEF J, S, ss, kept
      <3> QED
        BY <3>1, <3>2, <3>3
    <2>2. CASE i \notin kept
      BY <1>3, <2>2, EmptySeq
    <2> QED
      BY <2>1, <2>2
  <1>5. ss = [i \in 1 .. n |-> ss[i]]
    BY <1>1
  <1> HIDE DEF out, kept, J, S, ss, n, m
  <1>6. ss \in Seq(Seq(S)) /\ Len(ss) = n
    <2>1. ss \in Seq(Seq(S))
      BY <1>1, <1>4, <1>5, IsASeq
    <2>2. DOMAIN ss = 1 .. n
      BY <1>5
    <2> QED
      BY <1>1, <2>1, <2>2, LenProperties
  <1>7. CASE n = 0
    <2>1. ss = <<>>
      BY <1>6, <1>7, EmptySeq
    <2>2. FlattenSeq(ss) = <<>>
      BY <2>1 DEF FlattenSeq
    <2>3. kept = {}
      BY <1>2, <1>7
    <2>4. m = 0
      BY <2>3, FS_EmptySet DEF m
    <2>5. DOMAIN out = {}
      BY <1>2, <2>4
    <2>6. out = <<>>
      BY <1>2, <2>5
    <2> QED
      BY <2>2, <2>6 DEF out, ss
  <1>8. CASE n # 0
    <2>1. ss # <<>>
      BY <1>6, <1>8, EmptySeq
    <2>2. PICK f \in [1 .. n -> Seq(S)] : Chained(f, ss, n) /\ FlattenSeq(ss) = f[n]
      BY <1>6, <2>1, FlattenChain
    <2> DEFINE Has(c) == /\ Len(f[c]) = Upto(kept, c)
                         /\ \A i \in kept : i <= c => f[c][Upto(kept, i)] = J(i)
               good == {c \in Nat : c = 0 \/ Has(c)}
    <2>3. ASSUME NEW c \in 1 .. n, c = 1 \/ Has(c - 1),
                 f[c] = IF c = 1 THEN ss[1] ELSE f[c - 1] \o ss[c]
          PROVE  Has(c)
      <3> DEFINE u == Upto(kept, c - 1)
                 before == IF c = 1 THEN <<>> ELSE f[c - 1]
      <3>0. /\ \A i \in kept : i \in 1 .. n /\ i \in Int
            /\ c - 1 \in Int /\ c \in Int /\ c \in 1 .. n
        BY <1>1, <1>2
      <3>1. u \in Nat /\ (c = 1 => u = 0)
        <4>1. u \in 0 .. Cardinality(kept) /\ (c - 1 < 1 => u = 0) /\ Cardinality(kept) \in Nat
          BY <1>1, <3>0, UptoType
        <4> QED
          BY <4>1
      <3>2. before \in Seq(S) /\ Len(before) = u
            /\ \A i \in kept : i <= c - 1 => before[Upto(kept, i)] = J(i)
        <4>1. CASE c = 1
          BY <3>0, <3>1, <4>1, EmptySeq
        <4>2. CASE c # 1
          <5>1. c - 1 \in 1 .. n /\ before = f[c - 1]
            BY <1>1, <4>2
          <5> QED
            BY <2>2, <2>3, <4>2, <5>1
        <4> QED
          BY <4>1, <4>2
      <3>3. f[c] = before \o ss[c]
        <4>1. ss[c] \in Seq(S)
          BY <1>4
        <4> QED
          BY <2>3, <4>1, ConcatEmptySeq
      <3>4. \A i \in kept : i <= c - 1 => Upto(kept, i) \in 1 .. u
        <4> SUFFICES ASSUME NEW i \in kept, i <= c - 1 PROVE Upto(kept, i) \in 1 .. u
          OBVIOUS
        <4>1. i \in Int /\ Upto(kept, i) \in 1 .. Cardinality(kept)
          BY <1>1, <3>0, UptoOneToOne
        <4>2. Upto(kept, i) <= u
          <5> DEFINE A == {j \in kept : j <= i}
                     B == {j \in kept : j <= c - 1}
          <5>0. \A j \in Int : j <= i => j <= c - 1
            BY <3>0, <4>1
          <5>1. A \subseteq B
            BY <3>0, <5>0
          <5>2. IsFiniteSet(kept)
            BY <1>1, <3>0, UptoType
          <5>3. IsFiniteSet(B)
            BY <5>2, FS_Subset
          <5> QED
            BY <5>1, <5>3, FS_Subset DEF Upto
        <4> QED
          BY <3>1, <4>1, <4>2
      <3> HIDE DEF before, u
      <3>5. CASE c \in kept
        <4>1. ss[c] = <<J(c)>> /\ Upto(kept, c) = u + 1
          BY <1>1, <1>3, <3>0, <3>5, UptoStep DEF u
        <4>2. f[c] = Append(before, J(c))
          BY <3>2, <3>3, <4>1
        <4>3. J(c) \in S
          BY <3>5 DEF S
        <4>4. /\ Len(f[c]) = u + 1 /\ f[c][u + 1] = J(c)
              /\ \A x \in 1 .. u : f[c][x] = before[x]
          BY <3>2, <4>2, <4>3, AppendProperties
        <4>5. \A i \in kept : i <= c => i = c \/ i <= c - 1
          BY <3>0
        <4>6. ASSUME NEW i \in kept, i <= c
              PROVE  f[c][Upto(kept, i)] = J(i)
          BY <3>2, <3>4, <4>1, <4>4, <4>5, <4>6
        <4> QED
          BY <4>1, <4>4, <4>6
      <3>6. CASE c \notin kept
        <4>1. ss[c] = <<>> /\ Upto(kept, c) = u
          BY <1>1, <1>3, <3>0, <3>6, UptoStep DEF u
        <4>2. f[c] = before
          BY <3>2, <3>3, <4>1, ConcatEmptySeq
        <4>3. \A i \in kept : i <= c => i <= c - 1
          BY <3>0, <3>6
        <4> QED
          BY <3>2, <4>1, <4>2, <4>3
      <3> QED
        BY <3>5, <3>6
    <2>4. ASSUME NEW c \in 0 .. n - 1, c \in good
          PROVE  c + 1 \in good
      <3>1. c + 1 \in 1 .. n /\ c \in Nat /\ c + 1 \in Nat /\ (c + 1) - 1 = c
        BY <1>1
      <3>2. c = 0 \/ Has(c)
        BY <2>4
      <3>3. f[c + 1] = IF c + 1 = 1 THEN ss[1] ELSE f[c] \o ss[c + 1]
        <4>1. CASE c = 0
          <5>1. f[1] = ss[1] /\ c + 1 = 1
            BY <2>2, <4>1 DEF Chained
          <5> QED
            BY <5>1
        <4>2. CASE c # 0
          <5>1. c \in 1 .. n - 1 /\ c + 1 # 1
            BY <1>1, <4>2
          <5> QED
            BY <2>2, <5>1 DEF Chained
        <4> QED
          BY <4>1, <4>2
      <3> HIDE DEF Has
      <3>4. c + 1 = 1 \/ Has((c + 1) - 1)
        <4>1. CASE c = 0
          BY <4>1
        <4>2. CASE Has(c)
          BY <3>1, <4>2
        <4> QED
          BY <3>2, <4>1, <4>2
      <3>5. f[c + 1] = IF c + 1 = 1 THEN ss[1] ELSE f[(c + 1) - 1] \o ss[c + 1]
        BY <3>1, <3>3
      <3>6. Has(c + 1)
        BY <2>3, <3>1, <3>4, <3>5
      <3> QED
        BY <3>1, <3>6
    <2>5. 0 \in good
      OBVIOUS
    <2> HIDE DEF good
    <2>6. \A c \in 0 .. n : c \in good
      BY <1>1, <2>4, <2>5, CountingUp
    <2>7. n \in good
      BY <1>1, <2>6
    <2>8. Has(n)
      BY <1>8, <2>7 DEF good
    <2>9. Upto(kept, n) = m
      <3>1. \A i \in kept : i \in 1 .. n
        BY <1>2
      <3>2. n \in Int /\ n >= n
        BY <1>1
      <3> QED
        BY <1>1, <3>1, <3>2, UptoType DEF m
    <2>10. f[n] \in Seq(S) /\ Len(f[n]) = m
      BY <1>1, <1>8, <2>2, <2>8, <2>9
    <2>11. f[n] = [g \in 1 .. m |-> f[n][g]]
      BY <2>10
    <2>12. \A g \in 1 .. m : f[n][g] = out[g]
      <3> SUFFICES ASSUME NEW g \in 1 .. m PROVE f[n][g] = out[g]
        OBVIOUS
      <3>1. PICK i \in kept : Upto(kept, i) = g /\ out[g] = J(i)
        BY <1>2
      <3>2. i <= n
        BY <1>1, <1>2
      <3> QED
        BY <2>8, <3>1, <3>2
    <2>13. f[n] = out
      BY <1>2, <2>11, <2>12
    <2> QED
      BY <2>2, <2>13 DEF out, ss
  <1> QED
    BY <1>7, <1>8

(* What the analysis of a move says.                                        *)
LEMMA MoveFields ==
  ASSUME NEW fen, NEW uci, NEW before, NEW after, NEW ply
  PROVE  LET m == MoveAnalysis(fen, uci, before, after, ply) IN
         /\ m.fen = fen /\ m.uci = uci
         /\ m.best_eval = WhitePov(before[1], fen.white)
         /\ m.eval = WhitePov(-after[1], fen.white)
         /\ m.delta = DeltaCp(before[1], after[1])
         /\ m.severity = ClassifySeverity(m.delta, m.best_eval, Sharpness(before))
  BY DEF MoveAnalysis

(* analyzeGames: a batch yields what its games would yield alone, one after *)
(* the other; the evaluation after a move is the next one's before it; and  *)
(* the moves are those of the text.                                         *)
THEOREM AsIfAlone ==
  ASSUME NEW engine, NEW pgns, LegalBatch(pgns, engine)
  PROVE  BatchAsIfAlone(pgns, engine)
  <1> DEFINE out == AnalyzeGames(pgns, engine)
             kept == Kept(pgns)
  <1>1. \A i \in DOMAIN pgns : LegalPgn(pgns[i], engine)
    BY DEF LegalBatch
  <1>2. out = FlattenSeq([i \in DOMAIN pgns |-> AnalyzeGames(<<pgns[i]>>, engine)])
    BY AllAlone
  <1>3. ASSUME NEW g \in DOMAIN out, NEW i \in 1 .. Len(out[g]) - 1
        PROVE  out[g][i].eval = out[g][i + 1].best_eval
    <2>1. PICK p \in DOMAIN pgns : out[g] = Judged(Parse(pgns[p]), engine)
      BY BatchJudged DEF Kept
    <2> DEFINE game == Parse(pgns[p])
               judged == Judged(game, engine)
               V(j) == PositionEval(engine, game.fens[j])[1]
    <2>2. LegalPgn(pgns[p], engine)
      BY <1>1
    <2>3. /\ DOMAIN game.plies = 1 .. Len(judged) /\ Len(judged) \in Nat
          /\ Len(game.fens) = Len(game.plies) + 1 /\ Len(judged) = Len(game.plies)
          /\ \A j \in DOMAIN game.plies :
               judged[j] = MoveAnalysis(game.fens[j], game.plies[j],
                             PositionEval(engine, game.fens[j]),
                             PositionEval(engine, game.fens[j + 1]), j - 1)
          /\ \A j \in 1 .. Len(game.fens) : game.fens[j] = pgns[p].fens[j]
          /\ Len(game.fens) <= Len(pgns[p].fens)
      BY <2>2, ParseLegal, JudgedIsSeq
    <2>4. i \in 1 .. Len(judged) /\ i + 1 \in 1 .. Len(judged)
      BY <2>1, <2>3
    <2>5. /\ out[g][i].eval = WhitePov(-V(i + 1), game.fens[i].white)
          /\ out[g][i + 1].best_eval = WhitePov(V(i + 1), game.fens[i + 1].white)
      <3> HIDE DEF game, judged
      <3>1. /\ judged[i] = MoveAnalysis(game.fens[i], game.plies[i],
                             PositionEval(engine, game.fens[i]),
                             PositionEval(engine, game.fens[i + 1]), i - 1)
            /\ judged[i + 1] = MoveAnalysis(game.fens[i + 1], game.plies[i + 1],
                             PositionEval(engine, game.fens[i + 1]),
                             PositionEval(engine, game.fens[(i + 1) + 1]), (i + 1) - 1)
        BY <2>3, <2>4
      <3>2. out[g] = judged
        BY <2>1 DEF judged, game
      <3> QED
        BY <3>1, <3>2, MoveFields
    <2>6. /\ Len(pgns[p].fens) \in Nat /\ DOMAIN pgns[p].fens = 1 .. Len(pgns[p].fens)
          /\ \A j \in 1 .. Len(pgns[p].fens) :
               pgns[p].fens[j].white \in BOOLEAN /\ Answered(engine, pgns[p].fens[j])
          /\ \A j \in 1 .. Len(pgns[p].fens) - 1 : pgns[p].fens[j + 1].white = ~pgns[p].fens[j].white
      <3>1. pgns[p].fens \in Seq(Fens)
        BY <2>2 DEF LegalPgn
      <3>2. \A j \in 1 .. Len(pgns[p].fens) : pgns[p].fens[j] \in Fens
        BY <3>1
      <3>3. \A f \in Fens : f.white \in BOOLEAN
        BY DEF Fens
      <3> QED
        BY <2>2, <3>1, <3>2, <3>3, LenProperties DEF LegalPgn
    <2> HIDE DEF game, judged, V
    <2>7. i \in 1 .. Len(game.fens) /\ i + 1 \in 1 .. Len(game.fens)
          /\ i \in 1 .. Len(pgns[p].fens) - 1 /\ i \in 1 .. Len(pgns[p].fens)
          /\ i + 1 \in 1 .. Len(pgns[p].fens)
      BY <2>3, <2>4, <2>6
    <2>8. game.fens[i] = pgns[p].fens[i] /\ game.fens[i + 1] = pgns[p].fens[i + 1]
      BY <2>3, <2>7
    <2>9. game.fens[i + 1].white = ~game.fens[i].white /\ game.fens[i].white \in BOOLEAN
          /\ Answered(engine, game.fens[i + 1])
      BY <2>6, <2>7, <2>8
    <2>10. V(i + 1) \in Int
      BY <2>9 DEF Answered, Scored, V, Evaluations
    <2>11. ASSUME NEW v \in Int, NEW w \in BOOLEAN PROVE WhitePov(-v, w) = WhitePov(v, ~w)
      <3>1. CASE w
        BY <3>1 DEF WhitePov
      <3>2. CASE ~w
        BY <3>2 DEF WhitePov
      <3> QED
        BY <3>1, <3>2
    <2> QED
      BY <2>5, <2>9, <2>10, <2>11
  <1> DEFINE Alone(i) == AnalyzeGames(<<pgns[i]>>, engine)
  <1>4. ASSUME NEW i \in DOMAIN pgns, Alone(i) # <<>>, NEW k \in DOMAIN Alone(i)[1]
        PROVE  Alone(i)[1][k].uci = Said(pgns[i].toks)[k]
    <2> DEFINE game == Parse(pgns[i])
               judged == Judged(game, engine)
    <2>1. LegalPgn(pgns[i], engine)
      BY <1>1
    <2>2. Alone(i) = <<judged>>
      BY <1>4, <2>1, AloneJudged
    <2>3. k \in DOMAIN game.plies /\ game.plies[k] = Said(pgns[i].toks)[k]
          /\ judged[k] = MoveAnalysis(game.fens[k], game.plies[k],
                             PositionEval(engine, game.fens[k]),
                             PositionEval(engine, game.fens[k + 1]), k - 1)
      <3>1. k \in DOMAIN game.plies
        BY <2>1, <2>2, <1>4, JudgedIsSeq
      <3>2. game.plies[k] = Said(pgns[i].toks)[k]
        BY <2>1, <3>1, ParseLegal
      <3>3. judged[k] = MoveAnalysis(game.fens[k], game.plies[k],
                          PositionEval(engine, game.fens[k]),
                          PositionEval(engine, game.fens[k + 1]), k - 1)
        BY <2>1, <3>1, JudgedIsSeq
      <3> QED
        BY <3>1, <3>2, <3>3
    <2> HIDE DEF game, judged
    <2> QED
      BY <2>2, <2>3, MoveFields
  <1>5. \A g \in DOMAIN out : \A i \in 1 .. Len(out[g]) - 1 :
          out[g][i].eval = out[g][i + 1].best_eval
    BY <1>3
  <1>6. \A i \in DOMAIN pgns : Alone(i) # <<>> =>
          \A k \in DOMAIN Alone(i)[1] : Alone(i)[1][k].uci = Said(pgns[i].toks)[k]
    BY <1>4
  <1> QED
    BY <1>2, <1>5, <1>6 DEF BatchAsIfAlone, Said

-----------------------------------------------------------------------------
(* EngineAnalyzer: the game of one move, and the answers of a batch of them.*)

AnswerTo(p, engine) ==
  MoveAnalysis(p.fen, p.uci, PositionEval(engine, p.fen), PositionEval(engine, p.then), 0)

(* A question that can be read is a game of one move.                       *)
LEMMA CandidateJudged ==
  ASSUME NEW engine, NEW p, LegalAsk(p, engine)
  PROVE  LET pgn == CandidatePgn(p) IN
         /\ LegalPgn(pgn, engine)
         /\ p.legible => /\ Parse(pgn).plies # <<>>
                         /\ Judged(Parse(pgn), engine) = <<AnswerTo(p, engine)>>
         /\ ~p.legible => Parse(pgn).plies = <<>>
  <1> DEFINE tok == IF p.legible THEN p.uci ELSE "bad"
             toks == <<tok>>
             fens == <<p.fen, p.then>>
             pgn == CandidatePgn(p)
             bad == SelectInSeq(toks, LAMBDA t : t = "bad")
             read == {i \in DOMAIN toks : (bad # 0 => i < bad) /\ toks[i] # "result"}
             game == Parse(pgn)
  <1>1. /\ tok \in Tokens /\ tok # "result" /\ (tok = "bad" <=> ~p.legible)
        /\ p.fen \in Fens /\ p.then \in Fens
    <2>1. p.uci \in Movetext /\ p.uci # "bad" /\ p.uci # "result"
          /\ p.legible \in BOOLEAN
      BY DEF LegalAsk, Movetext
    <2>2. "bad" \in Tokens /\ "bad" # "result" /\ Movetext \subseteq Tokens
      BY DEF Tokens
    <2>3. CASE p.legible
      <3>1. tok = p.uci
        BY <2>3
      <3>2. p.uci \in Tokens /\ p.fen \in Fens /\ p.then \in Fens
        BY <2>1, <2>2 DEF LegalAsk
      <3> HIDE DEF tok
      <3> QED
        BY <2>1, <2>3, <3>1, <3>2
    <2>4. CASE ~p.legible
      <3>1. tok = "bad"
        BY <2>4
      <3> QED
        BY <2>2, <2>4, <3>1 DEF LegalAsk
    <2> QED
      BY <2>1, <2>3, <2>4
  <1>2. pgn.standard = TRUE /\ pgn.toks = toks /\ pgn.fens = fens
    BY DEF CandidatePgn
  <1> HIDE DEF tok
  <1>3. Len(toks) = 1 /\ DOMAIN toks = {1} /\ toks[1] = tok
        /\ toks \in Seq(Tokens)
    BY <1>1
  <1>4. /\ Len(fens) = 2 /\ DOMAIN fens = {1, 2} /\ fens[1] = p.fen /\ fens[2] = p.then
        /\ fens \in Seq(Fens)
    BY <1>1
  <1>5. LegalPgn(pgn, engine)
    <2>1. \A i \in DOMAIN fens : Answered(engine, fens[i])
      BY <1>4 DEF LegalAsk
    <2>2. \A i \in 1 .. Len(fens) - 1 : fens[i + 1].white = ~fens[i].white
      <3>1. \A i \in 1 .. Len(fens) - 1 : i = 1 /\ i + 1 = 2
        BY <1>4
      <3>2. fens[2].white = ~fens[1].white
        BY <1>4 DEF LegalAsk
      <3> QED
        BY <3>1, <3>2
    <2>3. Len(toks) < Len(fens)
      BY <1>3, <1>4
    <2>4. toks \in Seq(Tokens) /\ fens \in Seq(Fens)
      BY <1>3, <1>4
    <2>5. pgn.standard \in BOOLEAN
      BY <1>2
    <2> HIDE DEF toks, fens, pgn
    <2> QED
      BY <1>2, <2>1, <2>2, <2>3, <2>4, <2>5 DEF LegalPgn
  <1>6. game.plies = Picked(toks, read)
    BY <1>2 DEF Parse, Read
  <1>7. /\ game.plies \in Seq(Tokens) /\ game.fens \in Seq(Fens)
        /\ Len(game.fens) = Len(game.plies) + 1
        /\ \A i \in 1 .. Len(game.fens) : game.fens[i] = fens[i]
    <2>1. LET g == Parse(pgn)
          IN /\ g.plies \in Seq(Tokens) /\ g.fens \in Seq(Fens)
             /\ Len(g.fens) = Len(g.plies) + 1
             /\ \A i \in 1 .. Len(g.fens) : g.fens[i] = pgn.fens[i]
      <3> HIDE DEF pgn
      <3> QED
        BY <1>5, ParseLegal
    <2> HIDE DEF fens, pgn
    <2> QED
      BY <1>2, <2>1
  <1>8. bad = IF tok = "bad" THEN 1 ELSE 0
    <2> DEFINE I == {i \in 1 .. Len(toks) : toks[i] = "bad"}
    <2>1. bad = IF I # {} THEN Min(I) ELSE 0
      BY DEF SelectInSeq
    <2>2. I = IF tok = "bad" THEN {1} ELSE {}
      BY <1>3
    <2>3. I # {} => Min(I) \in I
      <3>1. I \subseteq Nat
        OBVIOUS
      <3> QED
        BY <3>1, LeastOf
    <2> QED
      BY <2>1, <2>2, <2>3
  <1> HIDE DEF bad
  <1>9. read = IF p.legible THEN {1} ELSE {}
    BY <1>1, <1>3, <1>8
  <1>10. Len(game.plies) = Cardinality(read) /\ Places(read)
         /\ \A k \in 1 .. Cardinality(read) : \E i \in read : game.plies[k] = toks[i]
    <2>1. Places(read) /\ \A j \in read : toks[j] \in Tokens
      BY <1>1, <1>3, <1>9 DEF Places
    <2> HIDE DEF read, game, toks
    <2> QED
      BY <1>6, <2>1, PickedIsSeq, PickedByPlace
  <1>11. CASE p.legible
    <2>1. Cardinality(read) = 1
      BY <1>9, <1>11, FS_Singleton
    <2>2. Len(game.plies) = 1 /\ DOMAIN game.plies = {1} /\ game.plies[1] = p.uci
      BY <1>3, <1>7, <1>9, <1>10, <1>11, <2>1 DEF tok
    <2>3. game.fens[1] = p.fen /\ game.fens[1 + 1] = p.then
      BY <1>4, <1>7, <2>2
    <2>4. game.plies # <<>>
      BY <2>2
    <2> HIDE DEF game, pgn
    <2>5. Judged(game, engine) = [i \in {1} |-> AnswerTo(p, engine)]
      <3>1. Judged(game, engine) =
              [i \in {1} |->
                MoveAnalysis(game.fens[i], game.plies[i], PositionEval(engine, game.fens[i]),
                             PositionEval(engine, game.fens[i + 1]), i - 1)]
        BY <2>2 DEF Judged
      <3>2. \A i \in {1} :
              MoveAnalysis(game.fens[i], game.plies[i], PositionEval(engine, game.fens[i]),
                           PositionEval(engine, game.fens[i + 1]), i - 1) = AnswerTo(p, engine)
        BY <2>2, <2>3 DEF AnswerTo
      <3> QED
        BY <3>1, <3>2
    <2>6. Judged(game, engine) = <<AnswerTo(p, engine)>>
      <3>1. [i \in {1} |-> AnswerTo(p, engine)] = <<AnswerTo(p, engine)>>
        OBVIOUS
      <3> QED
        BY <2>5, <3>1
    <2> QED
      BY <1>5, <1>11, <2>4, <2>6 DEF game, pgn
  <1>12. CASE ~p.legible
    <2>1. Cardinality(read) = 0
      BY <1>9, <1>12, FS_EmptySet
    <2>2. game.plies = <<>>
      BY <1>7, <1>10, <2>1, EmptySeq
    <2> QED
      BY <1>5, <1>12, <2>2
  <1> QED
    BY <1>1, <1>11, <1>12 DEF LegalAsk

(* The games that answer a list of questions: one for each that can be      *)
(* read, in order.                                                          *)
Legible(positions) == {i \in DOMAIN positions : positions[i].legible}

(* The answers are those of the questions that can be read, in order.       *)
LEMMA AnswersInOrder ==
  ASSUME NEW engine, NEW positions, LegalQuestions(positions, engine)
  PROVE  LET games == AnalyzeGames([i \in DOMAIN positions |-> CandidatePgn(positions[i])], engine)
             legible == Legible(positions)
         IN
         /\ Len(positions) \in Nat /\ DOMAIN positions = 1 .. Len(positions)
         /\ \A i \in legible : i \in 1 .. Len(positions)
         /\ Cardinality(legible) \in Nat /\ DOMAIN games = 1 .. Cardinality(legible)
         /\ \A g \in DOMAIN games : \E i \in legible :
              Upto(legible, i) = g /\ games[g] = <<AnswerTo(positions[i], engine)>>
         /\ \A i \in legible : /\ Upto(legible, i) \in DOMAIN games
                               /\ games[Upto(legible, i)] = <<AnswerTo(positions[i], engine)>>
  <1> DEFINE pgns == [i \in DOMAIN positions |-> CandidatePgn(positions[i])]
             games == AnalyzeGames(pgns, engine)
             legible == Legible(positions)
             n == Len(positions)
  <1>1. DOMAIN positions = 1 .. n /\ \A i \in 1 .. n : LegalAsk(positions[i], engine)
    BY DEF LegalQuestions
  <1>2. DOMAIN pgns = 1 .. n /\ \A i \in 1 .. n : pgns[i] = CandidatePgn(positions[i])
    BY <1>1
  <1>3. \A i \in 1 .. n :
          /\ LegalPgn(pgns[i], engine)
          /\ positions[i].legible => /\ Parse(pgns[i]).plies # <<>>
                                     /\ Judged(Parse(pgns[i]), engine) = <<AnswerTo(positions[i], engine)>>
          /\ ~positions[i].legible => Parse(pgns[i]).plies = <<>>
    BY <1>1, <1>2, CandidateJudged
  <1>4. Len(pgns) = n
    <2>1. pgns = [i \in 1 .. n |-> pgns[i]]
      BY <1>2
    <2> QED
      BY <1>2
  <1>5. LegalBatch(pgns, engine) /\ Kept(pgns) = legible
    <2> HIDE DEF pgns, n
    <2> QED
      BY <1>1, <1>2, <1>3, <1>4 DEF LegalBatch, Kept, Legible
  <1> HIDE DEF pgns
  <1>6. /\ \A i \in legible : i \in 1 .. n
        /\ n \in Nat /\ Cardinality(legible) \in Nat
        /\ DOMAIN games = 1 .. Cardinality(legible)
        /\ \A g \in DOMAIN games : \E i \in legible :
             Upto(legible, i) = g /\ games[g] = Judged(Parse(pgns[i]), engine)
        /\ \A i \in legible : /\ Upto(legible, i) \in DOMAIN games
                              /\ games[Upto(legible, i)] = Judged(Parse(pgns[i]), engine)
    <2> HIDE DEF legible
    <2> QED
      BY <1>4, <1>5, BatchJudged
  <1>7. \A i \in legible : Judged(Parse(pgns[i]), engine) = <<AnswerTo(positions[i], engine)>>
    BY <1>1, <1>3 DEF Legible
  <1> HIDE DEF legible, games
  <1> QED
    BY <1>1, <1>6, <1>7 DEF legible, games, pgns

(* What is made of the answers: about the same move, and the position's own *)
(* if everything asked about that move up to it could be read.              *)
LEMMA AnswersAbout ==
  ASSUME NEW engine, NEW positions, LegalQuestions(positions, engine),
         NEW i \in DOMAIN positions
  PROVE  LET out == Analyze(positions, engine) IN
         /\ DOMAIN out = DOMAIN positions
         /\ out[i] # Nothing => out[i].uci = positions[i].uci
         /\ (\A j \in 1 .. i : positions[j].uci = positions[i].uci => positions[j].legible)
              => out[i] = AnswerTo(positions[i], engine)
  <1> DEFINE games == AnalyzeGames([k \in DOMAIN positions |-> CandidatePgn(positions[k])], engine)
             legible == Legible(positions)
             n == Len(positions)
             m == Cardinality(legible)
             u == positions[i].uci
             mine == {g \in DOMAIN games : games[g][1].uci = u}
             q == Picked(games, mine)
             turn == Cardinality({j \in 1 .. i : positions[j].uci = positions[i].uci})
             out == Analyze(positions, engine)
             A(k) == AnswerTo(positions[k], engine)
  <1>1. /\ n \in Nat /\ DOMAIN positions = 1 .. n /\ i \in 1 .. n
        /\ \A k \in legible : k \in 1 .. n
        /\ m \in Nat /\ DOMAIN games = 1 .. m
    BY AnswersInOrder
  <1>2. /\ \A g \in 1 .. m : \E k \in legible : Upto(legible, k) = g /\ games[g] = <<A(k)>>
        /\ \A k \in legible : Upto(legible, k) \in 1 .. m /\ games[Upto(legible, k)] = <<A(k)>>
    <2>1. \A g \in DOMAIN games : \E k \in legible : Upto(legible, k) = g /\ games[g] = <<A(k)>>
      BY AnswersInOrder
    <2>2. \A k \in legible : Upto(legible, k) \in DOMAIN games /\ games[Upto(legible, k)] = <<A(k)>>
      BY AnswersInOrder
    <2> HIDE DEF games, legible, A, m
    <2> QED
      BY <1>1, <2>1, <2>2
  <1>3. \A k \in 1 .. n : A(k).uci = positions[k].uci
    BY MoveFields DEF AnswerTo
  <1>4. out[i] = IF turn <= Len(q) THEN q[turn][1] ELSE Nothing
    BY DEF Analyze, Match
  <1>5. DOMAIN out = DOMAIN positions
    BY DEF Analyze, Match
  <1> HIDE DEF games, legible, A, out, m
  <1>6. /\ \A k \in mine : k \in 1 .. m
        /\ IsFiniteSet(mine) /\ Cardinality(mine) \in Nat /\ Places(mine)
    <2>1. \A k \in mine : k \in 1 .. m
      BY <1>1
    <2>2. IsFiniteSet(mine) /\ Cardinality(mine) \in Nat
      <3> HIDE DEF mine
      <3>1. 1 \in Int
        OBVIOUS
      <3> QED
        BY <1>1, <2>1, <3>1, UptoType
    <2> QED
      BY <1>1, <2>1, <2>2 DEF Places
  <1>7. Len(q) = Cardinality(mine)
    <2> DEFINE S == {games[k] : k \in mine}
    <2>1. \A k \in mine : games[k] \in S
      OBVIOUS
    <2> HIDE DEF mine, S
    <2> QED
      BY <1>6, <2>1, PickedIsSeq
  <1>8. turn \in Nat \ {0}
    <2> DEFINE T == {j \in 1 .. i : positions[j].uci = positions[i].uci}
    <2>1. i \in T
      BY <1>1
    <2>2. IsFiniteSet(1 .. i)
      <3>1. i \in Int /\ 1 \in Int
        BY <1>1
      <3> QED
        BY <3>1, FS_Interval
    <2>3. T \subseteq 1 .. i
      OBVIOUS
    <2>4. IsFiniteSet(T)
      BY <2>2, <2>3, FS_Subset
    <2> HIDE DEF T
    <2>5. Cardinality(T) \in Nat /\ Cardinality(T) # 0
      BY <2>1, <2>4, FS_EmptySet, FS_CardinalityType
    <2> QED
      BY <2>5 DEF T
  <1> HIDE DEF q, turn, u
  <1>9. out[i] # Nothing => out[i].uci = u
    <2> SUFFICES ASSUME out[i] # Nothing PROVE out[i].uci = u
      OBVIOUS
    <2>1. turn \in 1 .. Cardinality(mine)
      BY <1>4, <1>6, <1>7, <1>8
    <2>2. PICK g \in mine : q[turn] = games[g]
      <3> HIDE DEF mine
      <3> QED
        BY <1>6, <2>1, PickedByPlace DEF q
    <2>3. out[i] = games[g][1]
      BY <1>4, <1>6, <1>7, <1>8, <2>1, <2>2
    <2> QED
      BY <2>2, <2>3
  <1>10. ASSUME \A j \in 1 .. i : positions[j].uci = u => positions[j].legible
         PROVE  out[i] = A(i)
    <2> DEFINE g == Upto(legible, i)
               X == {j \in 1 .. i : positions[j].uci = u}
               Y == {h \in mine : h <= g}
               f == [j \in X |-> Upto(legible, j)]
    <2>1. i \in legible /\ \A j \in X : j \in legible /\ j <= i /\ j \in 1 .. n
      BY <1>1, <1>10 DEF u, Legible, legible
    <2>2. g \in 1 .. m /\ games[g] = <<A(i)>>
      BY <1>2, <2>1
    <2>3. g \in mine
      BY <1>1, <1>3, <2>2 DEF u
    <2>4. \A j \in X : f[j] \in Y
      <3> SUFFICES ASSUME NEW j \in X PROVE Upto(legible, j) \in Y
        OBVIOUS
      <3>1. j \in legible /\ j <= i /\ positions[j].uci = u /\ j \in 1 .. n
        BY <2>1
      <3>2. Upto(legible, j) <= g
        BY <1>1, <2>1, <3>1, UptoInOrder
      <3>3. Upto(legible, j) \in 1 .. m /\ games[Upto(legible, j)] = <<A(j)>> /\ A(j).uci = u
        BY <1>2, <1>3, <3>1
      <3> QED
        BY <1>1, <3>2, <3>3
    <2>5. \A j, k \in X : f[j] = f[k] => j = k
      BY <1>1, <2>1, UptoOneToOne
    <2>6. \A h \in Y : \E j \in X : f[j] = h
      <3> SUFFICES ASSUME NEW h \in Y PROVE \E j \in X : f[j] = h
        OBVIOUS
      <3>1. PICK j \in legible : Upto(legible, j) = h /\ games[h] = <<A(j)>>
        BY <1>1, <1>2
      <3>2. j \in 1 .. n /\ positions[j].uci = u
        BY <1>1, <1>3, <3>1
      <3>3. j <= i
        BY <1>1, <2>1, <3>1, UptoInOrder
      <3>4. j \in X
        BY <1>1, <3>2, <3>3
      <3> QED
        BY <3>1, <3>4
    <2>7. ExistsBijection(X, Y)
      <3> HIDE DEF X, Y
      <3>1. f \in [X -> Y]
        BY <2>4
      <3>2. f \in Bijection(X, Y)
        BY <2>5, <2>6, <3>1 DEF Bijection, Injection, Surjection, IsInjective
      <3> QED
        BY <3>2 DEF ExistsBijection
    <2>8. IsFiniteSet(X)
      <3>1. i \in Int /\ 1 \in Int
        BY <1>1
      <3>2. IsFiniteSet(1 .. i) /\ X \subseteq 1 .. i
        BY <3>1, FS_Interval
      <3> QED
        BY <3>2, FS_Subset
    <2>9. Cardinality(Y) = Cardinality(X)
      BY <2>7, <2>8, FS_Bijection
    <2>10. Upto(mine, g) = turn
      BY <2>9 DEF Upto, turn, u
    <2>11. turn \in 1 .. Cardinality(mine) /\ q[turn] = games[g]
      <3>1. Upto(mine, g) \in 1 .. Cardinality(mine) /\ q[Upto(mine, g)] = games[g]
        <4> HIDE DEF mine, g
        <4> QED
          BY <1>6, <2>3, PickedByPlace DEF q
      <3> QED
        BY <2>10, <3>1
    <2> QED
      BY <1>4, <1>6, <1>7, <2>2, <2>11
  <1> HIDE DEF mine, n
  <1> QED
    BY <1>5, <1>9, <1>10 DEF u, out, A

(* Match: an answer is about the move asked about, and about the position   *)
(* too unless a question about that move, asked no later, was unreadable.   *)
THEOREM AnswersFit ==
  ASSUME NEW engine, NEW positions, LegalQuestions(positions, engine)
  PROVE  AnswersMatch(positions, engine)
  <1> DEFINE out == Analyze(positions, engine)
  <1> SUFFICES ASSUME NEW i \in DOMAIN positions
               PROVE  /\ out[i] # Nothing => out[i].uci = positions[i].uci
                      /\ \/ out[i] # Nothing /\ out[i].fen = positions[i].fen
                         \/ \E j \in 1 .. i : /\ ~positions[j].legible
                                              /\ positions[j].uci = positions[i].uci
    BY DEF AnswersMatch
  <1>1. out[i] # Nothing => out[i].uci = positions[i].uci
    BY AnswersAbout
  <1>2. ASSUME \A j \in 1 .. i : positions[j].uci = positions[i].uci => positions[j].legible
        PROVE  out[i] # Nothing /\ out[i].fen = positions[i].fen
    <2>1. out[i] = AnswerTo(positions[i], engine)
      BY <1>2, AnswersAbout
    <2>2. out[i].fen = positions[i].fen /\ out[i].uci = positions[i].uci
      BY <2>1, MoveFields DEF AnswerTo
    <2>3. positions[i].uci # Nothing.uci
      BY DEF LegalQuestions, LegalAsk, Movetext
    <2> QED
      BY <2>2, <2>3
  <1> QED
    BY <1>1, <1>2

-----------------------------------------------------------------------------
(* Analysis: the cheap pass against the verdict of the deep one.            *)

(* No evaluation is mistaken for a missing one.                             *)
LEMMA EvaluationIsNoNone ==
  ASSUME NEW v \in Evaluations, NEW w \in BOOLEAN
  PROVE  v \in Int /\ NoEval # WhitePov(v, w) /\ NoEval # WhitePov(-v, w)
  <1>1. v \in Int /\ -10000 <= v /\ v <= 10000 /\ NoEval = 20000
    BY DEF NoEval, Evaluations, MateScore
  <1>2. CASE w
    BY <1>1, <1>2 DEF WhitePov
  <1>3. CASE ~w
    BY <1>1, <1>3 DEF WhitePov
  <1> QED
    BY <1>2, <1>3

(* The sharpness of a position is an integer.                               *)
LEMMA SharpnessIsInt ==
  ASSUME NEW lines \in Seq(Int), lines # <<>>
  PROVE  Sharpness(lines) \in Int
  <1>1. Len(lines) \in Nat /\ Len(lines) >= 1 /\ \A i \in 1 .. Len(lines) : lines[i] \in Int
    BY EmptySeq
  <1> DEFINE third == IF Len(lines) >= 2 THEN lines[Least(Len(lines), 3)] ELSE lines[1]
  <1>2. third \in Int /\ lines[1] \in Int
    BY <1>1 DEF Least
  <1>3. Sharpness(lines) = Clamp(lines[1] - third, 0, SharpnessCap)
    BY DEF Sharpness
  <1>4. lines[1] - third \in Int
    BY <1>2
  <1> HIDE DEF third
  <1>5. Clamp(lines[1] - third, 0, SharpnessCap) \in 0 .. 800
    BY <1>4, ClampInRange
  <1> QED
    BY <1>3, <1>5

(* MoveAnalysis: what is judged a mistake or a blunder shows in the two     *)
(* evaluations, whatever they are and whoever moved: a hundred centipawns   *)
(* lost where nothing was decided.                                          *)
LEMMA MistakesShow ==
  ASSUME NEW fen, fen.white \in BOOLEAN, NEW uci, NEW ply,
         NEW before, Scored(before), NEW after, Scored(after)
  PROVE  LET m == MoveAnalysis(fen, uci, before, after, ply)
         IN m.severity \in {"mistake", "blunder"} =>
              /\ m.delta >= 100 /\ Abs(m.best_eval) <= DecidedEval
              /\ LossCp(m.best_eval, m.eval, fen.white) >= 100
              /\ NoEval # m.best_eval /\ NoEval # m.eval
  <1> DEFINE m == MoveAnalysis(fen, uci, before, after, ply)
             white == fen.white
             best == WhitePov(before[1], white)
             sharp == Sharpness(before)
             delta == DeltaCp(before[1], after[1])
  <1> SUFFICES ASSUME m.severity \in {"mistake", "blunder"}
               PROVE  /\ m.delta >= 100 /\ Abs(m.best_eval) <= DecidedEval
                      /\ LossCp(m.best_eval, m.eval, white) >= 100
                      /\ NoEval # m.best_eval /\ NoEval # m.eval
    OBVIOUS
  <1>1. /\ m.delta = delta /\ m.severity = ClassifySeverity(delta, best, sharp)
        /\ m.best_eval = best /\ m.eval = WhitePov(-after[1], white)
    BY DEF MoveAnalysis
  <1>2. before[1] \in Int /\ after[1] \in Int /\ sharp \in Int
    BY EvaluationIsNoNone, SharpnessIsInt DEF Scored
  <1>3. best \in Int /\ delta \in Int
    BY <1>2 DEF WhitePov, DeltaCp, Greatest
  <1>4. delta >= 100 /\ Abs(best) <= DecidedEval
    <2> HIDE DEF best, delta, sharp
    <2>1. MistakesCost(delta, best, sharp)
      BY <1>2, <1>3, Costs
    <2> QED
      BY <1>1, <2>1 DEF MistakesCost
  <1>5. NoEval # best /\ NoEval # WhitePov(-after[1], white)
    BY EvaluationIsNoNone DEF Scored
  <1>6. LossCp(best, WhitePov(-after[1], white), white) >= 100
    BY <1>2, <1>4 DEF LossCp, WhitePov, DeltaCp, Greatest
  <1> HIDE DEF m, best, delta, white
  <1> QED
    BY <1>1, <1>4, <1>5, <1>6

(* cheap_pass: such a move is a candidate already, if Lichess gives the     *)
(* evaluations the engine does; when it gives none, the scan's delta shows  *)
(* it.                                                                      *)
THEOREM CheapPassMissesNone ==
  ASSUME NEW moves, NEW exit, NEW p \in Asked(moves, exit), NEW uci,
         moves[p].fen.white \in BOOLEAN,
         NEW before \in Seq(Int), before # <<>>, before[1] \in Evaluations,
         NEW after \in Seq(Int), after # <<>>, after[1] \in Evaluations,
         NEW deep, deep = MoveAnalysis(moves[p].fen, uci, before, after, p - 1),
         deep.severity \in {"mistake", "blunder"}
  PROVE  /\ deep.delta >= 100
         /\ /\ EvalBefore(moves, p) = WhitePov(before[1], moves[p].fen.white)
            /\ moves[p].eval = WhitePov(-after[1], moves[p].fen.white)
            => p \in CheapPass(moves, exit)
  <1> DEFINE fen == moves[p].fen
             ply == p - 1
  <1>1. Scored(before) /\ Scored(after) /\ fen.white \in BOOLEAN
    BY DEF Scored
  <1>2. deep = MoveAnalysis(fen, uci, before, after, ply)
    OBVIOUS
  <1> HIDE DEF fen, ply
  <1>3. /\ deep.delta >= 100 /\ Abs(deep.best_eval) <= DecidedEval
        /\ LossCp(deep.best_eval, deep.eval, fen.white) >= 100
        /\ NoEval # deep.best_eval /\ NoEval # deep.eval
    BY <1>1, <1>2, MistakesShow
  <1>4. /\ deep.best_eval = WhitePov(before[1], fen.white)
        /\ deep.eval = WhitePov(-after[1], fen.white)
    BY <1>2 DEF MoveAnalysis
  <1> QED
    BY <1>3, <1>4 DEF CheapPass, Unscored, fen

(* An answer is no None.                                                    *)
LEMMA AnswersAreSomething ==
  ASSUME NEW engine, NEW p, LegalAsk(p, engine)
  PROVE  AnswerTo(p, engine) # Nothing
  <1>1. AnswerTo(p, engine).uci = p.uci
    BY MoveFields DEF AnswerTo
  <1>2. p.uci # Nothing.uci
    BY DEF LegalAsk, Movetext
  <1> QED
    BY <1>1, <1>2

(* scan_user_moves: every move that is scanned is judged by itself.         *)
LEMMA ScanFinds ==
  ASSUME NEW engine, NEW moves, LegalQuestions(moves, engine),
         \A p \in DOMAIN moves : moves[p].legible,
         NEW plies, plies \subseteq DOMAIN moves,
         NEW p \in plies, AnswerTo(moves[p], engine).delta >= 100
  PROVE  p \in ScanUserMoves(moves, plies, engine)
  <1> DEFINE all == [q \in DOMAIN moves |-> q]
             order == Picked(all, plies)
             asked == [i \in DOMAIN order |-> moves[order[i]]]
             results == Analyze(asked, engine)
             n == Cardinality(plies)
             k == Upto(plies, p)
  <1>1. DOMAIN moves = 1 .. Len(moves) /\ \A q \in DOMAIN moves : LegalAsk(moves[q], engine)
    BY DEF LegalQuestions
  <1>2. \A q \in plies : q \in 1 .. Len(moves) /\ all[q] = q /\ q \in DOMAIN moves
    BY <1>1
  <1>3. Places(plies)
    <2>1. CASE Len(moves) \in Nat
      BY <1>2, <2>1 DEF Places
    <2>2. CASE Len(moves) \notin Nat
      BY <1>2, <2>2 DEF LegalQuestions
    <2> QED
      BY <2>1, <2>2
  <1> HIDE DEF all
  <1>4. /\ DOMAIN order = 1 .. n /\ n \in Nat
        /\ k \in 1 .. n /\ order[k] = p
        /\ \A i \in 1 .. n : order[i] \in plies
    <2>1. DOMAIN order = 1 .. n /\ n \in Nat
      BY <1>3, PickedByPlace
    <2>2. k \in 1 .. n /\ order[k] = all[p]
      BY <1>3, PickedByPlace
    <2>3. \A i \in 1 .. n : \E q \in plies : order[i] = all[q]
      BY <1>3, PickedByPlace
    <2> HIDE DEF order, k, n
    <2> QED
      BY <1>2, <2>1, <2>2, <2>3
  <1> HIDE DEF order, k, n
  <1>5. /\ asked = [i \in 1 .. n |-> moves[order[i]]] /\ DOMAIN asked = 1 .. n
        /\ \A i \in 1 .. n : LegalAsk(asked[i], engine) /\ asked[i].legible
        /\ asked[k] = moves[p]
    BY <1>1, <1>2, <1>4
  <1>6. Len(asked) = n
    <2> HIDE DEF asked
    <2> QED
      BY <1>4, <1>5
  <1> HIDE DEF asked
  <1>7. LegalQuestions(asked, engine)
    BY <1>5, <1>6 DEF LegalQuestions
  <1>8. \A j \in 1 .. k : j \in 1 .. n
    BY <1>4
  <1>9. results[k] = AnswerTo(moves[p], engine)
    BY <1>4, <1>5, <1>7, <1>8, AnswersAbout
  <1>10. results[k] # Nothing
    BY <1>1, <1>2, <1>9, AnswersAreSomething
  <1>11. ScanUserMoves(moves, plies, engine) =
           {order[i] : i \in {j \in DOMAIN order : results[j] # Nothing /\ results[j].delta >= 100}}
    BY DEF ScanUserMoves, order, asked, all
  <1> QED
    BY <1>4, <1>9, <1>10, <1>11

(* find_candidates: whatever the deep pass would call a mistake or a        *)
(* blunder is looked at.                                                    *)
THEOREM CandidatesHoldAll ==
  ASSUME NEW engine, NEW moves, NEW exit, LegalGame(moves, exit, engine)
  PROVE  NoMistakeSlipsThrough(moves, exit, engine)
  <1> DEFINE at(f) == PositionEval(engine, f)
  <1> SUFFICES
        ASSUME \A p \in DOMAIN moves :
                 /\ moves[p].legible
                 /\ moves[p].eval \in {NoEval, WhitePov(at(moves[p].then)[1], moves[p].then.white)},
               NEW p \in Asked(moves, exit),
               Analyze(<<moves[p]>>, engine)[1].severity \in {"mistake", "blunder"},
               p = 1 => at(moves[1].fen)[1] = 0
        PROVE  p \in FindCandidates(moves, exit, engine)
    BY DEF NoMistakeSlipsThrough
  <1> DEFINE deep == Analyze(<<moves[p]>>, engine)[1]
             white == moves[p].fen.white
             before == at(moves[p].fen)
             after == at(moves[p].then)
  <1>1. /\ LegalQuestions(moves, engine) /\ DOMAIN moves = 1 .. Len(moves)
        /\ p \in DOMAIN moves
        /\ \A q \in DOMAIN moves : LegalAsk(moves[q], engine)
        /\ \A q \in DOMAIN moves : q + 1 \in DOMAIN moves => moves[q].then = moves[q + 1].fen
    BY DEF LegalGame, LegalQuestions, Asked
  <1>2. deep = AnswerTo(moves[p], engine)
    <2> DEFINE one == <<moves[p]>>
    <2>1. DOMAIN one = 1 .. Len(one) /\ DOMAIN one = {1} /\ one[1] = moves[p]
      OBVIOUS
    <2> HIDE DEF one
    <2>2. LegalQuestions(one, engine)
      BY <1>1, <2>1 DEF LegalQuestions
    <2>3. \A j \in 1 .. 1 : one[j].legible
      BY <1>1, <2>1
    <2>4. Analyze(one, engine)[1] = AnswerTo(one[1], engine)
      BY <2>1, <2>2, <2>3, AnswersAbout
    <2> QED
      BY <2>1, <2>4 DEF one
  <1>4. /\ Scored(before) /\ Scored(after)
        /\ white \in BOOLEAN /\ moves[p].then.white = ~white
    BY <1>1 DEF LegalAsk, Answered, Fens
  <1> HIDE DEF before, after
  <1>5. /\ deep.delta >= 100
        /\ /\ EvalBefore(moves, p) = WhitePov(before[1], white)
           /\ moves[p].eval = WhitePov(-after[1], white)
           => p \in CheapPass(moves, exit)
    <2>1. deep = MoveAnalysis(moves[p].fen, moves[p].uci, before, after, 0)
      BY <1>2 DEF AnswerTo, before, after
    <2>2. deep.severity \in {"mistake", "blunder"}
      OBVIOUS
    <2> HIDE DEF deep
    <2> DEFINE fen == moves[p].fen
               uci == moves[p].uci
    <2> HIDE DEF fen, uci, white
    <2>a. deep = MoveAnalysis(fen, uci, before, after, 0)
      BY <2>1 DEF fen, uci
    <2>b. fen.white \in BOOLEAN /\ fen.white = white
      BY <1>4 DEF fen, white
    <2>3. /\ deep.delta >= 100 /\ Abs(deep.best_eval) <= DecidedEval
          /\ LossCp(deep.best_eval, deep.eval, white) >= 100
          /\ NoEval # deep.best_eval /\ NoEval # deep.eval
      BY <1>4, <2>2, <2>a, <2>b, MistakesShow
    <2>4. deep.best_eval = WhitePov(before[1], white) /\ deep.eval = WhitePov(-after[1], white)
      BY <2>a, <2>b, MoveFields
    <2> QED
      BY <2>3, <2>4 DEF CheapPass, Unscored, white
  <1>6. CASE Unscored(moves, p)
    <2>1. p \in NeedsScan(moves, exit)
      BY <1>6 DEF NeedsScan
    <2>2. NeedsScan(moves, exit) \subseteq DOMAIN moves
      BY DEF NeedsScan, Asked
    <2>3. AnswerTo(moves[p], engine).delta >= 100
      BY <1>2, <1>5
    <2>4. p \in ScanUserMoves(moves, NeedsScan(moves, exit), engine)
      BY <1>1, <2>1, <2>2, <2>3, ScanFinds
    <2> QED
      BY <2>4 DEF FindCandidates
  <1>7. CASE ~Unscored(moves, p)
    <2>1. moves[p].eval # NoEval /\ EvalBefore(moves, p) # NoEval
      BY <1>7 DEF Unscored
    <2>2. before[1] \in Int /\ after[1] \in Int
      BY <1>4, EvaluationIsNoNone DEF Scored
    <2>3. moves[p].eval = WhitePov(-after[1], white)
      <3>1. moves[p].eval = WhitePov(after[1], ~white)
        BY <1>1, <1>4, <2>1 DEF after
      <3>2. CASE white
        BY <2>2, <3>1, <3>2 DEF WhitePov
      <3>3. CASE ~white
        BY <2>2, <3>1, <3>3 DEF WhitePov
      <3> QED
        BY <3>2, <3>3
    <2>4. EvalBefore(moves, p) = WhitePov(before[1], white)
      <3>1. CASE p = 1
        <4>1. EvalBefore(moves, p) = 0 /\ before[1] = 0
          BY <3>1 DEF EvalBefore, before
        <4>a. \A x \in Int : x <= 0 /\ x >= 0 => -x = 0
          OBVIOUS
        <4>b. before[1] <= 0 /\ before[1] >= 0
          BY <4>1
        <4>2. -before[1] = 0
          BY <2>2, <4>a, <4>b
        <4>3. WhitePov(before[1], white) = 0
          BY <4>1, <4>2 DEF WhitePov
        <4> QED
          BY <4>1, <4>3
      <3>2. CASE p # 1
        <4>1. p \in Int /\ (p - 1) \in DOMAIN moves /\ (p - 1) + 1 = p
          BY <1>1, <3>2
        <4>2. moves[p - 1].then = moves[p].fen
          BY <1>1, <4>1
        <4>3. EvalBefore(moves, p) = moves[p - 1].eval
          BY <3>2 DEF EvalBefore
        <4>4. moves[p - 1].eval = WhitePov(at(moves[p - 1].then)[1], moves[p - 1].then.white)
          BY <2>1, <4>1, <4>3
        <4> QED
          BY <4>2, <4>3, <4>4 DEF before
      <3> QED
        BY <3>1, <3>2
    <2>5. p \in CheapPass(moves, exit)
      BY <1>5, <2>3, <2>4
    <2> QED
      BY <2>5 DEF FindCandidates
  <1> QED
    BY <1>6, <1>7

-----------------------------------------------------------------------------
(* Annotation: the replies of the language model.                           *)

(* annotate_batch: what it returns is the first reply that parses, with no  *)
(* call after it and no exception before it; it gives up only when the      *)
(* provider raises before any reply parses, or no reply of retries + 1      *)
(* parses.  Whatever it returns is one valid item for each blunder.         *)
THEOREM FirstReplyThatParses ==
  ASSUME NEW size \in Nat \ {0}, NEW retries \in Nat, NEW replies
  PROVE  LET out == AnnotateBatch(size, replies, retries)
             calls == 1 .. retries + 1
             Silent(k) == \A j \in calls :
               j < k => replies[j].kind # "raises" /\ ~Parses(replies[j], size)
         IN \/ \E k \in calls :
                 /\ Silent(k) /\ Parses(replies[k], size)
                 /\ out = replies[k].items
                 /\ out # <<>> /\ Len(out) = size /\ \A i \in DOMAIN out : Valid(out[i])
            \/ /\ out = <<>>
               /\ \/ \E k \in calls : Silent(k) /\ replies[k].kind = "raises"
                  \/ \A k \in calls : ~Parses(replies[k], size)
  <1> DEFINE out == AnnotateBatch(size, replies, retries)
             calls == 1 .. retries + 1
             final == {k \in calls : replies[k].kind = "raises" \/ Parses(replies[k], size)}
             first == Min(final)
  <1>1. out = IF final = {} \/ replies[first].kind = "raises" THEN <<>> ELSE replies[first].items
    BY DEF AnnotateBatch
  <1>2. CASE final = {}
    BY <1>1, <1>2
  <1>3. CASE final # {}
    <2>1. first \in final /\ \A k \in final : first <= k
      BY <1>3, LeastOf
    <2> HIDE DEF out, first
    <2>2. \A j \in calls : j < first => replies[j].kind # "raises" /\ ~Parses(replies[j], size)
      BY <2>1
    <2>3. CASE replies[first].kind = "raises"
      BY <1>1, <2>1, <2>2, <2>3 DEF out
    <2>4. CASE replies[first].kind # "raises"
      <3>1. Parses(replies[first], size) /\ out = replies[first].items
        BY <1>1, <1>3, <2>1, <2>4
      <3>2. Len(out) = size /\ out # <<>> /\ \A i \in DOMAIN out : Valid(out[i])
        BY <3>1 DEF Parses
      <3> QED
        BY <2>1, <2>2, <3>1, <3>2 DEF out
    <2> QED
      BY <2>3, <2>4
  <1> QED
    BY <1>2, <1>3

(* Quotient and remainder.                                                  *)
LEMMA DivMod ==
  ASSUME NEW a \in Nat, NEW b \in Nat \ {0}
  PROVE  /\ a \div b \in Nat /\ (a % b) \in 0 .. b - 1
         /\ a = b * (a \div b) + (a % b)
  OBVIOUS

(* Chunks of a sequence: its elements in order, each in exactly one place,  *)
(* all chunks but the last full and none empty.                             *)
Chunked(chunks, items, size) ==
  /\ Len(items) \in Nat /\ Len(chunks) \in Nat /\ DOMAIN chunks = 1 .. Len(chunks)
  /\ Len(items) = 0 <=> Len(chunks) = 0
  /\ Len(chunks) # 0 => (Len(chunks) - 1) * size + Len(chunks[Len(chunks)]) = Len(items)
  /\ \A c \in 1 .. Len(chunks) - 1 : Len(chunks[c]) = size
  /\ \A c \in 1 .. Len(chunks) : Len(chunks[c]) \in 1 .. size
  /\ \A c \in 1 .. Len(chunks) : \A place \in 1 .. Len(chunks[c]) :
       /\ (c - 1) * size + place \in 1 .. Len(items)
       /\ chunks[c][place] = items[(c - 1) * size + place]
  /\ \A i \in 1 .. Len(items) :
       LET c == ((i - 1) \div size) + 1
           place == ((i - 1) % size) + 1
       IN /\ c \in 1 .. Len(chunks) /\ place \in 1 .. Len(chunks[c])
          /\ (c - 1) * size + place = i

(* That is what Chunk makes.                                                *)
LEMMA ChunkPlaces ==
  ASSUME NEW S, NEW items \in Seq(S), NEW size \in Nat \ {0}
  PROVE  Chunked(Chunk(items, size), items, size)
  <1> DEFINE n == Len(items)
             last == (n + size - 1) \div size
             End(c) == IF c * size <= n THEN c * size ELSE n
             chunks == Chunk(items, size)
  <1>1. n \in Nat /\ DOMAIN items = 1 .. n
    OBVIOUS
  <1>2. /\ last \in Nat
        /\ size * last <= n + size - 1 /\ n <= size * last
    <2> DEFINE m == n + size - 1
    <2>1. m \in Nat
      BY <1>1
    <2> HIDE DEF m
    <2>2. m \div size \in Nat /\ (m % size) \in 0 .. size - 1
          /\ m = size * (m \div size) + (m % size)
      BY <2>1, DivMod
    <2>3. PICK d \in Nat, e \in 0 .. size - 1 : d = m \div size /\ m = size * d + e
      BY <2>2
    <2>4. size * d \in Nat
      BY <2>3
    <2>5. size * d <= m /\ m - (size - 1) <= size * d
      BY <2>1, <2>3, <2>4
    <2> QED
      BY <1>1, <2>3, <2>5 DEF m, last
  <1>3. chunks = [c \in 1 .. last |-> SubSeq(items, (c - 1) * size + 1, End(c))]
    BY DEF Chunk
  <1> HIDE DEF chunks, last
  <1>4. ASSUME NEW c \in 1 .. last
        PROVE  /\ (c - 1) * size \in Nat /\ c * size \in Nat
               /\ c * size = (c - 1) * size + size
               /\ (c - 1) * size < n
    <2>1. c * size \in Nat /\ (c - 1) * size \in Nat /\ c * size = (c - 1) * size + size
      BY <1>2
    <2>2. c * size <= last * size
      BY <1>2
    <2>3. size * last <= n + size - 1
      BY <1>1, <1>2
    <2> QED
      BY <1>1, <1>2, <2>1, <2>2, <2>3
  <1>5. ASSUME NEW c \in 1 .. last
        PROVE  /\ Len(chunks[c]) = End(c) - (c - 1) * size
               /\ Len(chunks[c]) \in 1 .. size
               /\ \A place \in 1 .. Len(chunks[c]) :
                    /\ (c - 1) * size + place \in 1 .. n
                    /\ chunks[c][place] = items[(c - 1) * size + place]
    <2> DEFINE a == (c - 1) * size
               b == End(c)
    <2>1. a \in Nat /\ b \in Nat /\ a < b /\ b <= n /\ b - a <= size
      BY <1>1, <1>4
    <2>2. chunks[c] = SubSeq(items, a + 1, b)
      BY <1>3
    <2> HIDE DEF a, b
    <2>3. /\ Len(SubSeq(items, a + 1, b)) = b - a
          /\ \A place \in 1 .. b - a : SubSeq(items, a + 1, b)[place] = items[a + place]
      BY <1>1, <2>1
    <2>4. Len(chunks[c]) = b - a
      BY <2>2, <2>3
    <2>5. Len(chunks[c]) \in 1 .. size
      BY <2>1, <2>4
    <2>6. \A place \in 1 .. Len(chunks[c]) :
            a + place \in 1 .. n /\ chunks[c][place] = items[a + place]
      BY <1>1, <2>1, <2>2, <2>3, <2>4
    <2> QED
      BY <2>4, <2>5, <2>6 DEF a, b
  <1>6. DOMAIN chunks = 1 .. last
    BY <1>3
  <1>7. ASSUME NEW i \in 1 .. n
        PROVE  LET c == ((i - 1) \div size) + 1
                   place == ((i - 1) % size) + 1
               IN c \in 1 .. last /\ place \in 1 .. Len(chunks[c]) /\ chunks[c][place] = items[i]
    <2> DEFINE q == (i - 1) \div size
               r == (i - 1) % size
    <2>0. i - 1 \in Nat
      BY <1>1
    <2>1. q \in Nat /\ r \in 0 .. size - 1 /\ i - 1 = size * q + r
      BY <2>0, DivMod
    <2> HIDE DEF q, r
    <2>2. q + 1 <= last
      <3> SUFFICES ASSUME last <= q PROVE FALSE
        BY <1>2, <2>1
      <3>1. size * last <= size * q
        BY <1>2, <2>1
      <3>2. size * q <= n - 1
        BY <1>1, <2>1
      <3>3. size * last \in Nat /\ size * q \in Nat
        BY <1>2, <2>1
      <3> QED
        BY <1>1, <1>2, <3>1, <3>2, <3>3
    <2>3. q + 1 \in 1 .. last
      BY <1>2, <2>1, <2>2
    <2>a. (q + 1) - 1 = q /\ q * size \in Nat
      BY <2>1
    <2>4. Len(chunks[q + 1]) = End(q + 1) - q * size
      BY <1>5, <2>a, <2>3
    <2>5. r + 1 \in 1 .. Len(chunks[q + 1])
      BY <1>1, <2>1, <2>4
    <2>6. chunks[q + 1][r + 1] = items[q * size + (r + 1)]
      BY <1>5, <2>a, <2>3, <2>5
    <2>7. q * size + (r + 1) = i
      BY <2>1
    <2> QED
      BY <2>3, <2>5, <2>6, <2>7 DEF q, r
  <1>8. Len(chunks) = last /\ DOMAIN chunks = 1 .. last
    <2>1. chunks = [c \in 1 .. last |-> chunks[c]]
      BY <1>3
    <2> QED
      BY <1>2, <2>1
  <1>9. ASSUME NEW c \in 1 .. last - 1 PROVE Len(chunks[c]) = size
    <2>1. c \in 1 .. last /\ c + 1 \in 1 .. last /\ (c + 1) - 1 = c
      BY <1>2
    <2>2. ((c + 1) - 1) * size < n
      BY <1>4, <2>1
    <2>3. c * size <= n
      BY <1>1, <1>4, <2>1, <2>2
    <2>4. End(c) = c * size
      BY <2>3
    <2>5. Len(chunks[c]) = End(c) - (c - 1) * size
      BY <1>5, <2>1
    <2> HIDE DEF End
    <2>6. c * size = (c - 1) * size + size /\ (c - 1) * size \in Nat
      BY <1>4, <2>1
    <2> DEFINE x == (c - 1) * size
               y == c * size
    <2> HIDE DEF x, y
    <2>7. y - x = size
      BY <2>6 DEF x, y
    <2> QED
      BY <2>4, <2>5, <2>7 DEF x, y
  <1>10. n = 0 <=> last = 0
    <2>1. last = 0 => n = 0
      BY <1>1, <1>2
    <2>2. n = 0 => last = 0
      <3> SUFFICES ASSUME n = 0, last # 0 PROVE FALSE
        OBVIOUS
      <3>1. 1 \in 1 .. last
        BY <1>2
      <3>2. (1 - 1) * size < n /\ (1 - 1) * size \in Nat
        BY <1>4, <3>1
      <3> QED
        BY <1>1, <3>2
    <2> QED
      BY <2>1, <2>2
  <1>11. last # 0 => (last - 1) * size + Len(chunks[last]) = n
    <2> SUFFICES ASSUME last # 0 PROVE (last - 1) * size + Len(chunks[last]) = n
      OBVIOUS
    <2>1. last \in 1 .. last
      BY <1>2
    <2>2. size * last = last * size
      BY <1>2
    <2>3. End(last) = n
      <3> DEFINE x == last * size
                 y == size * last
      <3>1. x \in Nat /\ x = y /\ n <= y
        BY <1>2, <1>4, <2>1, <2>2
      <3>2. End(last) = IF x <= n THEN x ELSE n
        OBVIOUS
      <3> HIDE DEF x, y
      <3> QED
        BY <1>1, <3>1, <3>2
    <2>4. (last - 1) * size \in Nat /\ Len(chunks[last]) = n - (last - 1) * size
      BY <1>4, <1>5, <2>1, <2>3
    <2> QED
      BY <1>1, <2>4
  <1> HIDE DEF chunks, last
  <1>12. \A c \in 1 .. last : Len(chunks[c]) \in 1 .. size
    BY <1>5
  <1>13. \A c \in 1 .. last : \A place \in 1 .. Len(chunks[c]) :
           /\ (c - 1) * size + place \in 1 .. n
           /\ chunks[c][place] = items[(c - 1) * size + place]
    BY <1>5
  <1>14. \A i \in 1 .. n :
           LET c == ((i - 1) \div size) + 1
               place == ((i - 1) % size) + 1
           IN c \in 1 .. last /\ place \in 1 .. Len(chunks[c]) /\ (c - 1) * size + place = i
    <2> SUFFICES ASSUME NEW i \in 1 .. n
                 PROVE  LET c == ((i - 1) \div size) + 1
                            place == ((i - 1) % size) + 1
                        IN /\ c \in 1 .. last /\ place \in 1 .. Len(chunks[c])
                           /\ (c - 1) * size + place = i
      OBVIOUS
    <2> DEFINE q == (i - 1) \div size
               r == (i - 1) % size
    <2>1. i - 1 \in Nat
      BY <1>1
    <2>2. q \in Nat /\ r \in 0 .. size - 1 /\ i - 1 = size * q + r
      BY <2>1, DivMod
    <2>3. q + 1 \in 1 .. last /\ r + 1 \in 1 .. Len(chunks[q + 1])
      BY <1>7
    <2> HIDE DEF q, r
    <2>4. ((q + 1) - 1) * size + (r + 1) = i
      BY <2>2
    <2> QED
      BY <2>3, <2>4 DEF q, r
  <1> DEFINE m == Len(chunks)
  <1>15. m = last
    BY <1>8
  <1> HIDE DEF n, m
  <1>16. Chunked(chunks, items, size)
    BY <1>1, <1>2, <1>8, <1>9, <1>10, <1>11, <1>12, <1>13, <1>14, <1>15 DEF Chunked, m, n
  <1> QED
    BY <1>16 DEF chunks

(* run_annotate's chunks: the blunders in order, each in exactly one place, *)
(* and no chunk that is empty or larger than a batch.                       *)
THEOREM ChunksKeepPlaces ==
  ASSUME NEW S, NEW items \in Seq(S), NEW size \in Nat \ {0}
  PROVE  LET chunks == Chunk(items, size) IN
         /\ \A c \in DOMAIN chunks : Len(chunks[c]) \in 1 .. size
         /\ \A c \in DOMAIN chunks : \A place \in 1 .. Len(chunks[c]) :
              /\ (c - 1) * size + place \in DOMAIN items
              /\ chunks[c][place] = items[(c - 1) * size + place]
         /\ \A i \in DOMAIN items :
              LET c == ((i - 1) \div size) + 1
                  place == ((i - 1) % size) + 1
              IN /\ c \in DOMAIN chunks /\ place \in 1 .. Len(chunks[c])
                 /\ chunks[c][place] = items[i]
  <1> DEFINE chunks == Chunk(items, size)
  <1>1. Chunked(chunks, items, size)
    BY ChunkPlaces
  <1>2. DOMAIN items = 1 .. Len(items)
    OBVIOUS
  <1> HIDE DEF chunks
  <1>3. /\ DOMAIN chunks = 1 .. Len(chunks)
        /\ \A c \in 1 .. Len(chunks) : Len(chunks[c]) \in 1 .. size
        /\ \A c \in 1 .. Len(chunks) : \A place \in 1 .. Len(chunks[c]) :
             /\ (c - 1) * size + place \in 1 .. Len(items)
             /\ chunks[c][place] = items[(c - 1) * size + place]
    BY <1>1 DEF Chunked
  <1>4. ASSUME NEW i \in 1 .. Len(items)
        PROVE  LET c == ((i - 1) \div size) + 1
                   place == ((i - 1) % size) + 1
               IN /\ c \in 1 .. Len(chunks) /\ place \in 1 .. Len(chunks[c])
                  /\ chunks[c][place] = items[i]
    <2> DEFINE c == ((i - 1) \div size) + 1
               place == ((i - 1) % size) + 1
    <2>1. c \in 1 .. Len(chunks) /\ place \in 1 .. Len(chunks[c]) /\ (c - 1) * size + place = i
      BY <1>1 DEF Chunked
    <2> HIDE DEF c, place
    <2> QED
      BY <1>3, <2>1 DEF c, place
  <1> QED
    BY <1>2, <1>3, <1>4 DEF chunks

Paired(chunks, out) == FlattenSeq([c \in DOMAIN chunks |-> Zip(chunks[c], out[c])])

SameLengths(out, chunks) == \A c \in 1 .. Len(chunks) : Len(out[c]) = Len(chunks[c])
InLine(flat, chunks, out, size, n) ==
  /\ DOMAIN flat = 1 .. n /\ n # 0
  /\ \A c \in 1 .. Len(chunks) : \A place \in 1 .. Len(chunks[c]) :
       flat[(c - 1) * size + place] = <<chunks[c][place], out[c][place]>>

(* run_annotate: the chunks' items, paired with their blunders and put one  *)
(* chunk after the other, are at the blunders' own places.                  *)
LEMMA PairsInPlace ==
  ASSUME NEW S, NEW items \in Seq(S), NEW size \in Nat \ {0}, NEW out, items # <<>>,
         NEW chunks, Chunked(chunks, items, size),
         SameLengths(out, chunks)
  PROVE  InLine(Paired(chunks, out), chunks, out, size, Len(items))
  <1> DEFINE n == Len(items)
             last == Len(chunks)
             zips == [c \in DOMAIN chunks |-> Zip(chunks[c], out[c])]
             T == UNION {{zips[c][place] : place \in 1 .. Len(chunks[c])} : c \in 1 .. last}
             flat == FlattenSeq(zips)
  <1>1. /\ n \in Nat /\ last \in Nat /\ DOMAIN chunks = 1 .. last
        /\ (n = 0 <=> last = 0)
        /\ last # 0 => (last - 1) * size + Len(chunks[last]) = n
        /\ \A c \in 1 .. last - 1 : Len(chunks[c]) = size
        /\ \A c \in 1 .. last : Len(chunks[c]) \in 1 .. size
    BY DEF Chunked
  <1>2. n # 0 /\ last # 0
    BY <1>1, EmptySeq
  <1> HIDE DEF last, n
  <1>3. \A c \in 1 .. last :
          zips[c] = [place \in 1 .. Len(chunks[c]) |-> <<chunks[c][place], out[c][place]>>]
    <2> SUFFICES ASSUME NEW c \in 1 .. last
                 PROVE  zips[c] = [place \in 1 .. Len(chunks[c]) |->
                                    <<chunks[c][place], out[c][place]>>]
      OBVIOUS
    <2>1. zips[c] = Zip(chunks[c], out[c]) /\ Len(out[c]) = Len(chunks[c])
      BY <1>1 DEF last, zips, SameLengths
    <2>2. Len(chunks[c]) \in Nat
      BY <1>1
    <2> HIDE DEF zips
    <2> QED
      BY <2>1, <2>2 DEF Zip
  <1>4. DOMAIN zips = 1 .. last /\ zips = [c \in 1 .. last |-> zips[c]]
    BY <1>1
  <1> HIDE DEF zips
  <1>5. \A c \in 1 .. last : zips[c] \in Seq(T) /\ Len(zips[c]) = Len(chunks[c])
    <2> SUFFICES ASSUME NEW c \in 1 .. last
                 PROVE  zips[c] \in Seq(T) /\ Len(zips[c]) = Len(chunks[c])
      OBVIOUS
    <2> DEFINE k == Len(chunks[c])
    <2>1. k \in Nat
      BY <1>1
    <2>2. \A place \in 1 .. k : zips[c][place] \in T
      <3> DEFINE U(d) == {zips[d][place] : place \in 1 .. Len(chunks[d])}
      <3>1. \A place \in 1 .. k : zips[c][place] \in U(c)
        OBVIOUS
      <3>2. T = UNION {U(d) : d \in 1 .. last}
        OBVIOUS
      <3> HIDE DEF U, T
      <3> QED
        BY <3>1, <3>2
    <2>3. zips[c] = [place \in 1 .. k |-> zips[c][place]]
      BY <1>3
    <2> HIDE DEF T, k
    <2>4. zips[c] \in Seq(T)
      BY <2>1, <2>2, <2>3, IsASeq
    <2>5. DOMAIN zips[c] = 1 .. k
      BY <2>3
    <2> QED
      BY <2>1, <2>4, <2>5, LenProperties DEF k
  <1> HIDE DEF T
  <1>6. zips \in Seq(Seq(T)) /\ Len(zips) = last /\ zips # <<>>
    <2>1. zips \in Seq(Seq(T))
      <3>1. \A c \in 1 .. last : zips[c] \in Seq(T)
        BY <1>5
      <3>2. last \in Nat /\ zips = [c \in 1 .. last |-> zips[c]]
        BY <1>1, <1>4
      <3> QED
        BY <3>1, <3>2, IsASeq
    <2>2. Len(zips) = last
      BY <1>1, <1>4, <2>1, LenProperties
    <2> QED
      BY <1>2, <2>1, <2>2, EmptySeq
  <1>7. PICK f \in [1 .. last -> Seq(T)] : Chained(f, zips, last) /\ flat = f[last]
    BY <1>6, FlattenChain
  <1> DEFINE Has(c) ==
               /\ Len(f[c]) = (c - 1) * size + Len(chunks[c])
               /\ \A d \in 1 .. c : \A place \in 1 .. Len(chunks[d]) :
                    f[c][(d - 1) * size + place] = zips[d][place]
             good == {c \in Nat : c = 0 \/ Has(c)}
  <1>8. ASSUME NEW c \in 0 .. last - 1, c \in good
        PROVE  c + 1 \in good
    <2>1. /\ c \in Nat /\ c + 1 \in Nat /\ c + 1 \in 1 .. last /\ (c + 1) - 1 = c
          /\ c * size \in Nat
      BY <1>1
    <2>2. CASE c = 0
      <3>1. f[1] = zips[1] /\ 1 \in 1 .. last
        BY <1>1, <1>2, <1>7 DEF Chained
      <3>2. Len(f[1]) = Len(chunks[1]) /\ Len(chunks[1]) \in Nat
        BY <1>1, <1>5, <3>1
      <3>3. (1 - 1) * size = 0
        OBVIOUS
      <3>4. \A d \in 1 .. 1 : \A place \in 1 .. Len(chunks[d]) :
              f[1][(d - 1) * size + place] = zips[d][place]
        <4> SUFFICES ASSUME NEW place \in 1 .. Len(chunks[1])
                     PROVE  f[1][(1 - 1) * size + place] = zips[1][place]
          OBVIOUS
        <4>1. (1 - 1) * size + place = place
          BY <3>2, <3>3
        <4> QED
          BY <3>1, <4>1
      <3>5. Has(1)
        <4>a. \A x \in Nat : (1 - 1) * size + x = x
          OBVIOUS
        <4>1. Len(f[1]) = (1 - 1) * size + Len(chunks[1])
          BY <3>2, <4>a
        <4> QED
          BY <3>4, <4>1
      <3>6. c + 1 = 1 /\ c + 1 \in Nat
        BY <2>2
      <3> HIDE DEF Has
      <3> QED
        BY <3>5, <3>6
    <2>3. CASE c # 0
      <3>1. c \in 1 .. last - 1 /\ c \in 1 .. last
        BY <1>1, <2>3
      <3>2. /\ Len(f[c]) = (c - 1) * size + size
            /\ \A d \in 1 .. c : \A place \in 1 .. Len(chunks[d]) :
                 f[c][(d - 1) * size + place] = zips[d][place]
        BY <1>1, <1>8, <2>3, <3>1
      <3>3. (c - 1) * size + size = c * size
        BY <3>1
      <3>4. f[c + 1] = f[c] \o zips[c + 1]
        BY <1>7, <3>1 DEF Chained
      <3>5. /\ f[c] \in Seq(T) /\ zips[c + 1] \in Seq(T)
            /\ Len(zips[c + 1]) = Len(chunks[c + 1]) /\ Len(chunks[c + 1]) \in Nat
            /\ Len(f[c]) = c * size
        BY <1>1, <1>5, <1>7, <2>1, <3>1, <3>2, <3>3
      <3>6. /\ Len(f[c + 1]) = c * size + Len(chunks[c + 1])
            /\ \A j \in 1 .. c * size : f[c + 1][j] = f[c][j]
            /\ \A place \in 1 .. Len(chunks[c + 1]) :
                 f[c + 1][c * size + place] = zips[c + 1][place]
        <4> DEFINE m == c * size
                   k == Len(chunks[c + 1])
        <4>0. m \in Nat /\ k \in Nat /\ Len(f[c]) = m /\ Len(zips[c + 1]) = k
          BY <2>1, <3>5
        <4> HIDE DEF m, k
        <4>a. \A s, t \in Seq(T) :
                /\ Len(s \o t) = Len(s) + Len(t)
                /\ \A j \in 1 .. Len(s) + Len(t) :
                     (s \o t)[j] = IF j <= Len(s) THEN s[j] ELSE t[j - Len(s)]
          BY ConcatProperties
        <4>1. Len(f[c] \o zips[c + 1]) = m + k
          BY <3>5, <4>0, <4>a
        <4>2. \A j \in 1 .. m + k :
                (f[c] \o zips[c + 1])[j] = IF j <= m THEN f[c][j] ELSE zips[c + 1][j - m]
          BY <3>5, <4>0, <4>a
        <4>3. \A j \in 1 .. m : j \in 1 .. m + k /\ j <= m
          BY <4>0
        <4>4. \A place \in 1 .. k :
                m + place \in 1 .. m + k /\ ~(m + place <= m) /\ (m + place) - m = place
          BY <4>0
        <4>5. \A j \in 1 .. m : f[c + 1][j] = f[c][j]
          BY <3>4, <4>2, <4>3
        <4>6. \A place \in 1 .. k : f[c + 1][m + place] = zips[c + 1][place]
          BY <3>4, <4>2, <4>4
        <4>7. Len(f[c + 1]) = m + k
          BY <3>4, <4>1
        <4> QED
          BY <4>5, <4>6, <4>7 DEF m, k
      <3>7. ASSUME NEW d \in 1 .. c + 1, NEW place \in 1 .. Len(chunks[d])
            PROVE  f[c + 1][(d - 1) * size + place] = zips[d][place]
        <4>1. CASE d = c + 1
          <5>1. d - 1 = c
            BY <2>1, <4>1
          <5>2. (d - 1) * size + place = c * size + place
            BY <5>1
          <5> QED
            BY <3>6, <4>1, <5>2
        <4>2. CASE d # c + 1
          <5>1. d \in 1 .. c /\ d \in 1 .. last
            BY <1>1, <2>1, <3>1, <4>2
          <5>2. Len(chunks[d]) \in 1 .. size /\ place \in 1 .. size /\ place <= size
            BY <1>1, <5>1
          <5>3. (d - 1) * size \in Nat /\ (d - 1) * size + size = d * size /\ d * size <= c * size
            BY <5>1
          <5>4. (d - 1) * size + place \in 1 .. c * size
            <6> DEFINE x == (d - 1) * size
                       y == d * size
                       z == c * size
            <6>1. x \in Nat /\ x + size = y /\ y <= z /\ z \in Nat /\ y \in Int /\ place \in Nat
                  /\ place <= size /\ place >= 1
              BY <2>1, <5>2, <5>3
            <6> HIDE DEF x, y, z
            <6>2. x + place \in 1 .. z
              BY <6>1
            <6> QED
              BY <6>2 DEF x, z
          <5> QED
            BY <3>2, <3>6, <5>1, <5>4
        <4> QED
          BY <4>1, <4>2
      <3>8. Has(c + 1)
        BY <2>1, <3>6, <3>7
      <3> QED
        BY <2>1, <3>8
    <2> QED
      BY <2>2, <2>3
  <1>9. 0 \in good
    OBVIOUS
  <1> HIDE DEF good
  <1>10. \A c \in 0 .. last : c \in good
    BY <1>1, <1>8, <1>9, CountingUp
  <1>11. Has(last)
    <2>1. last \in 0 .. last
      BY <1>1
    <2> QED
      BY <1>2, <1>10, <2>1 DEF good
  <1>12. Len(flat) = n /\ flat \in Seq(T)
    <2>1. last \in 1 .. last
      BY <1>1, <1>2
    <2> QED
      BY <1>1, <1>2, <1>7, <1>11, <2>1
  <1>13. DOMAIN flat = 1 .. n
    BY <1>12, LenProperties
  <1>14. ASSUME NEW c \in 1 .. last, NEW place \in 1 .. Len(chunks[c])
         PROVE  flat[(c - 1) * size + place] = <<chunks[c][place], out[c][place]>>
    <2>1. flat[(c - 1) * size + place] = zips[c][place]
      BY <1>7, <1>11
    <2>2. zips[c][place] = <<chunks[c][place], out[c][place]>>
      BY <1>3
    <2> QED
      BY <2>1, <2>2
  <1> HIDE DEF flat, Has
  <1> QED
    BY <1>2, <1>13, <1>14 DEF InLine, Paired, flat, zips, last, n

(* run_annotate: whatever the model replies, the annotations of a game's    *)
(* blunders are in line with them, all of them or none.                     *)
THEOREM AllOrNothing ==
  ASSUME NEW S, NEW blunders \in Seq(S), NEW size \in Nat \ {0}, NEW replies, NEW retries \in Nat
  PROVE  AnnotationsAligned(blunders, size, replies, retries)
  <1> DEFINE chunks == Chunk(blunders, size)
             n == Len(blunders)
             last == Len(chunks)
             items == [c \in DOMAIN chunks |-> AnnotateBatch(Len(chunks[c]), replies[c], retries)]
             out == Annotated(blunders, size, replies, retries)
             flat == Paired(chunks, items)
             calls == 1 .. retries + 1
  <1>0. Chunked(chunks, blunders, size)
    BY ChunkPlaces
  <1>1. /\ n \in Nat /\ last \in Nat /\ DOMAIN chunks = 1 .. last
        /\ \A c \in 1 .. last : Len(chunks[c]) \in Nat \ {0}
        /\ n = 0 <=> last = 0
    <2> HIDE DEF chunks
    <2>1. \A c \in 1 .. last : Len(chunks[c]) \in 1 .. size
      BY <1>0 DEF Chunked
    <2> QED
      BY <1>0, <2>1 DEF Chunked
  <1>2. \A c \in 1 .. last : \A place \in 1 .. Len(chunks[c]) :
          chunks[c][place] = blunders[(c - 1) * size + place]
    BY <1>0 DEF Chunked
  <1>3. \A i \in 1 .. n :
          LET c == ((i - 1) \div size) + 1
              place == ((i - 1) % size) + 1
          IN c \in 1 .. last /\ place \in 1 .. Len(chunks[c]) /\ (c - 1) * size + place = i
    <2> HIDE DEF chunks
    <2> QED
      BY <1>0 DEF Chunked
  <1>4. out = IF \E c \in DOMAIN chunks : items[c] = <<>> THEN <<>> ELSE flat
    BY DEF Annotated, Paired
  <1> HIDE DEF out, flat, chunks
  <1>5. \A c \in 1 .. last : items[c] = AnnotateBatch(Len(chunks[c]), replies[c], retries)
    BY <1>1
  <1>6. ASSUME NEW c \in 1 .. last
        PROVE  \/ \E k \in calls :
                    /\ items[c] = replies[c][k].items
                    /\ items[c] # <<>> /\ Len(items[c]) = Len(chunks[c])
                    /\ \A i \in DOMAIN items[c] : Valid(items[c][i])
                    /\ Len(replies[c][k].items) = Len(chunks[c])
               \/ /\ items[c] = <<>>
                  /\ \/ \E k \in calls : replies[c][k].kind = "raises"
                     \/ \A k \in calls : ~Parses(replies[c][k], Len(chunks[c]))
    <2> DEFINE one == AnnotateBatch(Len(chunks[c]), replies[c], retries)
    <2>1. items[c] = one
      BY <1>5
    <2>2. Len(chunks[c]) \in Nat \ {0}
      BY <1>1
    <2>3. \/ \E k \in calls :
               /\ one = replies[c][k].items
               /\ one # <<>> /\ Len(one) = Len(chunks[c]) /\ \A i \in DOMAIN one : Valid(one[i])
          \/ /\ one = <<>>
             /\ \/ \E k \in calls : replies[c][k].kind = "raises"
                \/ \A k \in calls : ~Parses(replies[c][k], Len(chunks[c]))
      <3> DEFINE size_c == Len(chunks[c])
                 said == replies[c]
      <3> HIDE DEF size_c, said, items
      <3> QED
        BY <2>2, FirstReplyThatParses DEF size_c, said
    <2> HIDE DEF one, items
    <2> QED
      BY <2>1, <2>3
  <1> HIDE DEF items
  <1>7. CASE \E c \in DOMAIN chunks : items[c] = <<>>
    <2>1. out = <<>> /\ DOMAIN out = {}
      BY <1>4, <1>7
    <2>2. PICK c \in 1 .. last : items[c] = <<>>
      BY <1>1, <1>7
    <2>3. \/ \E k \in calls : replies[c][k].kind = "raises"
          \/ \A k \in calls : ~Parses(replies[c][k], Len(chunks[c]))
      BY <1>6, <2>2
    <2>4. c \in DOMAIN chunks
      BY <1>1, <2>2
    <2> QED
      BY <2>1, <2>3, <2>4 DEF AnnotationsAligned, out, chunks
  <1>8. CASE ~(\E c \in DOMAIN chunks : items[c] = <<>>) /\ n = 0
    <2>1. blunders = <<>>
      BY <1>8, EmptySeq
    <2>2. out = flat
      BY <1>4, <1>8
    <2>3. DOMAIN chunks = {}
      BY <1>1, <1>8
    <2>4. flat = FlattenSeq(<<>>)
      <3>1. [c \in DOMAIN chunks |-> Zip(chunks[c], items[c])] = <<>>
        BY <2>3
      <3> QED
        BY <3>1 DEF flat, Paired
    <2>5. FlattenSeq(<<>>) = <<>>
      BY DEF FlattenSeq
    <2>6. out = <<>> /\ DOMAIN out = {}
      BY <2>2, <2>4, <2>5
    <2> QED
      BY <2>1, <2>6 DEF AnnotationsAligned, out
  <1>9. CASE ~(\E c \in DOMAIN chunks : items[c] = <<>>) /\ n # 0
    <2>1. out = flat
      BY <1>4, <1>9
    <2>2. ASSUME NEW c \in 1 .. last
          PROVE  \E k \in calls :
                   /\ items[c] = replies[c][k].items /\ Len(items[c]) = Len(chunks[c])
                   /\ \A i \in DOMAIN items[c] : Valid(items[c][i])
                   /\ Len(replies[c][k].items) = Len(chunks[c])
      <3>1. items[c] # <<>>
        BY <1>1, <1>9
      <3> QED
        BY <1>6, <3>1
    <2>3. /\ DOMAIN out = 1 .. n
          /\ \A c \in 1 .. last : \A place \in 1 .. Len(chunks[c]) :
               out[(c - 1) * size + place] = <<chunks[c][place], items[c][place]>>
      <3>1. blunders # <<>>
        BY <1>9, EmptySeq
      <3>2. \A c \in 1 .. last : Len(items[c]) = Len(chunks[c])
        BY <2>2
      <3> QED
        <4>1. size \in Nat \ {0} /\ blunders \in Seq(S) /\ blunders # <<>> /\ Chunked(chunks, blunders, size)
              /\ SameLengths(items, chunks)
          BY <1>0, <3>1, <3>2 DEF SameLengths
        <4> HIDE DEF last, n
        <4>2. InLine(Paired(chunks, items), chunks, items, size, Len(blunders))
          BY <4>1, PairsInPlace
        <4> QED
          BY <2>1, <4>2 DEF InLine, flat, last, n
    <2>4. ASSUME NEW i \in 1 .. n
          PROVE  /\ out[i][1] = blunders[i]
                 /\ out[i][2].description = "text" /\ out[i][2].counterfactual = "text"
                 /\ out[i][2].motif_tags \subseteq AllTags
                 /\ \E k \in calls :
                      LET said == replies[(i - 1) \div size + 1][k].items
                          place == ((i - 1) % size) + 1
                      IN place <= Len(said) /\ out[i][2] = said[place]
      <3> DEFINE c == ((i - 1) \div size) + 1
                 place == ((i - 1) % size) + 1
      <3>1. c \in 1 .. last /\ place \in 1 .. Len(chunks[c]) /\ (c - 1) * size + place = i
        BY <1>3
      <3> HIDE DEF c, place
      <3>2. out[i] = <<blunders[i], items[c][place]>>
        BY <1>2, <2>3, <3>1
      <3>3. PICK k \in calls :
              /\ items[c] = replies[c][k].items /\ Len(items[c]) = Len(chunks[c])
              /\ \A j \in DOMAIN items[c] : Valid(items[c][j])
              /\ Len(replies[c][k].items) = Len(chunks[c])
        BY <2>2, <3>1
      <3>4. place <= Len(replies[c][k].items) /\ out[i][2] = replies[c][k].items[place]
        BY <1>1, <3>1, <3>2, <3>3
      <3>5. Valid(items[c][place])
        BY <1>1, <3>1, <3>3
      <3>6. out[i][1] = blunders[i] /\ Valid(out[i][2])
        BY <3>2, <3>5
      <3>7. \E h \in calls : place <= Len(replies[c][h].items) /\ out[i][2] = replies[c][h].items[place]
        BY <3>4
      <3> QED
        BY <3>6, <3>7 DEF Valid, c, place
    <2>5. out # <<>>
      BY <1>1, <1>9, <2>3
    <2>6. [i \in DOMAIN out |-> out[i][1]] = blunders
      <3>1. blunders = [i \in 1 .. n |-> blunders[i]]
        OBVIOUS
      <3> QED
        BY <2>3, <2>4, <3>1
    <2> HIDE DEF n
    <2> QED
      BY <2>3, <2>4, <2>5, <2>6 DEF AnnotationsAligned, out
  <1> QED
    BY <1>7, <1>8, <1>9

-----------------------------------------------------------------------------
(* Pawns.  That White and Black are judged alike is shown set by set: on    *)
(* the board with the sides exchanged, the squares of a feature are the     *)
(* mirror images of those it has for the other side, and mirroring is a     *)
(* bijection.                                                               *)

(* A square is its file and its rank.                                       *)
LEMMA SquareType ==
  ASSUME NEW s \in Squares
  PROVE  s[1] \in 1 .. 8 /\ s[2] \in 1 .. 8 /\ s = <<s[1], s[2]>>
  BY DEF Squares, Lines

(* Two coordinates decide a square.                                         *)
LEMMA SquareEq ==
  ASSUME NEW s \in Squares, NEW t \in Squares, s[1] = t[1], s[2] = t[2]
  PROVE  s = t
  BY DEF Squares, Lines

(* Who can stop a pawn stands in its passed span or in its place.           *)
LEMMA StopsMeans ==
  ASSUME NEW c \in Colours, NEW s \in Squares, NEW e \in Squares
  PROVE  Stops(c, s, e) <=> PassedSpan(c, s, e) \/ (s[1] = e[1] /\ s[2] = e[2])
  <1>0. s[1] \in 1 .. 8 /\ s[2] \in 1 .. 8 /\ e[1] \in 1 .. 8 /\ e[2] \in 1 .. 8
    BY SquareType
  <1>1. ASSUME Stops(c, s, e)
        PROVE  PassedSpan(c, s, e) \/ (s[1] = e[1] /\ s[2] = e[2])
    <2>1. PICK i \in Nat, j \in Nat :
            \/ s[1] = e[1] /\ s[2] + i * Forward(c) = e[2] - j * Forward(c)
            \/ Adjacent(s, e) /\ s[2] + i * Forward(c) = (e[2] - j * Forward(c)) - Forward(c)
      BY <1>1 DEF Stops
    <2>2. CASE c = "white"
      <3>1. \/ s[1] = e[1] /\ s[2] + i = e[2] - j
            \/ Adjacent(s, e) /\ s[2] + i = (e[2] - j) - 1
        BY <1>0, <2>1, <2>2 DEF Forward
      <3> QED
        BY <1>0, <2>2, <3>1 DEF PassedSpan, IsAhead, Adjacent
    <2>3. CASE c = "black"
      <3>1. \/ s[1] = e[1] /\ s[2] - i = e[2] + j
            \/ Adjacent(s, e) /\ s[2] - i = (e[2] + j) + 1
        BY <1>0, <2>1, <2>3 DEF Forward
      <3> QED
        BY <1>0, <2>3, <3>1 DEF PassedSpan, IsAhead, Adjacent
    <2> QED
      BY <2>2, <2>3 DEF Colours
  <1>2. ASSUME s[1] = e[1] /\ s[2] = e[2]
        PROVE  Stops(c, s, e)
    <2>1. s[2] + 0 * Forward(c) = e[2] - 0 * Forward(c)
      BY <1>0, <1>2 DEF Forward
    <2> QED
      BY <1>2, <2>1 DEF Stops
  <1>3. ASSUME PassedSpan(c, s, e)
        PROVE  Stops(c, s, e)
    <2>1. CASE s[1] = e[1]
      <3>1. PICK i \in Nat : s[2] + i * Forward(c) = e[2] - 0 * Forward(c)
        <4>1. CASE c = "white"
          <5>1. e[2] - s[2] \in Nat
            BY <1>0, <1>3, <4>1 DEF PassedSpan, IsAhead
          <5>2. s[2] + (e[2] - s[2]) * Forward(c) = e[2] - 0 * Forward(c)
            BY <1>0, <4>1 DEF Forward
          <5> QED
            BY <5>1, <5>2
        <4>2. CASE c = "black"
          <5>1. s[2] - e[2] \in Nat
            BY <1>0, <1>3, <4>2 DEF PassedSpan, IsAhead
          <5>2. s[2] + (s[2] - e[2]) * Forward(c) = e[2] - 0 * Forward(c)
            BY <1>0, <4>2 DEF Forward
          <5> QED
            BY <5>1, <5>2
        <4> QED
          BY <4>1, <4>2 DEF Colours
      <3> QED
        BY <2>1, <3>1 DEF Stops
    <2>2. CASE s[1] # e[1]
      <3>1. Adjacent(s, e)
        BY <1>0, <1>3, <2>2 DEF PassedSpan, Adjacent
      <3>2. PICK i \in Nat : s[2] + i * Forward(c) = (e[2] - 0 * Forward(c)) - Forward(c)
        <4>1. CASE c = "white"
          <5>1. e[2] - 1 - s[2] \in Nat
            BY <1>0, <1>3, <4>1 DEF PassedSpan, IsAhead
          <5>2. s[2] + (e[2] - 1 - s[2]) * Forward(c) = (e[2] - 0 * Forward(c)) - Forward(c)
            BY <1>0, <4>1 DEF Forward
          <5> QED
            BY <5>1, <5>2
        <4>2. CASE c = "black"
          <5>1. s[2] - e[2] - 1 \in Nat
            BY <1>0, <1>3, <4>2 DEF PassedSpan, IsAhead
          <5>2. s[2] + (s[2] - e[2] - 1) * Forward(c) = (e[2] - 0 * Forward(c)) - Forward(c)
            BY <1>0, <4>2 DEF Forward
          <5> QED
            BY <5>1, <5>2
        <4> QED
          BY <4>1, <4>2 DEF Colours
      <3> QED
        BY <3>1, <3>2 DEF Stops
    <2> QED
      BY <2>1, <2>2
  <1> QED
    BY <1>1, <1>2, <1>3

(* A passed pawn is one no enemy pawn can ever stop (pawns.cpp, passed):    *)
(* looking at the three files ahead is enough, and not too much.            *)
THEOREM PassedIsFree ==
  ASSUME NEW b \in PawnBoards, b.white \cap b.black = {}, NEW c \in Colours
  PROVE  PassedMeansFree(b, c)
  <1>1. b[c] \subseteq Squares /\ b[Other(c)] \subseteq Squares /\ b[c] \cap b[Other(c)] = {}
    BY DEF PawnBoards, Colours, Other
  <1>2. ASSUME NEW s \in b[c], NEW e \in b[Other(c)]
        PROVE  Stops(c, s, e) <=> PassedSpan(c, s, e)
    <2>1. s \in Squares /\ e \in Squares /\ s # e
      BY <1>1
    <2> QED
      BY <2>1, StopsMeans, SquareEq
  <1> QED
    BY <1>2 DEF PassedMeansFree, Passed

-----------------------------------------------------------------------------
(* Mirrored squares.                                                        *)

(* The mirror image of a square, twice, is the square.                      *)
LEMMA MirrorSquare ==
  ASSUME NEW s \in Squares
  PROVE  /\ Mirror(s) \in Squares
         /\ Mirror(s)[1] = s[1] /\ Mirror(s)[2] = 9 - s[2]
         /\ Mirror(Mirror(s)) = s
  <1>1. s[1] \in 1 .. 8 /\ s[2] \in 1 .. 8 /\ s = <<s[1], s[2]>>
    BY SquareType
  <1>2. Mirror(s) = <<s[1], 9 - s[2]>> /\ 9 - s[2] \in 1 .. 8
    BY <1>1 DEF Mirror
  <1>3. Mirror(s) \in Squares
    BY <1>1, <1>2 DEF Squares, Lines
  <1>4. Mirror(Mirror(s)) = <<s[1], 9 - (9 - s[2])>>
    BY <1>2 DEF Mirror
  <1> QED
    BY <1>1, <1>2, <1>3, <1>4

(* A mirror image has as many squares.                                      *)
LEMMA MirrorImage ==
  ASSUME NEW A \in SUBSET Squares, NEW B \in SUBSET Squares,
         \A s \in Squares : Mirror(s) \in B <=> s \in A
  PROVE  Cardinality(B) = Cardinality(A)
  <1> DEFINE f == [s \in A |-> Mirror(s)]
  <1>1. f \in [A -> B]
    OBVIOUS
  <1>2. \A s, t \in A : f[s] = f[t] => s = t
    BY MirrorSquare
  <1>3. \A t \in B : \E s \in A : f[s] = t
    <2> SUFFICES ASSUME NEW t \in B PROVE \E s \in A : f[s] = t
      OBVIOUS
    <2>1. Mirror(t) \in A /\ Mirror(Mirror(t)) = t
      BY MirrorSquare
    <2> QED
      BY <2>1
  <1> HIDE DEF f
  <1>4. f \in Bijection(A, B)
    BY <1>1, <1>2, <1>3, Fun_IsBij
  <1>5. IsFiniteSet(A)
    <2>1. IsFiniteSet(Lines)
      <3>1. 1 \in Int /\ 8 \in Int
        OBVIOUS
      <3> QED
        BY <3>1, FS_Interval DEF Lines
    <2>2. IsFiniteSet(Squares)
      BY <2>1, FS_Product DEF Squares
    <2> QED
      BY <2>2, FS_Subset
  <1> QED
    BY <1>4, <1>5, FS_Bijection DEF ExistsBijection

(* How squares lie to each other, seen from the other side.                 *)
LEMMA MirrorRelations ==
  ASSUME NEW c \in Colours, NEW s \in Squares, NEW t \in Squares
  PROVE  /\ Adjacent(Mirror(s), Mirror(t)) <=> Adjacent(s, t)
         /\ IsAhead(Other(c), Mirror(s), Mirror(t)) <=> IsAhead(c, s, t)
         /\ PassedSpan(Other(c), Mirror(s), Mirror(t)) <=> PassedSpan(c, s, t)
         /\ Stop(Other(c), Mirror(s)) \in Squares <=> Stop(c, s) \in Squares
         /\ Mirror(t)[2] = Mirror(s)[2] + 2 * Forward(Other(c)) <=> t[2] = s[2] + 2 * Forward(c)
         /\ Mirror(s)[2] = Mirror(t)[2] + Forward(Other(c)) <=> s[2] = t[2] + Forward(c)
         /\ (Mirror(s)[2] - Mirror(t)[2]) * Forward(Other(c)) = (s[2] - t[2]) * Forward(c)
  <1>1. s[1] \in 1 .. 8 /\ s[2] \in 1 .. 8 /\ t[1] \in 1 .. 8 /\ t[2] \in 1 .. 8
    BY SquareType
  <1>2. /\ Mirror(s)[1] = s[1] /\ Mirror(s)[2] = 9 - s[2]
        /\ Mirror(t)[1] = t[1] /\ Mirror(t)[2] = 9 - t[2]
    BY MirrorSquare
  <1>3. Adjacent(Mirror(s), Mirror(t)) <=> Adjacent(s, t)
    BY <1>2 DEF Adjacent
  <1>4. IsAhead(Other(c), Mirror(s), Mirror(t)) <=> IsAhead(c, s, t)
    BY <1>1, <1>2 DEF IsAhead, Other, Colours
  <1>5. PassedSpan(Other(c), Mirror(s), Mirror(t)) <=> PassedSpan(c, s, t)
    BY <1>1, <1>2 DEF PassedSpan, IsAhead, Other, Colours
  <1>6. Stop(Other(c), Mirror(s)) \in Squares <=> Stop(c, s) \in Squares
    BY <1>1, <1>2 DEF Stop, Squares, Lines, Forward, Other, Colours
  <1>7. /\ Mirror(t)[2] = Mirror(s)[2] + 2 * Forward(Other(c)) <=> t[2] = s[2] + 2 * Forward(c)
        /\ Mirror(s)[2] = Mirror(t)[2] + Forward(Other(c)) <=> s[2] = t[2] + Forward(c)
        /\ (Mirror(s)[2] - Mirror(t)[2]) * Forward(Other(c)) = (s[2] - t[2]) * Forward(c)
    BY <1>1, <1>2 DEF Forward, Other, Colours
  <1> QED
    BY <1>3, <1>4, <1>5, <1>6, <1>7

-----------------------------------------------------------------------------
(* The board with the sides exchanged.                                      *)

(* The exchanged board is a board; its pawns are mirror images.             *)
LEMMA FlipBoard ==
  ASSUME NEW b \in PawnBoards
  PROVE  /\ Flip(b) \in PawnBoards
         /\ Flip(b).white = {Mirror(s) : s \in b.black}
         /\ Flip(b).black = {Mirror(s) : s \in b.white}
         /\ \A c \in Colours : Flip(b).king[Other(c)] = Mirror(b.king[c])
         /\ Flip(b).queens = b.queens /\ Flip(b).pieces = b.pieces
  <1>1. /\ Flip(b).white = {Mirror(s) : s \in b.black}
        /\ Flip(b).black = {Mirror(s) : s \in b.white}
        /\ Flip(b).king = [c \in Colours |-> Mirror(b.king[Other(c)])]
        /\ Flip(b).queens = b.queens /\ Flip(b).pieces = b.pieces
    BY DEF Flip, PawnBoards
  <1>2. \A c \in Colours : Other(c) \in Colours /\ Other(Other(c)) = c
    BY DEF Colours, Other
  <1>3. \A c \in Colours : b.king[c] \in Squares
    BY DEF PawnBoards
  <1>4. Flip(b).white \in SUBSET Squares /\ Flip(b).black \in SUBSET Squares
    BY <1>1, MirrorSquare DEF PawnBoards
  <1>5. Flip(b).king \in [Colours -> Squares]
    BY <1>1, <1>2, <1>3, MirrorSquare
  <1>6. Flip(b) \in PawnBoards
    BY <1>4, <1>5 DEF Flip, PawnBoards
  <1> QED
    BY <1>1, <1>2, <1>6

(* Whose pawn stands on a mirrored square.                                  *)
LEMMA FlipPawns ==
  ASSUME NEW b \in PawnBoards, NEW c \in Colours
  PROVE  /\ b[c] \subseteq Squares /\ Flip(b)[c] \subseteq Squares
         /\ \A s \in Squares : Mirror(s) \in Flip(b)[Other(c)] <=> s \in b[c]
         /\ \A s \in Flip(b)[Other(c)] : Mirror(s) \in b[c] /\ s = Mirror(Mirror(s))
  <1>1. \A A \in SUBSET Squares : \A s \in Squares : Mirror(s) \in {Mirror(t) : t \in A} <=> s \in A
    BY MirrorSquare
  <1>2. b[c] \subseteq Squares /\ Flip(b)[c] \subseteq Squares /\ Flip(b)[Other(c)] \subseteq Squares
    BY FlipBoard DEF PawnBoards, Colours, Other
  <1>3. Flip(b)[Other(c)] = {Mirror(t) : t \in b[c]}
    BY FlipBoard DEF Colours, Other
  <1>4. \A s \in Flip(b)[Other(c)] : Mirror(s) \in b[c] /\ s = Mirror(Mirror(s))
    BY <1>2, <1>3, MirrorSquare
  <1> QED
    BY <1>1, <1>2, <1>3, <1>4

(* Quantifiers over the pawns of a side, seen from the other side.          *)
LEMMA FlipAll ==
  ASSUME NEW b \in PawnBoards, NEW c \in Colours
  PROVE  /\ \A t \in b[c] : t \in Squares /\ Mirror(t) \in Flip(b)[Other(c)]
         /\ \A t \in Flip(b)[Other(c)] : \E u \in b[c] : t = Mirror(u)
         /\ \A t \in b[Other(c)] : t \in Squares /\ Mirror(t) \in Flip(b)[Other(Other(c))]
         /\ \A t \in Flip(b)[Other(Other(c))] : \E u \in b[Other(c)] : t = Mirror(u)
         /\ \A s \in Squares : Mirror(s) \in Flip(b)[Other(c)] <=> s \in b[c]
  <1>1. Other(c) \in Colours
    BY DEF Colours, Other
  <1> QED
    BY <1>1, FlipPawns

(* Each feature in turn: isolated pawns,                                    *)
LEMMA FlipIsolated ==
  ASSUME NEW b \in PawnBoards, NEW c \in Colours
  PROVE  \A s \in Squares : Mirror(s) \in Isolated(Flip(b), Other(c)) <=> s \in Isolated(b, c)
  BY FlipAll, MirrorRelations DEF Isolated

(* passed pawns,                                                            *)
LEMMA FlipPassed ==
  ASSUME NEW b \in PawnBoards, NEW c \in Colours
  PROVE  \A s \in Squares : Mirror(s) \in Passed(Flip(b), Other(c)) <=> s \in Passed(b, c)
  <1> SUFFICES ASSUME NEW s \in Squares
               PROVE  Mirror(s) \in Passed(Flip(b), Other(c)) <=> s \in Passed(b, c)
    OBVIOUS
  <1>1. (\A t \in OnFile(Flip(b)[Other(c)], Mirror(s)[1]) : ~IsAhead(Other(c), t, Mirror(s)))
          <=> \A t \in OnFile(b[c], s[1]) : ~IsAhead(c, t, s)
    <2>1. \A t \in b[c] : t \in Squares /\ Mirror(t)[1] = t[1]
      BY FlipAll, MirrorSquare
    <2>2. Mirror(s)[1] = s[1]
      BY MirrorSquare
    <2>3. \A t \in Squares : IsAhead(Other(c), Mirror(t), Mirror(s)) <=> IsAhead(c, t, s)
      BY MirrorRelations
    <2> QED
      BY <2>1, <2>2, <2>3, FlipAll DEF OnFile
  <1>2. (\A e \in Flip(b)[Other(Other(c))] : ~PassedSpan(Other(c), Mirror(s), e))
          <=> \A e \in b[Other(c)] : ~PassedSpan(c, s, e)
    BY FlipAll, MirrorRelations
  <1> QED
    BY <1>1, <1>2, FlipAll DEF Passed

(* backward pawns,                                                          *)
LEMMA FlipBackward ==
  ASSUME NEW b \in PawnBoards, NEW c \in Colours
  PROVE  \A s \in Squares : Mirror(s) \in Backward(Flip(b), Other(c)) <=> s \in Backward(b, c)
  <1> SUFFICES ASSUME NEW s \in Squares
               PROVE  Mirror(s) \in Backward(Flip(b), Other(c)) <=> s \in Backward(b, c)
    OBVIOUS
  <1>1. (\A t \in Flip(b)[Other(c)] : Adjacent(Mirror(s), t) => IsAhead(Other(c), t, Mirror(s)))
          <=> \A t \in b[c] : Adjacent(s, t) => IsAhead(c, t, s)
    BY FlipAll, MirrorRelations
  <1>2. (\E e \in Flip(b)[Other(Other(c))] :
           Adjacent(Mirror(s), e) /\ e[2] = Mirror(s)[2] + 2 * Forward(Other(c)))
          <=> \E e \in b[Other(c)] : Adjacent(s, e) /\ e[2] = s[2] + 2 * Forward(c)
    BY FlipAll, MirrorRelations
  <1>3. Stop(Other(c), Mirror(s)) \in Squares <=> Stop(c, s) \in Squares
    BY MirrorRelations
  <1> QED
    BY <1>1, <1>2, <1>3, FlipAll DEF Backward

(* the pawns of a file,                                                     *)
LEMMA FlipFile ==
  ASSUME NEW b \in PawnBoards, NEW c \in Colours, NEW f \in Lines
  PROVE  /\ OnFile(Flip(b)[Other(c)], f) = {} <=> OnFile(b[c], f) = {}
         /\ Cardinality(OnFile(Flip(b)[Other(c)], f)) = Cardinality(OnFile(b[c], f))
  <1>1. \A s \in Squares : Mirror(s) \in OnFile(Flip(b)[Other(c)], f) <=> s \in OnFile(b[c], f)
    BY FlipAll, MirrorSquare DEF OnFile
  <1>2. \A t \in OnFile(Flip(b)[Other(c)], f) : \E u \in Squares : t = Mirror(u)
    BY FlipAll DEF OnFile
  <1>3. OnFile(Flip(b)[Other(c)], f) \in SUBSET Squares /\ OnFile(b[c], f) \in SUBSET Squares
    BY FlipPawns, FlipAll, MirrorSquare DEF OnFile
  <1> QED
    BY <1>1, <1>2, <1>3, MirrorImage

(* doubled pawns,                                                           *)
LEMMA FlipDoubled ==
  ASSUME NEW b \in PawnBoards, NEW c \in Colours
  PROVE  \A s \in Squares : Mirror(s) \in Doubled(Flip(b), Other(c)) <=> s \in Doubled(b, c)
  <1> SUFFICES ASSUME NEW s \in Squares
               PROVE  Mirror(s) \in Doubled(Flip(b), Other(c)) <=> s \in Doubled(b, c)
    OBVIOUS
  <1>1. Mirror(s)[1] = s[1] /\ s[1] \in Lines
    BY MirrorSquare, SquareType DEF Lines
  <1>2. Cardinality(OnFile(Flip(b)[Other(c)], s[1])) = Cardinality(OnFile(b[c], s[1]))
    BY <1>1, FlipFile
  <1> QED
    BY <1>1, <1>2, FlipAll DEF Doubled

(* open and half-open files,                                                *)
LEMMA FlipFiles ==
  ASSUME NEW b \in PawnBoards, NEW c \in Colours
  PROVE  /\ OpenFiles(Flip(b)) = OpenFiles(b)
         /\ HalfOpenFiles(Flip(b), Other(c)) = HalfOpenFiles(b, c)
  <1>1. \A d \in Colours : Other(d) \in Colours /\ Other(Other(d)) = d
    BY DEF Colours, Other
  <1>2. \A P, Q, f : OnFile(P \cup Q, f) = {} <=> OnFile(P, f) = {} /\ OnFile(Q, f) = {}
    BY DEF OnFile
  <1>3. \A f \in Lines : /\ OnFile(Flip(b).white, f) = {} <=> OnFile(b.black, f) = {}
                         /\ OnFile(Flip(b).black, f) = {} <=> OnFile(b.white, f) = {}
    BY FlipFile DEF Colours, Other
  <1>4. OpenFiles(Flip(b)) = OpenFiles(b)
    BY <1>2, <1>3 DEF OpenFiles
  <1>5. \A f \in Lines : /\ OnFile(Flip(b)[Other(c)], f) = {} <=> OnFile(b[c], f) = {}
                         /\ OnFile(Flip(b)[c], f) = {} <=> OnFile(b[Other(c)], f) = {}
    BY <1>1, FlipFile
  <1> QED
    BY <1>1, <1>4, <1>5 DEF HalfOpenFiles

(* the pawn shield of the king,                                             *)
LEMMA FlipShield ==
  ASSUME NEW b \in PawnBoards, NEW c \in Colours
  PROVE  KingShield(Flip(b), Other(c)) = KingShield(b, c)
  <1>1. Flip(b).king[Other(c)] = Mirror(b.king[c]) /\ b.king[c] \in Squares
    BY FlipBoard DEF PawnBoards
  <1>2. Mirror(b.king[c])[1] = b.king[c][1]
    BY <1>1, MirrorSquare
  <1>3. \A f \in Lines :
          (\E s \in OnFile(Flip(b)[Other(c)], f) :
             (s[2] - Flip(b).king[Other(c)][2]) * Forward(Other(c)) \in {1, 2})
            <=> \E s \in OnFile(b[c], f) : (s[2] - b.king[c][2]) * Forward(c) \in {1, 2}
    BY <1>1, FlipAll, MirrorSquare, MirrorRelations DEF OnFile
  <1> QED
    BY <1>1, <1>2, <1>3 DEF KingShield

(* space;                                                                   *)
LEMMA FlipSpace ==
  ASSUME NEW b \in PawnBoards, NEW c \in Colours
  PROVE  \A s \in Squares : Mirror(s) \in Space(Flip(b), Other(c)) <=> s \in Space(b, c)
  <1> SUFFICES ASSUME NEW s \in Squares
               PROVE  Mirror(s) \in Space(Flip(b), Other(c)) <=> s \in Space(b, c)
    OBVIOUS
  <1>1. (IF Other(c) = "white" THEN Mirror(s)[2] > 4 ELSE Mirror(s)[2] <= 4)
          <=> (IF c = "white" THEN s[2] > 4 ELSE s[2] <= 4)
    BY MirrorSquare, SquareType DEF Other, Colours
  <1>2. (\E t \in Flip(b)[Other(c)] :
           Adjacent(Mirror(s), t) /\ Mirror(s)[2] = t[2] + Forward(Other(c)))
          <=> \E t \in b[c] : Adjacent(s, t) /\ s[2] = t[2] + Forward(c)
    BY FlipAll, MirrorRelations
  <1>3. Mirror(s) \in Squares
    BY MirrorSquare
  <1> QED
    BY <1>1, <1>2, <1>3 DEF Space

(* and so all of them.                                                      *)
LEMMA FlipFeatures ==
  ASSUME NEW b \in PawnBoards, NEW c \in Colours
  PROVE  Features(Flip(b), Other(c)) = Features(b, c)
  <1>0. Flip(b) \in PawnBoards /\ Other(c) \in Colours
    BY FlipBoard DEF Colours, Other
  <1>1. \A d \in Colours, a \in PawnBoards :
          /\ Isolated(a, d) \in SUBSET Squares /\ Doubled(a, d) \in SUBSET Squares
          /\ Backward(a, d) \in SUBSET Squares /\ Passed(a, d) \in SUBSET Squares
          /\ Space(a, d) \in SUBSET Squares
    BY FlipPawns DEF Isolated, Doubled, Backward, Passed, Space
  <1>2. Cardinality(Isolated(Flip(b), Other(c))) = Cardinality(Isolated(b, c))
    BY <1>0, <1>1, FlipIsolated, MirrorImage
  <1>3. Cardinality(Doubled(Flip(b), Other(c))) = Cardinality(Doubled(b, c))
    BY <1>0, <1>1, FlipDoubled, MirrorImage
  <1>4. Cardinality(Backward(Flip(b), Other(c))) = Cardinality(Backward(b, c))
    BY <1>0, <1>1, FlipBackward, MirrorImage
  <1>5. Cardinality(Passed(Flip(b), Other(c))) = Cardinality(Passed(b, c))
    BY <1>0, <1>1, FlipPassed, MirrorImage
  <1>6. Cardinality(Space(Flip(b), Other(c))) = Cardinality(Space(b, c))
    BY <1>0, <1>1, FlipSpace, MirrorImage
  <1> QED
    BY <1>2, <1>3, <1>4, <1>5, <1>6, FlipFiles, FlipShield DEF Features

-----------------------------------------------------------------------------
(* Archetypes.                                                              *)

(* Where a pawn of the exchanged board stands, and which files are empty.   *)
LEMMA FlipPlaces ==
  ASSUME NEW b \in PawnBoards
  PROVE  /\ \A f, r \in 1 .. 8 : /\ <<f, r>> \in Flip(b).white <=> <<f, 9 - r>> \in b.black
                                 /\ <<f, r>> \in Flip(b).black <=> <<f, 9 - r>> \in b.white
         /\ \A f \in 1 .. 8 : /\ None(Flip(b), "white", f) <=> None(b, "black", f)
                              /\ None(Flip(b), "black", f) <=> None(b, "white", f)
  <1>1. \A f, r \in 1 .. 8 : <<f, 9 - r>> \in Squares /\ Mirror(<<f, 9 - r>>) = <<f, r>>
    <2> SUFFICES ASSUME NEW f \in 1 .. 8, NEW r \in 1 .. 8
                 PROVE  <<f, 9 - r>> \in Squares /\ Mirror(<<f, 9 - r>>) = <<f, r>>
      OBVIOUS
    <2>1. 9 - r \in 1 .. 8 /\ 9 - (9 - r) = r
      OBVIOUS
    <2> QED
      BY <2>1 DEF Squares, Lines, Mirror
  <1>2. \A s \in Squares : /\ Mirror(s) \in Flip(b).white <=> s \in b.black
                           /\ Mirror(s) \in Flip(b).black <=> s \in b.white
    BY FlipPawns DEF Colours, Other
  <1>3. \A f \in 1 .. 8 : /\ None(Flip(b), "white", f) <=> None(b, "black", f)
                          /\ None(Flip(b), "black", f) <=> None(b, "white", f)
    BY FlipFile DEF None, Colours, Other, Lines
  <1> QED
    BY <1>1, <1>2, <1>3

(* Structures known by where pawns stand,                                   *)
LEMMA FlipSkeletons ==
  ASSUME NEW b \in PawnBoards
  PROVE  /\ Stonewall(Flip(b)) <=> Stonewall(b)
         /\ Hedgehog(Flip(b)) <=> Hedgehog(b)
         /\ Maroczy(Flip(b)) <=> Maroczy(b)
         /\ HangingPawns(Flip(b)) <=> HangingPawns(b)
  <1>1. /\ <<4, 5>> \in Flip(b).black <=> <<4, 4>> \in b.white
        /\ <<5, 6>> \in Flip(b).black <=> <<5, 3>> \in b.white
        /\ <<6, 5>> \in Flip(b).black <=> <<6, 4>> \in b.white
        /\ <<1, 6>> \in Flip(b).black <=> <<1, 3>> \in b.white
        /\ <<2, 6>> \in Flip(b).black <=> <<2, 3>> \in b.white
        /\ <<4, 6>> \in Flip(b).black <=> <<4, 3>> \in b.white
        /\ <<3, 5>> \in Flip(b).black <=> <<3, 4>> \in b.white
        /\ <<5, 5>> \in Flip(b).black <=> <<5, 4>> \in b.white
    BY FlipPlaces
  <1>2. /\ <<4, 4>> \in Flip(b).white <=> <<4, 5>> \in b.black
        /\ <<5, 3>> \in Flip(b).white <=> <<5, 6>> \in b.black
        /\ <<6, 4>> \in Flip(b).white <=> <<6, 5>> \in b.black
        /\ <<1, 3>> \in Flip(b).white <=> <<1, 6>> \in b.black
        /\ <<2, 3>> \in Flip(b).white <=> <<2, 6>> \in b.black
        /\ <<4, 3>> \in Flip(b).white <=> <<4, 6>> \in b.black
        /\ <<3, 4>> \in Flip(b).white <=> <<3, 5>> \in b.black
        /\ <<5, 4>> \in Flip(b).white <=> <<5, 5>> \in b.black
    BY FlipPlaces
  <1>3. \A f \in {2, 3, 4, 5} : /\ None(Flip(b), "white", f) <=> None(b, "black", f)
                                /\ None(Flip(b), "black", f) <=> None(b, "white", f)
    BY FlipPlaces
  <1>4. Stonewall(Flip(b)) <=> Stonewall(b)
    BY <1>1, <1>2 DEF Stonewall
  <1>5. Hedgehog(Flip(b)) <=> Hedgehog(b)
    BY <1>1, <1>2, <1>3 DEF Hedgehog
  <1>6. Maroczy(Flip(b)) <=> Maroczy(b)
    BY <1>1, <1>2, <1>3 DEF Maroczy
  <1>7. HangingPawns(Flip(b)) <=> HangingPawns(b)
    BY <1>1, <1>2, <1>3 DEF HangingPawns
  <1> QED
    BY <1>4, <1>5, <1>6, <1>7

(* by an isolated queen's pawn,                                             *)
LEMMA FlipIqp ==
  ASSUME NEW b \in PawnBoards
  PROVE  Iqp(Flip(b)) <=> Iqp(b)
  <1>1. \A c \in Colours : Other(c) \in Colours /\ Other(Other(c)) = c
    BY DEF Colours, Other
  <1>2. \A c \in Colours : None(Flip(b), Other(c), 4) <=> None(b, c, 4)
    BY FlipPlaces DEF Colours, Other
  <1>3. \A c \in Colours :
          OnFile(Isolated(Flip(b), Other(c)), 4) # {} <=> OnFile(Isolated(b, c), 4) # {}
    <2> SUFFICES ASSUME NEW c \in Colours
                 PROVE  OnFile(Isolated(Flip(b), Other(c)), 4) # {}
                          <=> OnFile(Isolated(b, c), 4) # {}
      OBVIOUS
    <2>1. \A s \in Isolated(b, c) :
            s \in Squares /\ Mirror(s)[1] = s[1] /\ Mirror(s) \in Isolated(Flip(b), Other(c))
      BY FlipIsolated, FlipAll, MirrorSquare DEF Isolated
    <2>2. \A t \in Isolated(Flip(b), Other(c)) : \E s \in Isolated(b, c) : t = Mirror(s)
      BY FlipIsolated, FlipAll DEF Isolated
    <2> QED
      BY <2>1, <2>2 DEF OnFile
  <1> QED
    BY <1>1, <1>2, <1>3 DEF Iqp

(* by where the kings castled,                                              *)
LEMMA FlipCastling ==
  ASSUME NEW b \in PawnBoards
  PROVE  OppositeCastling(Flip(b)) <=> OppositeCastling(b)
  <1>1. \A c \in Colours : Other(c) \in Colours /\ Other(Other(c)) = c
    BY DEF Colours, Other
  <1>2. \A c \in Colours : Flip(b).king[Other(c)][1] = b.king[c][1]
    BY FlipBoard, MirrorSquare DEF PawnBoards
  <1> QED
    BY <1>1, <1>2 DEF OppositeCastling

(* or by being symmetric.                                                   *)
LEMMA FlipSymmetric ==
  ASSUME NEW b \in PawnBoards
  PROVE  /\ Symmetric(Flip(b)) <=> Symmetric(b)
         /\ Symmetric(b) => (CentralRam(Flip(b)) <=> CentralRam(b))
  <1>1. b.white \in SUBSET Squares /\ b.black \in SUBSET Squares
    BY DEF PawnBoards
  <1>2. \A A \in SUBSET Squares : {<<s[1], 9 - s[2]>> : s \in A} = {Mirror(s) : s \in A}
    BY DEF Mirror
  <1>3. \A A \in SUBSET Squares : {Mirror(s) : s \in {Mirror(t) : t \in A}} = A
    BY MirrorSquare
  <1>4. Flip(b).white = {Mirror(s) : s \in b.black} /\ Flip(b).black = {Mirror(s) : s \in b.white}
    BY FlipBoard
  <1>5. b.black = {Mirror(s) : s \in b.white} => Flip(b).white = b.white /\ Flip(b).black = b.black
    BY <1>1, <1>3, <1>4
  <1>6. Flip(b).black = {Mirror(s) : s \in Flip(b).white} => b.black = {Mirror(s) : s \in b.white}
    BY <1>1, <1>3, <1>4
  <1>7. Symmetric(b) => Flip(b).white = b.white /\ Flip(b).black = b.black
    BY <1>1, <1>2, <1>5 DEF Symmetric
  <1>8. Symmetric(Flip(b)) => Symmetric(b)
    <2>1. Flip(b).white \in SUBSET Squares
      BY FlipBoard DEF PawnBoards
    <2>2. Symmetric(Flip(b)) => b.black = {Mirror(s) : s \in b.white}
      BY <1>2, <1>6, <2>1 DEF Symmetric
    <2> QED
      BY <1>1, <1>2, <1>5, <2>2 DEF Symmetric
  <1> QED
    BY <1>7, <1>8 DEF Symmetric, CentralRam

(* Pawn features and archetypes do not depend on who is White (pawns.cpp,   *)
(* features.cpp, classifyArchetype), except for the structures that are     *)
(* known from one side only.                                                *)
THEOREM AlikeForBoth ==
  ASSUME NEW b \in PawnBoards
  PROVE  ColourBlind(b)
  <1>1. \A c \in Colours : Features(Flip(b), Other(c)) = Features(b, c)
    BY FlipFeatures
  <1>2. EndgameSimplified(Flip(b)) <=> EndgameSimplified(b)
    BY FlipBoard DEF EndgameSimplified
  <1>4. CASE Classify(b) \in {"carlsbad", "french_chain", "kid_chain"}
    BY <1>1, <1>4 DEF ColourBlind
  <1>5. CASE Classify(Flip(b)) \in {"carlsbad", "french_chain", "kid_chain"}
    BY <1>1, <1>5 DEF ColourBlind
  <1>6. CASE /\ Classify(b) \notin {"carlsbad", "french_chain", "kid_chain"}
             /\ Classify(Flip(b)) \notin {"carlsbad", "french_chain", "kid_chain"}
    <2>1. Classify(Flip(b)) = Classify(b)
      BY <1>2, <1>6, FlipSkeletons, FlipIqp, FlipCastling, FlipSymmetric DEF Classify
    <2> QED
      BY <1>1, <2>1 DEF ColourBlind
  <1> QED
    BY <1>4, <1>5, <1>6

-----------------------------------------------------------------------------
(* Exchange.                                                                *)

(* What a piece is worth: a king more than anything it could be taken with. *)
Kinds == DOMAIN PieceValue
Value(k) == PieceValue[k]
Most == 20000

(* What pieces are worth, in this order.                                    *)
LEMMA PieceWorth ==
  ASSUME NEW k \in Kinds
  PROVE  /\ Most \in Nat /\ Value(k) \in 100 .. Most
         /\ k # "king" => Value(k) <= 900
         /\ k = "king" => Value(k) = Most
         /\ 2000 <= Most
  BY DEF Kinds, Value, Most, PieceValue

(* A set of numbers with a bound has a greatest one.                        *)
LEMMA GreatestOf ==
  ASSUME NEW S, S \subseteq Int, S # {}, NEW n \in Int, \A k \in S : k <= n
  PROVE  Max(S) \in S /\ \A k \in S : k <= Max(S)
  <1> DEFINE gaps == {n - k : k \in S}
  <1>1. gaps \subseteq Nat /\ gaps # {}
    <2>1. \A k \in S : k \in Int /\ k <= n
      OBVIOUS
    <2>2. \A k \in S : n - k \in Nat
      BY <2>1
    <2> QED
      BY <2>2
  <1>2. PICK g \in gaps : \A h \in gaps : g <= h
    BY <1>1, LeastOf
  <1>3. PICK m \in S : g = n - m
    BY <1>2
  <1>4. \A k \in S : k <= m
    <2> SUFFICES ASSUME NEW k \in S PROVE k <= m
      OBVIOUS
    <2>1. n - m <= n - k
      BY <1>2, <1>3
    <2>2. k \in Int /\ m \in Int
      OBVIOUS
    <2> QED
      BY <2>1, <2>2
  <1>5. \A k \in S : m >= k
    BY <1>4
  <1> QED
    BY <1>5 DEF Max

(* A step that leads from any value to another can be repeated.             *)
Stays(step, X) == step \in [X -> X]
Orbit(f, x, step, X) ==
  f \in [Nat -> X] /\ f[0] = x /\ \A n \in Nat : f[n + 1] = step[f[n]]

(* It has an orbit from every value.                                        *)
LEMMA Repeated ==
  ASSUME NEW X, NEW x \in X, NEW step, Stays(step, X)
  PROVE  \E f : Orbit(f, x, step, X)
  <1> DEFINE First(p, n) == p[0] = x /\ \A i \in 0 .. n - 1 : p[i + 1] = step[p[i]]
             good == {n \in Nat : \E p \in [0 .. n -> X] : First(p, n)}
  <1>0. step \in [X -> X]
    BY DEF Stays
  <1>1. \A n \in Nat : n \in good
    <2>1. 0 \in good
      <3> DEFINE p == [i \in 0 .. 0 |-> x]
      <3>1. p \in [0 .. 0 -> X] /\ First(p, 0)
        OBVIOUS
      <3> QED
        BY <3>1
    <2>2. ASSUME NEW n \in Nat, n \in good
          PROVE  n + 1 \in good
      <3>1. PICK p \in [0 .. n -> X] : First(p, n)
        BY <2>2
      <3> DEFINE q == [i \in 0 .. n + 1 |-> IF i = n + 1 THEN step[p[n]] ELSE p[i]]
      <3>2. n \in 0 .. n /\ n \in 0 .. n + 1 /\ n # n + 1 /\ n + 1 \in 0 .. n + 1 /\ 0 \in 0 .. n
            /\ 0 # n + 1 /\ 0 \in 0 .. n + 1
        OBVIOUS
      <3>3. q \in [0 .. n + 1 -> X]
        BY <1>0, <3>1, <3>2
      <3>4. q[0] = x
        BY <3>1, <3>2
      <3>5. q[n + 1] = step[q[n]]
        BY <3>2
      <3>6. \A i \in 0 .. n - 1 : q[i + 1] = step[q[i]]
        <4>1. \A i \in 0 .. n - 1 : i \in 0 .. n + 1 /\ i + 1 \in 0 .. n + 1 /\ i # n + 1 /\ i + 1 # n + 1
          OBVIOUS
        <4> QED
          BY <3>1, <4>1
      <3> HIDE DEF q
      <3>7. \A i \in 0 .. (n + 1) - 1 : i = n \/ i \in 0 .. n - 1
        OBVIOUS
      <3>8. First(q, n + 1)
        BY <3>4, <3>5, <3>6, <3>7
      <3> QED
        BY <3>3, <3>8
    <2> HIDE DEF good
    <2> QED
      BY <2>1, <2>2, CountingOn
  <1> DEFINE P(n) == CHOOSE p \in [0 .. n -> X] : First(p, n)
             f == [n \in Nat |-> P(n)[n]]
  <1>2. \A n \in Nat : P(n) \in [0 .. n -> X] /\ First(P(n), n)
    BY <1>1
  <1> HIDE DEF P
  <1>3. ASSUME NEW n \in Nat
        PROVE  P(n + 1)[n] = P(n)[n]
    <2> DEFINE p == P(n)
               q == P(n + 1)
               same == {i \in Nat : i <= n => q[i] = p[i]}
    <2>1. /\ p[0] = x /\ q[0] = x
          /\ \A i \in 0 .. n - 1 : p[i + 1] = step[p[i]] /\ q[i + 1] = step[q[i]]
      <3>1. First(p, n) /\ First(q, n + 1)
        BY <1>2
      <3>2. \A i \in 0 .. n - 1 : i \in 0 .. (n + 1) - 1
        OBVIOUS
      <3> HIDE DEF p, q
      <3> QED
        BY <3>1, <3>2
    <2> HIDE DEF p, q
    <2>2. 0 \in same
      BY <2>1
    <2>3. \A i \in 0 .. n - 1 : i \in same => i + 1 \in same
      BY <2>1
    <2> HIDE DEF same
    <2>4. \A i \in 0 .. n : i \in same
      BY <2>2, <2>3, CountingUp
    <2> QED
      BY <2>4 DEF same, p, q
  <1>4. f \in [Nat -> X]
    <2>1. \A n \in Nat : n \in 0 .. n
      OBVIOUS
    <2> QED
      BY <1>2, <2>1
  <1>5. f[0] = x
    BY <1>2
  <1>6. ASSUME NEW n \in Nat PROVE f[n + 1] = step[f[n]]
    <2>1. First(P(n + 1), n + 1) /\ n \in 0 .. (n + 1) - 1
      BY <1>2
    <2> QED
      BY <1>3, <2>1
  <1> HIDE DEF f
  <1>7. Orbit(f, x, step, X)
    BY <1>4, <1>5, <1>6 DEF Orbit
  <1> QED
    BY <1>7

(* The pieces of both sides; a capture takes one away.                      *)
Size(e) == Cardinality(e.mine) + Cardinality(e.theirs)

(* An exchange has the parts it is made of, each of its type.               *)
LEMMA TradeFields ==
  ASSUME NEW m, NEW t, NEW k, NEW l
  PROVE  /\ Trade(m, t, k, l).mine = m /\ Trade(m, t, k, l).theirs = t
         /\ Trade(m, t, k, l).target = k /\ Trade(m, t, k, l).layout = l
         /\ m \in Sides /\ t \in Sides /\ k \in Kinds /\ l \in Layouts => Trade(m, t, k, l) \in Trades
  BY DEF Trade, Trades, Kinds

(* The parts of an exchange have their types.                               *)
LEMMA TradeParts ==
  ASSUME NEW e \in Trades
  PROVE  e.mine \in Sides /\ e.theirs \in Sides /\ e.target \in Kinds /\ e.layout \in Layouts
  BY DEF Trade, Trades, Kinds

(* A side is finite, and stays one with a piece less.                       *)
LEMMA SideType ==
  ASSUME NEW m \in Sides
  PROVE  /\ IsFiniteSet(m) /\ Cardinality(m) \in Nat
         /\ \A a \in m : /\ a.kind \in Kinds /\ a.pinned \in BOOLEAN
                         /\ m \ {a} \in Sides /\ Cardinality(m \ {a}) = Cardinality(m) - 1
  <1>1. IsFiniteSet(m) /\ Cardinality(m) \in Nat
    BY FS_CardinalityType DEF Sides
  <1>2. ASSUME NEW a \in m
        PROVE  a.kind \in Kinds /\ a.pinned \in BOOLEAN
    BY DEF Sides, Pieces, Kinds
  <1>3. ASSUME NEW a \in m
        PROVE  m \ {a} \in Sides /\ Cardinality(m \ {a}) = Cardinality(m) - 1
    BY <1>1, FS_RemoveElement DEF Sides
  <1> QED
    BY <1>1, <1>2, <1>3

(* After a capture there is one piece less.                                 *)
LEMMA TakenShrinks ==
  ASSUME NEW e \in Trades, NEW a \in e.mine
  PROVE  Taken(e, a) \in Trades /\ Size(e) \in Nat /\ Size(Taken(e, a)) = Size(e) - 1
  <1>1. e.mine \in Sides /\ e.theirs \in Sides /\ e.layout \in Layouts
    BY TradeParts
  <1>2. /\ a.kind \in Kinds /\ e.mine \ {a} \in Sides
        /\ Cardinality(e.mine \ {a}) = Cardinality(e.mine) - 1
        /\ Cardinality(e.mine) \in Nat /\ Cardinality(e.theirs) \in Nat
    BY <1>1, SideType
  <1>3. /\ Taken(e, a) \in Trades
        /\ Taken(e, a).mine = e.theirs /\ Taken(e, a).theirs = e.mine \ {a}
    BY <1>1, <1>2, TradeFields DEF Taken
  <1> QED
    BY <1>2, <1>3 DEF Size

(* What the side to move has of its captures, if it makes one of these or   *)
(* none, and an exchange is worth what g says.                              *)
Stake(e) == PieceValue[e.target]
Says(g, e) == g[e]
Worths(e, g, tries) == {Stake(e) - Says(g, Taken(e, a)) : a \in tries}
Best(e, g, tries) == Max({0} \cup Worths(e, g, tries))
Rated(g) == \A e \in Trades : Says(g, e) \in 0 .. Most

(* What can be won is a piece's worth.                                      *)
LEMMA StakeType ==
  ASSUME NEW e \in Trades
  PROVE  Most \in Nat /\ Stake(e) \in 100 .. Most
  <1>1. \A k : k \in Kinds => Most \in Nat /\ Value(k) \in 100 .. Most
    BY PieceWorth
  <1>2. e.target \in Kinds
    BY TradeParts
  <1>3. Most \in Nat /\ Value(e.target) \in 100 .. Most
    BY <1>1, <1>2, Zenon
  <1> QED
    BY <1>3, Zenon DEF Stake, Value

(* Making the best of the captures wins something up to the piece.          *)
LEMMA BestType ==
  ASSUME NEW e \in Trades, NEW g, NEW tries,
         \A a \in tries : Says(g, Taken(e, a)) \in 0 .. Most
  PROVE  /\ Best(e, g, tries) \in 0 .. Stake(e)
         /\ Best(e, g, tries) \in 0 .. Most
         /\ Best(e, g, tries) = 0
            \/ \E a \in tries : Best(e, g, tries) = Stake(e) - Says(g, Taken(e, a))
         /\ \A a \in tries : Stake(e) - Says(g, Taken(e, a)) <= Best(e, g, tries)
  <1> DEFINE v == Stake(e)
             all == {0} \cup Worths(e, g, tries)
  <1>1. v \in 100 .. Most /\ Most \in Nat
    BY StakeType
  <1> HIDE DEF v
  <1>2. \A a \in tries : Says(g, Taken(e, a)) \in 0 .. Most
    OBVIOUS
  <1>3. \A w \in Worths(e, g, tries) : w \in Int /\ w <= v
    <2> SUFFICES ASSUME NEW a \in tries
                 PROVE  v - Says(g, Taken(e, a)) \in Int /\ v - Says(g, Taken(e, a)) <= v
      BY DEF Worths, v
    <2> QED
      BY <1>1, <1>2
  <1>4. all \subseteq Int /\ all # {} /\ v \in Int /\ \A w \in all : w <= v
    BY <1>1, <1>3
  <1>5. Max(all) \in all /\ \A w \in all : w <= Max(all)
    BY <1>4, GreatestOf
  <1>6. Max(all) \in Int /\ Max(all) <= v /\ 0 <= Max(all)
    BY <1>4, <1>5
  <1>7. \A a \in tries : v - Says(g, Taken(e, a)) \in all
    BY DEF Worths, v
  <1>8. Best(e, g, tries) = Max(all)
    BY DEF Best
  <1> HIDE DEF all
  <1>9. Max(all) = 0 \/ \E a \in tries : Max(all) = v - Says(g, Taken(e, a))
    BY <1>5 DEF all, Worths, v
  <1>10. /\ Max(all) \in 0 .. v /\ Max(all) \in 0 .. Most
         /\ \A a \in tries : v - Says(g, Taken(e, a)) <= Max(all)
    BY <1>1, <1>5, <1>6, <1>7
  <1> QED
    BY <1>8, <1>9, <1>10 DEF v

(* Whichever captures are tried, the recursion over what is left is well    *)
(* founded: there is a function that satisfies it.                          *)
Tries(tries, e) == tries[e]
Follows(g, tries) == \A e \in Trades : Says(g, e) = Best(e, g, Tries(tries, e))

Ratings == [Trades -> 0 .. Most]

(* Repeated from nothing, the recursion comes to rest at every exchange.    *)
LEMMA TradesEnd ==
  ASSUME NEW tries, \A e \in Trades : \A a \in Tries(tries, e) : a \in e.mine
  PROVE  \E g \in Ratings : Follows(g, tries)
  <1> DEFINE zero == [e \in Trades |-> 0]
             step == [g \in Ratings |-> [e \in Trades |-> Best(e, g, Tries(tries, e))]]
  <1>1. zero \in Ratings
    <2>1. Most \in Nat
      BY DEF Most
    <2> QED
      BY <2>1 DEF Ratings
  <1>2. step \in [Ratings -> Ratings]
    <2>1. \A g \in Ratings : Rated(g)
      BY DEF Rated, Says, Ratings
    <2>2. \A g \in Ratings : \A e \in Trades : Best(e, g, Tries(tries, e)) \in 0 .. Most
      BY <2>1, TakenShrinks, BestType DEF Rated
    <2>3. \A g \in Ratings : [e \in Trades |-> Best(e, g, Tries(tries, e))] \in Ratings
      BY <2>2 DEF Ratings
    <2> QED
      BY <2>3
  <1> HIDE DEF zero, step
  <1>3. PICK f \in [Nat -> Ratings] : f[0] = zero /\ \A n \in Nat : f[n + 1] = step[f[n]]
    <2>1. Stays(step, Ratings)
      BY <1>2 DEF Stays
    <2>2. \E f : Orbit(f, zero, step, Ratings)
      BY <1>1, <2>1, Repeated
    <2> QED
      BY <2>2 DEF Orbit
  <1> DEFINE F(n, e) == Says(f[n], e)
  <1>4. \A n \in Nat : \A e \in Trades : F(n, e) \in 0 .. Most
    BY <1>3 DEF Ratings, Says
  <1>5. \A n \in Nat : \A e \in Trades : F(n + 1, e) = Best(e, f[n], Tries(tries, e))
    <2>1. \A n \in Nat : f[n + 1] = [e \in Trades |-> Best(e, f[n], Tries(tries, e))]
      BY <1>3 DEF step
    <2> QED
      BY <2>1 DEF Says
  <1>6. \A e \in Trades : Size(e) \in Nat
    BY TradeParts, SideType DEF Size
  <1> DEFINE g == [e \in Trades |-> F(Size(e), e)]
  <1>7. \A e \in Trades : Says(g, e) = F(Size(e), e)
    BY DEF Says
  <1>8. g \in Ratings
    BY <1>4, <1>6 DEF Ratings
  <1>9. Rated(g)
    BY <1>4, <1>6, <1>7 DEF Rated
  <1> HIDE DEF g
  <1>10. ASSUME NEW e \in Trades
         PROVE  Says(g, e) = Best(e, g, Tries(tries, e))
    <2> DEFINE n == Size(e)
    <2>1. n \in Nat /\ Says(g, e) = F(n, e)
      BY <1>6, <1>7
    <2> HIDE DEF n, F
    <2>2. CASE n = 0
      <3>1. e.mine = {}
        <4>1. /\ IsFiniteSet(e.mine) /\ Cardinality(e.mine) \in Nat /\ Cardinality(e.theirs) \in Nat
          BY TradeParts, SideType
        <4>2. Cardinality(e.mine) = 0
          BY <2>2, <4>1 DEF Size, n
        <4> QED
          BY <4>1, <4>2, FS_EmptySet
      <3>2. \A a \in Tries(tries, e) : FALSE
        BY <3>1
      <3>3. Best(e, g, Tries(tries, e)) = 0
        BY <3>2, BestType
      <3>4. F(0, e) = 0
        BY <1>3 DEF zero, F, Says
      <3> QED
        BY <2>1, <2>2, <3>3, <3>4
    <2>3. CASE n # 0
      <3>1. n - 1 \in Nat /\ (n - 1) + 1 = n
        BY <2>1, <2>3
      <3>2. F(n, e) = Best(e, f[n - 1], Tries(tries, e))
        BY <1>5, <3>1
      <3>3. \A a \in Tries(tries, e) : Says(f[n - 1], Taken(e, a)) = Says(g, Taken(e, a))
        <4> SUFFICES ASSUME NEW a \in Tries(tries, e)
                     PROVE  Says(f[n - 1], Taken(e, a)) = Says(g, Taken(e, a))
          OBVIOUS
        <4>1. a \in e.mine
          OBVIOUS
        <4>2. Taken(e, a) \in Trades /\ Size(Taken(e, a)) = n - 1
          BY <4>1, TakenShrinks DEF n
        <4> QED
          BY <1>7, <4>2 DEF F
      <3>4. Worths(e, f[n - 1], Tries(tries, e)) = Worths(e, g, Tries(tries, e))
        BY <3>3 DEF Worths
      <3> QED
        BY <2>1, <3>2, <3>4 DEF Best
    <2> QED
      BY <2>2, <2>3
  <1> QED
    BY <1>8, <1>10 DEF Follows

(* It is the only one, so whatever follows the recursion rates exchanges.   *)
LEMMA FollowersRate ==
  ASSUME NEW g, NEW tries, \A e \in Trades : \A a \in Tries(tries, e) : a \in e.mine,
         Follows(g, tries)
  PROVE  Rated(g)
  <1> DEFINE good == {n \in Nat : \A e \in Trades : Size(e) < n => Says(g, e) \in 0 .. Most}
  <1>1. \A e \in Trades : Size(e) \in Nat
    BY TradeParts, SideType DEF Size
  <1>2. 0 \in good
    BY <1>1
  <1>3. ASSUME NEW n \in Nat, n \in good
        PROVE  n + 1 \in good
    <2> SUFFICES ASSUME NEW e \in Trades, Size(e) < n + 1
                 PROVE  Says(g, e) \in 0 .. Most
      OBVIOUS
    <2>1. \A a \in Tries(tries, e) : Taken(e, a) \in Trades /\ Size(Taken(e, a)) = Size(e) - 1
      BY TakenShrinks
    <2>2. \A a \in Tries(tries, e) : Size(Taken(e, a)) < n
      BY <1>1, <2>1
    <2>3. \A a \in Tries(tries, e) : Says(g, Taken(e, a)) \in 0 .. Most
      BY <1>3, <2>1, <2>2
    <2>4. Best(e, g, Tries(tries, e)) \in 0 .. Most
      BY <2>3, BestType
    <2> QED
      BY <2>4 DEF Follows
  <1> HIDE DEF good
  <1>4. \A n \in Nat : n \in good
    BY <1>2, <1>3, CountingOn
  <1>5. ASSUME NEW e \in Trades
        PROVE  Says(g, e) \in 0 .. Most
    <2>1. Size(e) + 1 \in good /\ Size(e) < Size(e) + 1
      BY <1>1, <1>4
    <2> QED
      BY <2>1 DEF good
  <1> QED
    BY <1>5 DEF Rated

(* Gains and Swaps are what their definitions say.                          *)
LEMMA GainsFollow ==
  Follows(Gains, [e \in Trades |-> Legals(e)])
  <1> DEFINE tries == [e \in Trades |-> Legals(e)]
             Step(f) == [e \in Trades |->
               Max({0} \cup {PieceValue[e.target] - f[Taken(e, a)] : a \in Legals(e)})]
  <1>0. \A e \in Trades : Tries(tries, e) = Legals(e)
    BY DEF Tries
  <1>1. PICK g \in Ratings : Follows(g, tries)
    <2>1. \A e \in Trades : \A a \in Tries(tries, e) : a \in e.mine
      BY <1>0 DEF Legals
    <2> HIDE DEF tries
    <2> QED
      BY <2>1, TradesEnd
  <1>2. \A e \in Trades : g[e] = Max({0} \cup {PieceValue[e.target] - g[Taken(e, a)] : a \in Legals(e)})
    BY <1>0, <1>1 DEF Best, Worths, Stake, Says, Follows
  <1>3. g = Step(g)
    <2>1. g = [e \in Trades |-> g[e]]
      BY DEF Ratings
    <2> QED
      BY <1>2, <2>1
  <1>4. Gains = Step(Gains)
    BY <1>3, Zenon DEF Gains
  <1>5. \A e \in Trades : Gains[e] = Step(Gains)[e]
    BY <1>4, Zenon
  <1>6. \A e \in Trades :
          Gains[e] = Max({0} \cup {PieceValue[e.target] - Gains[Taken(e, a)] : a \in Legals(e)})
    BY <1>5
  <1>7. \A e \in Trades : Says(Gains, e) = Best(e, Gains, Legals(e))
    BY <1>6 DEF Best, Worths, Stake, Says
  <1> QED
    BY <1>0, <1>7 DEF Follows

(* The capture the textbook swap makes.                                     *)
Cheapest(e) == CHOOSE a \in Legals(e) : \A x \in Legals(e) : PieceValue[a.kind] <= PieceValue[x.kind]
Price(a) == PieceValue[a.kind]

(* What a piece costs.                                                      *)
LEMMA PriceType ==
  ASSUME NEW m \in Sides, NEW a \in m
  PROVE  /\ Most \in Nat /\ Price(a) \in 100 .. Most /\ Price(a) = Value(a.kind)
         /\ a.kind # "king" => Price(a) <= 900
         /\ a.kind = "king" => Price(a) = Most
         /\ 2000 <= Most
  <1>1. a.kind \in Kinds
    BY SideType
  <1>2. Price(a) = Value(a.kind)
    BY DEF Price, Value
  <1>3. \A k \in Kinds : /\ Most \in Nat /\ Value(k) \in 100 .. Most
                         /\ k # "king" => Value(k) <= 900
                         /\ k = "king" => Value(k) = Most
                         /\ 2000 <= Most
    BY PieceWorth
  <1> QED
    BY <1>1, <1>2, <1>3

(* There is a cheapest capture when there is any.                           *)
LEMMA CheapestIs ==
  ASSUME NEW e \in Trades, Legals(e) # {}
  PROVE  Cheapest(e) \in Legals(e) /\ \A x \in Legals(e) : Price(Cheapest(e)) <= Price(x)
  <1> DEFINE prices == {Price(a) : a \in Legals(e)}
  <1>1. \A a \in Legals(e) : Price(a) \in Nat
    <2>1. e.mine \in Sides /\ \A a \in Legals(e) : a \in e.mine
      BY TradeParts DEF Legals
    <2>2. \A a \in Legals(e) : Most \in Nat /\ Price(a) \in 100 .. Most
      BY <2>1, PriceType
    <2> QED
      BY <2>2
  <1>2. prices \subseteq Nat /\ prices # {}
    BY <1>1
  <1>3. PICK p \in prices : \A q \in prices : p <= q
    BY <1>2, LeastOf
  <1>4. PICK a \in Legals(e) : p = Price(a)
    BY <1>3
  <1>5. \A x \in Legals(e) : Price(a) <= Price(x)
    BY <1>3, <1>4
  <1>6. \A x \in Legals(e) : PieceValue[a.kind] <= PieceValue[x.kind]
    BY <1>5 DEF Price
  <1>7. /\ Cheapest(e) \in Legals(e)
        /\ \A x \in Legals(e) : PieceValue[Cheapest(e).kind] <= PieceValue[x.kind]
    BY <1>6, Zenon DEF Cheapest
  <1> QED
    BY <1>7 DEF Price

(* Swaps tries the cheapest capture only.                                   *)
LEMMA SwapsFollow ==
  Follows(Swaps, [e \in Trades |-> {a \in Legals(e) : a = Cheapest(e)}])
  <1> DEFINE only(e) == {a \in Legals(e) : a = Cheapest(e)}
             tries == [e \in Trades |-> only(e)]
             Step(f) == [e \in Trades |->
               IF Legals(e) = {} THEN 0
               ELSE Max({0, PieceValue[e.target] - f[Taken(e, Cheapest(e))]})]
  <1>0. \A e \in Trades : Tries(tries, e) = only(e)
    BY DEF Tries
  <1>1. PICK g \in Ratings : Follows(g, tries)
    <2>1. \A e \in Trades : \A a \in Tries(tries, e) : a \in e.mine
      BY <1>0 DEF Legals
    <2> HIDE DEF tries
    <2> QED
      BY <2>1, TradesEnd
  <1>2. ASSUME NEW f, NEW e \in Trades
        PROVE  Best(e, f, only(e)) =
                 IF Legals(e) = {} THEN 0
                 ELSE Max({0, PieceValue[e.target] - f[Taken(e, Cheapest(e))]})
    <2>1. CASE Legals(e) = {}
      <3>1. \A a \in only(e) : FALSE
        BY <2>1
      <3>2. Best(e, f, only(e)) = 0
        BY <3>1, BestType
      <3> QED
        BY <2>1, <3>2
    <2>2. CASE Legals(e) # {}
      <3>1. only(e) = {Cheapest(e)}
        BY <2>2, CheapestIs
      <3>2. Best(e, f, {Cheapest(e)}) = Max({0, PieceValue[e.target] - f[Taken(e, Cheapest(e))]})
        <4>1. Worths(e, f, {Cheapest(e)}) = {Stake(e) - Says(f, Taken(e, Cheapest(e)))}
          BY DEF Worths
        <4>2. Best(e, f, {Cheapest(e)}) = Max({0, Stake(e) - Says(f, Taken(e, Cheapest(e)))})
          <5>1. {0} \cup {Stake(e) - Says(f, Taken(e, Cheapest(e)))}
                = {0, Stake(e) - Says(f, Taken(e, Cheapest(e)))}
            OBVIOUS
          <5> QED
            BY <4>1, <5>1 DEF Best
        <4> QED
          BY <4>2 DEF Stake, Says
      <3> QED
        BY <2>2, <3>1, <3>2
    <2> QED
      BY <2>1, <2>2
  <1> HIDE DEF only
  <1>3. g = Step(g)
    <2>1. \A e \in Trades : g[e] = Best(e, g, only(e))
      BY <1>0, <1>1 DEF Follows, Says
    <2>2. \A e \in Trades : g[e] = Step(g)[e]
      BY <1>2, <2>1
    <2>3. g = [e \in Trades |-> g[e]]
      BY DEF Ratings
    <2> QED
      BY <2>2, <2>3
  <1>4. Swaps = Step(Swaps)
    BY <1>3, Zenon DEF Swaps, Cheapest
  <1>5. \A e \in Trades : Swaps[e] = Step(Swaps)[e]
    BY <1>4, Zenon
  <1>6. \A e \in Trades : Says(Swaps, e) = Best(e, Swaps, only(e))
    BY <1>2, <1>5 DEF Says
  <1> QED
    BY <1>0, <1>6 DEF Follows, only

(* What the other side has of the exchange once a has captured.             *)
Answer(a, m, t, l) == Gain(t, m \ {a}, a.kind, l)
SwapAnswer(a, m, t, l) == Swap(t, m \ {a}, a.kind, l)

(* An exchange and what the functions say of it.                            *)
LEMMA TradeIs ==
  ASSUME NEW m \in Sides, NEW t \in Sides, NEW k \in Kinds, NEW l \in Layouts
  PROVE  LET e == Trade(m, t, k, l) IN
         /\ e \in Trades /\ e.mine = m
         /\ Stake(e) = Value(k) /\ Most \in Nat /\ Value(k) \in 100 .. Most
         /\ Legals(e) = {a \in m : Legal(a, m, t, l)}
         /\ \A a \in m : /\ Says(Gains, Taken(e, a)) = Answer(a, m, t, l)
                         /\ Says(Swaps, Taken(e, a)) = SwapAnswer(a, m, t, l)
         /\ Says(Gains, e) = Gain(m, t, k, l) /\ Says(Swaps, e) = Swap(m, t, k, l)
  <1> DEFINE e == Trade(m, t, k, l)
  <1>1. /\ e \in Trades /\ e.mine = m /\ e.theirs = t /\ e.target = k /\ e.layout = l
    BY TradeFields
  <1>2. Says(Gains, e) = Gain(m, t, k, l) /\ Says(Swaps, e) = Swap(m, t, k, l)
    BY DEF Says, Gain, Swap
  <1> HIDE DEF e
  <1>3. \A a \in m : Taken(e, a) = Trade(t, m \ {a}, a.kind, l)
    BY <1>1 DEF Taken
  <1>4. \A a \in m : /\ Says(Gains, Taken(e, a)) = Answer(a, m, t, l)
                     /\ Says(Swaps, Taken(e, a)) = SwapAnswer(a, m, t, l)
    BY <1>3 DEF Says, Answer, SwapAnswer, Gain, Swap
  <1>5. Legals(e) = {a \in m : Legal(a, m, t, l)}
    BY <1>1 DEF Legals
  <1>6. Stake(e) = Value(k)
    BY <1>1 DEF Stake, Value
  <1>7. Most \in Nat /\ Value(k) \in 100 .. Most
    BY PieceWorth
  <1> QED
    BY <1>1, <1>2, <1>4, <1>5, <1>6, <1>7 DEF e

(* _gain of an exchange in terms of what the answers are worth.             *)
LEMMA GainMeans ==
  ASSUME NEW m \in Sides, NEW t \in Sides, NEW k \in Kinds, NEW l \in Layouts
  PROVE  /\ Value(k) \in Nat /\ Gain(m, t, k, l) \in Nat /\ Gain(m, t, k, l) <= Value(k)
         /\ \A a \in m : Legal(a, m, t, l) => Value(k) - Answer(a, m, t, l) <= Gain(m, t, k, l)
         /\ Gain(m, t, k, l) = 0
            \/ \E a \in m : Legal(a, m, t, l) /\ Gain(m, t, k, l) = Value(k) - Answer(a, m, t, l)
  <1> DEFINE e == Trade(m, t, k, l)
             tries == [x \in Trades |-> Legals(x)]
  <1>1. /\ e \in Trades /\ e.mine = m
        /\ Stake(e) = Value(k) /\ Most \in Nat /\ Value(k) \in 100 .. Most
        /\ Legals(e) = {a \in m : Legal(a, m, t, l)}
        /\ \A a \in m : Says(Gains, Taken(e, a)) = Answer(a, m, t, l)
        /\ Says(Gains, e) = Gain(m, t, k, l)
    BY TradeIs
  <1> HIDE DEF e
  <1>2. \A x \in Trades : Tries(tries, x) = Legals(x)
    BY DEF Tries
  <1>3. Follows(Gains, tries)
    BY GainsFollow
  <1> HIDE DEF tries
  <1>4. Rated(Gains)
    <2>1. \A x \in Trades : \A a \in Tries(tries, x) : a \in x.mine
      BY <1>2 DEF Legals
    <2> QED
      BY <1>3, <2>1, FollowersRate
  <1>5. Says(Gains, e) = Best(e, Gains, Legals(e))
    BY <1>1, <1>2, <1>3 DEF Follows
  <1>6. \A a \in Legals(e) : Says(Gains, Taken(e, a)) \in 0 .. Most
    BY <1>1, <1>4, TakenShrinks DEF Rated
  <1>7. /\ Best(e, Gains, Legals(e)) \in 0 .. Stake(e)
        /\ Best(e, Gains, Legals(e)) = 0
           \/ \E a \in Legals(e) : Best(e, Gains, Legals(e)) = Stake(e) - Says(Gains, Taken(e, a))
        /\ \A a \in Legals(e) : Stake(e) - Says(Gains, Taken(e, a)) <= Best(e, Gains, Legals(e))
    BY <1>1, <1>6, BestType
  <1>8. /\ Gain(m, t, k, l) \in 0 .. Value(k)
        /\ Gain(m, t, k, l) = 0
           \/ \E a \in Legals(e) : Gain(m, t, k, l) = Value(k) - Answer(a, m, t, l)
        /\ \A a \in Legals(e) : Value(k) - Answer(a, m, t, l) <= Gain(m, t, k, l)
    BY <1>1, <1>5, <1>7
  <1> QED
    BY <1>1, <1>8

(* The textbook swap likewise: its capture is one of the cheapest.          *)
LEMMA SwapMeans ==
  ASSUME NEW m \in Sides, NEW t \in Sides, NEW k \in Kinds, NEW l \in Layouts
  PROVE  /\ Swap(m, t, k, l) \in Nat
         /\ (\A a \in m : ~Legal(a, m, t, l)) => Swap(m, t, k, l) = 0
         /\ (\E a \in m : Legal(a, m, t, l)) =>
              \E a \in m :
                /\ Legal(a, m, t, l) /\ \A x \in m : Legal(x, m, t, l) => Price(a) <= Price(x)
                /\ Value(k) - SwapAnswer(a, m, t, l) <= Swap(m, t, k, l)
                /\ Swap(m, t, k, l) = 0 \/ Swap(m, t, k, l) = Value(k) - SwapAnswer(a, m, t, l)
  <1> DEFINE e == Trade(m, t, k, l)
             only(x) == {a \in Legals(x) : a = Cheapest(x)}
             tries == [x \in Trades |-> only(x)]
  <1>1. /\ e \in Trades /\ e.mine = m
        /\ Stake(e) = Value(k) /\ Most \in Nat /\ Value(k) \in 100 .. Most
        /\ Legals(e) = {a \in m : Legal(a, m, t, l)}
        /\ \A a \in m : Says(Swaps, Taken(e, a)) = SwapAnswer(a, m, t, l)
        /\ Says(Swaps, e) = Swap(m, t, k, l)
    BY TradeIs
  <1> HIDE DEF e
  <1>2. \A x \in Trades : Tries(tries, x) = only(x)
    BY DEF Tries
  <1>3. Follows(Swaps, tries)
    BY SwapsFollow
  <1> HIDE DEF tries
  <1>4. Rated(Swaps)
    <2>1. \A x \in Trades : \A a \in Tries(tries, x) : a \in x.mine
      BY <1>2 DEF Legals
    <2> QED
      BY <1>3, <2>1, FollowersRate
  <1>5. Says(Swaps, e) = Best(e, Swaps, only(e))
    BY <1>1, <1>2, <1>3 DEF Follows
  <1>6. \A a \in only(e) : Says(Swaps, Taken(e, a)) \in 0 .. Most
    BY <1>1, <1>4, TakenShrinks DEF Rated
  <1>7. /\ Best(e, Swaps, only(e)) \in 0 .. Stake(e)
        /\ Best(e, Swaps, only(e)) = 0
           \/ \E a \in only(e) : Best(e, Swaps, only(e)) = Stake(e) - Says(Swaps, Taken(e, a))
        /\ \A a \in only(e) : Stake(e) - Says(Swaps, Taken(e, a)) <= Best(e, Swaps, only(e))
    <2> HIDE DEF only
    <2> QED
      BY <1>1, <1>6, BestType
  <1>8. /\ Swap(m, t, k, l) \in 0 .. Value(k)
        /\ Swap(m, t, k, l) = 0
           \/ \E a \in only(e) : Swap(m, t, k, l) = Value(k) - SwapAnswer(a, m, t, l)
        /\ \A a \in only(e) : Value(k) - SwapAnswer(a, m, t, l) <= Swap(m, t, k, l)
    BY <1>1, <1>5, <1>7
  <1>9. CASE Legals(e) = {}
    <2>1. \A a \in only(e) : FALSE
      BY <1>9
    <2>2. Swap(m, t, k, l) = 0
      BY <1>8, <2>1
    <2> QED
      BY <1>1, <1>9, <2>2
  <1>10. CASE Legals(e) # {}
    <2>1. PICK a \in Legals(e) : a = Cheapest(e) /\ \A x \in Legals(e) : Price(a) <= Price(x)
      BY <1>1, <1>10, CheapestIs
    <2>2. a \in only(e) /\ \A x \in only(e) : x = a
      BY <2>1
    <2>3. Swap(m, t, k, l) = 0 \/ Swap(m, t, k, l) = Value(k) - SwapAnswer(a, m, t, l)
      BY <1>8, <2>2
    <2>4. Value(k) - SwapAnswer(a, m, t, l) <= Swap(m, t, k, l)
      BY <1>8, <2>2
    <2> HIDE DEF only
    <2>5. a \in m /\ Legal(a, m, t, l) /\ \A x \in m : Legal(x, m, t, l) => Price(a) <= Price(x)
      BY <1>1, <2>1
    <2>6. Swap(m, t, k, l) \in Nat
      BY <1>1, <1>8
    <2> QED
      BY <2>3, <2>4, <2>5, <2>6
  <1> QED
    BY <1>9, <1>10

(* A more valuable piece on the square is worth more to whoever captures,   *)
(* but no more than the difference.                                         *)
LEMMA DearerTarget ==
  ASSUME NEW m \in Sides, NEW t \in Sides, NEW j \in Kinds, NEW k \in Kinds, NEW l \in Layouts,
         Value(j) <= Value(k)
  PROVE  /\ Gain(m, t, j, l) <= Gain(m, t, k, l)
         /\ Gain(m, t, k, l) - Gain(m, t, j, l) <= Value(k) - Value(j)
  <1> DEFINE A(a) == Answer(a, m, t, l)
  <1>1. \A i \in {j, k} :
          /\ Value(i) \in Nat /\ Gain(m, t, i, l) \in Nat
          /\ \A a \in m : Legal(a, m, t, l) => Value(i) - A(a) <= Gain(m, t, i, l)
          /\ Gain(m, t, i, l) = 0
             \/ \E a \in m : Legal(a, m, t, l) /\ Gain(m, t, i, l) = Value(i) - A(a)
    BY GainMeans
  <1>2. \A a \in m : A(a) \in Nat
    <2> SUFFICES ASSUME NEW a \in m PROVE A(a) \in Nat
      OBVIOUS
    <2>1. m \ {a} \in Sides /\ a.kind \in Kinds
      BY SideType
    <2> QED
      BY <2>1, GainMeans DEF Answer
  <1> HIDE DEF A
  <1>3. Gain(m, t, j, l) <= Gain(m, t, k, l)
    <2>1. CASE Gain(m, t, j, l) = 0
      BY <1>1, <2>1
    <2>2. CASE \E a \in m : Legal(a, m, t, l) /\ Gain(m, t, j, l) = Value(j) - A(a)
      <3>1. PICK a \in m : Legal(a, m, t, l) /\ Gain(m, t, j, l) = Value(j) - A(a)
        BY <2>2
      <3> QED
        BY <1>1, <1>2, <3>1
    <2> QED
      BY <1>1, <2>1, <2>2
  <1>4. Gain(m, t, k, l) - Gain(m, t, j, l) <= Value(k) - Value(j)
    <2>1. CASE Gain(m, t, k, l) = 0
      BY <1>1, <2>1
    <2>2. CASE \E a \in m : Legal(a, m, t, l) /\ Gain(m, t, k, l) = Value(k) - A(a)
      <3>1. PICK a \in m : Legal(a, m, t, l) /\ Gain(m, t, k, l) = Value(k) - A(a)
        BY <2>2
      <3>2. Value(j) - A(a) <= Gain(m, t, j, l)
        BY <1>1, <3>1
      <3> QED
        BY <1>1, <1>2, <3>1, <3>2
    <2> QED
      BY <1>1, <2>1, <2>2
  <1> QED
    BY <1>3, <1>4

(* Sides that grow by pieces that stand in nobody's way.                    *)
Extra(m, p, l) == \A x \in p : x \in m \/ Loose(x, l)

(* What may capture may still do so when its own side has such pieces more, *)
(* and the other has such pieces less.                                      *)
LEMMA LooseLegal ==
  ASSUME NEW m, NEW p, NEW t, NEW u, NEW l, Extra(m, p, l), Extra(u, t, l),
         \A x \in m : x \in p, \A x \in u : x \in t, NEW a \in m, Legal(a, m, t, l)
  PROVE  Legal(a, p, u, l)
  <1> DEFINE few == m \cup t
             many == p \cup u
  <1>1. \A b \in many : b \in few \/ Loose(b, l)
    BY DEF Extra
  <1>2. \A b \in few : b \in many \/ Loose(b, l)
    BY DEF Extra
  <1> HIDE DEF few, many
  <1>3. \A b : Loose(b, l) => \A x : <<x, b>> \notin l.behind
    BY DEF Loose
  <1>4. Attacks(a, many, l)
    <2>1. Attacks(a, few, l)
      BY DEF Legal, few
    <2> QED
      BY <1>1, <1>3, <2>1 DEF Attacks
  <1>5. ASSUME a.kind = "king", NEW x \in u
        PROVE  ~Attacks(x, many \ {a}, l)
    <2>1. ~Attacks(x, few \ {a}, l)
      BY <1>5 DEF Legal, few
    <2>2. PICK b \in few \ {a} : <<x, b>> \in l.behind
      BY <2>1 DEF Attacks
    <2>3. b \in many \ {a}
      BY <1>2, <1>3, <2>2
    <2> QED
      BY <2>2, <2>3 DEF Attacks
  <1>6. ASSUME Exposed(a, many, l)
        PROVE  Exposed(a, few, l)
    <2>1. PICK line \in l.lines : line.king = a.white /\ Open(line, many \ {a})
      BY <1>6 DEF Exposed
    <2>2. \A b : Loose(b, l) => b \notin line.by /\ b \notin line.over
      BY DEF Loose
    <2>3. Open(line, few \ {a})
      BY <1>1, <1>2, <2>1, <2>2 DEF Open
    <2> QED
      BY <2>1, <2>3 DEF Exposed
  <1>7. /\ a.kind # "king" => ~a.pinned /\ ~Exposed(a, few, l)
        /\ a.kind = "pawn" => ~l.last
    BY DEF Legal, few
  <1> QED
    BY <1>4, <1>5, <1>6, <1>7 DEF Legal, many

(* More attackers that stand in nobody's way never make a side lose by the  *)
(* exchange, more such defenders never make it win.                         *)
LEMMA MoreAttackers ==
  ASSUME NEW l \in Layouts
  PROVE  \A m, p, t, u \in Sides : \A k \in Kinds :
           m \subseteq p /\ u \subseteq t /\ Extra(m, p, l) /\ Extra(u, t, l) =>
             Gain(m, t, k, l) <= Gain(p, u, k, l)
  <1> DEFINE N(m, p, t, u) == Cardinality(m) + Cardinality(p) + Cardinality(t) + Cardinality(u)
             good == {n \in Nat : \A m, p, t, u \in Sides : \A k \in Kinds :
                        N(m, p, t, u) < n /\ m \subseteq p /\ u \subseteq t
                        /\ Extra(m, p, l) /\ Extra(u, t, l) =>
                          Gain(m, t, k, l) <= Gain(p, u, k, l)}
  <1>1. \A m, p, t, u \in Sides : N(m, p, t, u) \in Nat
    <2>1. \A m \in Sides : Cardinality(m) \in Nat
      BY SideType
    <2> QED
      BY <2>1
  <1>2. 0 \in good
    BY <1>1
  <1>3. ASSUME NEW n \in Nat, n \in good
        PROVE  n + 1 \in good
    <2> SUFFICES ASSUME NEW m \in Sides, NEW p \in Sides, NEW t \in Sides, NEW u \in Sides,
                        NEW k \in Kinds, N(m, p, t, u) < n + 1,
                        \A a \in m : a \in p, \A a \in u : a \in t,
                        Extra(m, p, l), Extra(u, t, l)
                 PROVE  Gain(m, t, k, l) <= Gain(p, u, k, l)
      OBVIOUS
    <2>1. /\ Value(k) \in Nat /\ Gain(m, t, k, l) \in Nat /\ Gain(p, u, k, l) \in Nat
          /\ \A a \in p : Legal(a, p, u, l) => Value(k) - Answer(a, p, u, l) <= Gain(p, u, k, l)
          /\ Gain(m, t, k, l) = 0
             \/ \E a \in m : Legal(a, m, t, l) /\ Gain(m, t, k, l) = Value(k) - Answer(a, m, t, l)
      BY GainMeans
    <2>2. CASE Gain(m, t, k, l) = 0
      BY <2>1, <2>2
    <2>3. ASSUME NEW a \in m, Legal(a, m, t, l), Gain(m, t, k, l) = Value(k) - Answer(a, m, t, l)
          PROVE  Gain(m, t, k, l) <= Gain(p, u, k, l)
      <3> DEFINE m1 == m \ {a}
                 p1 == p \ {a}
      <3>1. a \in p /\ Legal(a, p, u, l)
        BY <2>3, LooseLegal
      <3>2. /\ m1 \in Sides /\ p1 \in Sides /\ a.kind \in Kinds
            /\ Cardinality(m1) = Cardinality(m) - 1 /\ Cardinality(p1) = Cardinality(p) - 1
            /\ Cardinality(m) \in Nat /\ Cardinality(p) \in Nat
            /\ Cardinality(t) \in Nat /\ Cardinality(u) \in Nat
        BY <3>1, SideType
      <3>3. u \subseteq t /\ m1 \subseteq p1 /\ Extra(u, t, l) /\ Extra(m1, p1, l)
        BY DEF Extra
      <3>a. Answer(a, m, t, l) = Gain(t, m1, a.kind, l) /\ Answer(a, p, u, l) = Gain(u, p1, a.kind, l)
        BY DEF Answer
      <3> HIDE DEF m1, p1
      <3>4. N(u, t, p1, m1) < n
        BY <3>2
      <3>5. Gain(u, p1, a.kind, l) <= Gain(t, m1, a.kind, l)
        BY <1>3, <3>2, <3>3, <3>4
      <3>6. Gain(u, p1, a.kind, l) \in Nat /\ Gain(t, m1, a.kind, l) \in Nat
        BY <3>2, GainMeans
      <3>7. Value(k) - Answer(a, p, u, l) <= Gain(p, u, k, l)
        BY <2>1, <3>1
      <3> QED
        BY <2>1, <2>3, <3>5, <3>6, <3>7, <3>a
    <2> QED
      BY <2>1, <2>2, <2>3
  <1> HIDE DEF good
  <1>4. \A n \in Nat : n \in good
    BY <1>2, <1>3, CountingOn
  <1> SUFFICES ASSUME NEW m \in Sides, NEW p \in Sides, NEW t \in Sides, NEW u \in Sides,
                      NEW k \in Kinds, m \subseteq p, u \subseteq t, Extra(m, p, l), Extra(u, t, l)
               PROVE  Gain(m, t, k, l) <= Gain(p, u, k, l)
    OBVIOUS
  <1> DEFINE n == N(m, p, t, u)
  <1>5. n \in Nat /\ n < n + 1 /\ n + 1 \in good
    BY <1>1, <1>4
  <1> QED
    BY <1>5 DEF good

(* Where nothing opens or closes: a piece that no pin and no last rank      *)
(* keeps from capturing, and when it may, which is no matter of who else of *)
(* its own side there is.                                                   *)
Fit(a, l) ==
  /\ a.kind # "king" => ~a.pinned
  /\ a.kind = "pawn" => ~l.last
Free(a, t, l) == Fit(a, l) /\ (a.kind = "king" => t = {})

(* The two are named.                                                       *)
LEMMA FreeMeans ==
  ASSUME NEW a, NEW t, NEW l
  PROVE  Free(a, t, l) <=> /\ Fit(a, l)
                           /\ a.kind = "king" => t = {}
  BY DEF Free

(* That is when the rules let it capture.                                   *)
LEMMA StillLegal ==
  ASSUME NEW m, NEW t, NEW l, Still(l)
  PROVE  \A a \in m : Legal(a, m, t, l) <=> Free(a, t, l)
  <1> SUFFICES ASSUME NEW a \in m
               PROVE  Legal(a, m, t, l) <=> Free(a, t, l)
    OBVIOUS
  <1>1. \A x, left : Attacks(x, left, l) /\ ~Exposed(x, left, l)
    BY DEF Attacks, Exposed, Still
  <1> QED
    BY <1>1 DEF Legal, Free, Fit

(* GainMeans and SwapMeans there.                                           *)
LEMMA StillGain ==
  ASSUME NEW m \in Sides, NEW t \in Sides, NEW k \in Kinds, NEW l \in Layouts, Still(l)
  PROVE  /\ Value(k) \in Nat /\ Gain(m, t, k, l) \in Nat /\ Gain(m, t, k, l) <= Value(k)
         /\ \A a \in m : Free(a, t, l) => Value(k) - Answer(a, m, t, l) <= Gain(m, t, k, l)
         /\ Gain(m, t, k, l) = 0
            \/ \E a \in m : Free(a, t, l) /\ Gain(m, t, k, l) = Value(k) - Answer(a, m, t, l)
  <1>1. \A a \in m : Legal(a, m, t, l) <=> Free(a, t, l)
    BY StillLegal
  <1> QED
    BY <1>1, GainMeans

(* The same of the swap.                                                    *)
LEMMA StillSwap ==
  ASSUME NEW m \in Sides, NEW t \in Sides, NEW k \in Kinds, NEW l \in Layouts, Still(l)
  PROVE  /\ Swap(m, t, k, l) \in Nat
         /\ (\A a \in m : ~Free(a, t, l)) => Swap(m, t, k, l) = 0
         /\ (\E a \in m : Free(a, t, l)) =>
              \E a \in m :
                /\ Free(a, t, l) /\ \A x \in m : Free(x, t, l) => Price(a) <= Price(x)
                /\ Value(k) - SwapAnswer(a, m, t, l) <= Swap(m, t, k, l)
                /\ Swap(m, t, k, l) = 0 \/ Swap(m, t, k, l) = Value(k) - SwapAnswer(a, m, t, l)
  <1>1. \A a \in m : Legal(a, m, t, l) <=> Free(a, t, l)
    BY StillLegal
  <1> QED
    BY <1>1, SwapMeans

(* A side p that has the cheap piece a where the side q has the dear one b, *)
(* both of them fit to capture; nothing opens or closes.                    *)
Differ(p, q, a, b, l) ==
  /\ Still(l) /\ p \in Sides /\ q \in Sides
  /\ a \in p /\ a \notin q /\ b \in q /\ b \notin p /\ p \ {a} = q \ {b}
  /\ Fit(a, l) /\ Fit(b, l) /\ Price(a) <= Price(b)

(* A third piece that captures is on both sides.                            *)
LEMMA DifferWithout ==
  ASSUME NEW p, NEW q, NEW a, NEW b, NEW l, Differ(p, q, a, b, l)
  PROVE  /\ p # {} /\ q # {}
         /\ \A x \in p : x # a => x \in q /\ Differ(p \ {x}, q \ {x}, a, b, l)
  <1>1. p \in Sides /\ q \in Sides /\ \A x \in p : p \ {x} \in Sides
    BY SideType DEF Differ
  <1>2. ASSUME NEW x \in p, x # a
        PROVE  x \in q /\ Differ(p \ {x}, q \ {x}, a, b, l)
    <2>1. x \in q /\ x # b
      BY <1>2 DEF Differ
    <2>2. q \ {x} \in Sides /\ p \ {x} \in Sides
      BY <1>1, <2>1, SideType
    <2>3. (p \ {x}) \ {a} = (q \ {x}) \ {b}
      BY <1>2, <2>1 DEF Differ
    <2> QED
      BY <1>2, <2>1, <2>2, <2>3 DEF Differ
  <1> QED
    BY <1>2 DEF Differ

(* Having the cheap piece for the dear one is worth at most the difference  *)
(* of the two: to the side that captures a piece that is no king, and to    *)
(* the side that is captured from.                                          *)
ToAttack(p, q, t, k, d, l) ==
  k # "king" => Gain(p, t, k, l) <= Gain(q, t, k, l) + d
ToDefend(p, q, t, k, d, l) == Gain(t, q, k, l) <= Gain(t, p, k, l) + d
Gap(a, b) == Price(b) - Price(a)

(* What the two pieces are worth.                                           *)
LEMMA GapType ==
  ASSUME NEW p, NEW q, NEW a, NEW b, NEW l, Differ(p, q, a, b, l)
  PROVE  /\ Price(a) \in Nat /\ Price(b) \in Nat /\ Gap(a, b) \in Nat
         /\ b.kind = "king" /\ a.kind # "king" => 900 <= Gap(a, b)
         /\ a.kind \in Kinds /\ b.kind \in Kinds
         /\ Value(a.kind) = Price(a) /\ Value(b.kind) = Price(b)
  <1>1. p \in Sides /\ q \in Sides /\ a \in p /\ b \in q /\ Price(a) <= Price(b)
    BY DEF Differ
  <1> SUFFICES ASSUME NEW m \in Sides, NEW n \in Sides, a \in m, b \in n
               PROVE  /\ Price(a) \in Nat /\ Price(b) \in Nat /\ Gap(a, b) \in Nat
                      /\ b.kind = "king" /\ a.kind # "king" => 900 <= Gap(a, b)
                      /\ a.kind \in Kinds /\ b.kind \in Kinds
                      /\ Value(a.kind) = Price(a) /\ Value(b.kind) = Price(b)
    BY <1>1
  <1>k. a.kind \in Kinds /\ b.kind \in Kinds
    BY SideType
  <1>a. /\ Most \in Nat /\ Price(a) \in 100 .. Most /\ Price(a) = Value(a.kind)
        /\ a.kind # "king" => Price(a) <= 900
        /\ 2000 <= Most
    BY PriceType
  <1>b. /\ Price(b) \in 100 .. Most /\ Price(b) = Value(b.kind)
        /\ b.kind = "king" => Price(b) = Most
    BY PriceType
  <1>3. /\ Most \in Nat /\ Price(a) \in 100 .. Most /\ Price(b) \in 100 .. Most /\ 2000 <= Most
        /\ b.kind = "king" => Price(b) = Most
        /\ a.kind # "king" => Price(a) <= 900
    BY <1>a, <1>b
  <1>4. Price(a) \in Nat /\ Price(b) \in Nat /\ Gap(a, b) \in Nat
    BY <1>1, <1>3 DEF Gap
  <1>5. b.kind = "king" /\ a.kind # "king" => 900 <= Gap(a, b)
    BY <1>3 DEF Gap
  <1> QED
    BY <1>a, <1>b, <1>k, <1>4, <1>5

(* One capture by p or by q, if the rest of the exchange is like that.      *)
LEMMA AttackStep ==
  ASSUME NEW p, NEW q, NEW a, NEW b, NEW l \in Layouts, Still(l), Differ(p, q, a, b, l),
         NEW t \in Sides, NEW k \in Kinds,
         \A x \in p : x # a => ToDefend(p \ {x}, q \ {x}, t, x.kind, Gap(a, b), l)
  PROVE  ToAttack(p, q, t, k, Gap(a, b), l)
  <1> DEFINE d == Gap(a, b)
  <1> SUFFICES ASSUME k # "king"
               PROVE  Gain(p, t, k, l) <= Gain(q, t, k, l) + d
    BY DEF ToAttack
  <1>1. /\ p \in Sides /\ q \in Sides /\ a \in p /\ b \in q
        /\ Fit(a, l) /\ Fit(b, l) /\ p \ {a} = q \ {b} /\ p \ {a} \in Sides
    BY SideType DEF Differ
  <1>2. d \in Nat
    BY GapType
  <1> HIDE DEF d
  <1>3. /\ Value(k) \in Nat /\ Gain(p, t, k, l) \in Nat /\ Gain(q, t, k, l) \in Nat
        /\ \A x \in q : Free(x, t, l) => Value(k) - Answer(x, q, t, l) <= Gain(q, t, k, l)
        /\ Gain(p, t, k, l) <= Value(k)
        /\ Gain(p, t, k, l) = 0
           \/ \E x \in p : Free(x, t, l) /\ Gain(p, t, k, l) = Value(k) - Answer(x, p, t, l)
    BY <1>1, StillGain
  <1>4. CASE Gain(p, t, k, l) = 0
    BY <1>2, <1>3, <1>4
  <1>5. ASSUME Free(a, t, l), Gain(p, t, k, l) = Value(k) - Answer(a, p, t, l)
        PROVE  Gain(p, t, k, l) <= Gain(q, t, k, l) + d
    <2> DEFINE s == p \ {a}
    <2>1. Answer(a, p, t, l) = Gain(t, s, a.kind, l) /\ Answer(b, q, t, l) = Gain(t, s, b.kind, l)
      BY <1>1 DEF Answer
    <2>2. /\ a.kind \in Kinds /\ b.kind \in Kinds /\ s \in Sides
          /\ Value(a.kind) \in Nat /\ Value(b.kind) \in Nat
          /\ Value(a.kind) <= Value(b.kind) /\ d = Value(b.kind) - Value(a.kind)
      BY <1>1, GapType DEF Gap, d, Differ
    <2> HIDE DEF s
    <2>3. CASE Free(b, t, l)
      <3>1. Gain(t, s, b.kind, l) - Gain(t, s, a.kind, l) <= d
        BY <2>2, DearerTarget
      <3>2. Gain(t, s, b.kind, l) \in Nat /\ Gain(t, s, a.kind, l) \in Nat
        BY <2>2, StillGain
      <3>3. Value(k) - Gain(t, s, b.kind, l) <= Gain(q, t, k, l)
        BY <1>1, <1>3, <2>1, <2>3
      <3>4. Gain(p, t, k, l) = Value(k) - Gain(t, s, a.kind, l)
        BY <1>5, <2>1
      <3> QED
        BY <1>2, <1>3, <3>1, <3>2, <3>3, <3>4
    <2>4. CASE ~Free(b, t, l)
      <3>1. b.kind = "king" /\ t # {}
        BY <1>1, <2>4, FreeMeans DEF Fit
      <3>2. a.kind # "king"
        BY <1>5, <3>1, FreeMeans
      <3>3. 900 <= d
        BY <3>1, <3>2, GapType DEF d
      <3>4. Value(k) <= 900
        BY PieceWorth
      <3> QED
        BY <1>2, <1>3, <3>3, <3>4
    <2> QED
      BY <2>3, <2>4
  <1>6. ASSUME NEW x \in p, x # a, Free(x, t, l), Gain(p, t, k, l) = Value(k) - Answer(x, p, t, l)
        PROVE  Gain(p, t, k, l) <= Gain(q, t, k, l) + d
    <2> DEFINE p1 == p \ {x}
               q1 == q \ {x}
    <2>1. x \in q /\ q1 \in Sides /\ p1 \in Sides /\ x.kind \in Kinds
      BY <1>1, <1>6, DifferWithout, SideType
    <2>2. ToDefend(p1, q1, t, x.kind, d, l)
      BY <1>6 DEF d
    <2>3. Answer(x, p, t, l) = Gain(t, p1, x.kind, l) /\ Answer(x, q, t, l) = Gain(t, q1, x.kind, l)
      BY DEF Answer
    <2> HIDE DEF p1, q1
    <2>4. Gain(t, q1, x.kind, l) <= Gain(t, p1, x.kind, l) + d
      BY <2>2 DEF ToDefend
    <2>5. Gain(t, q1, x.kind, l) \in Nat /\ Gain(t, p1, x.kind, l) \in Nat
      BY <2>1, StillGain
    <2>6. Value(k) - Gain(t, q1, x.kind, l) <= Gain(q, t, k, l)
      BY <1>3, <1>6, <2>1, <2>3
    <2>7. Gain(p, t, k, l) = Value(k) - Gain(t, p1, x.kind, l)
      BY <1>6, <2>3
    <2> QED
      BY <1>2, <1>3, <2>4, <2>5, <2>6, <2>7
  <1> QED
    BY <1>3, <1>4, <1>5, <1>6

(* One capture from p or from q, if the rest of the exchange is like that.  *)
LEMMA DefendStep ==
  ASSUME NEW p, NEW q, NEW a, NEW b, NEW l \in Layouts, Still(l), Differ(p, q, a, b, l),
         NEW t \in Sides, NEW k \in Kinds,
         \A c \in t : ToAttack(p, q, t \ {c}, c.kind, Gap(a, b), l)
  PROVE  ToDefend(p, q, t, k, Gap(a, b), l)
  <1> DEFINE d == Gap(a, b)
  <1> SUFFICES Gain(t, q, k, l) <= Gain(t, p, k, l) + d
    BY DEF ToDefend
  <1>1. p \in Sides /\ q \in Sides /\ p # {} /\ q # {} /\ d \in Nat
    BY GapType DEF Differ
  <1>2. \A c \in t : ToAttack(p, q, t \ {c}, c.kind, d, l)
    OBVIOUS
  <1> HIDE DEF d
  <1>3. /\ Value(k) \in Nat /\ Gain(t, q, k, l) \in Nat /\ Gain(t, p, k, l) \in Nat
        /\ \A c \in t : Free(c, p, l) => Value(k) - Answer(c, t, p, l) <= Gain(t, p, k, l)
        /\ Gain(t, q, k, l) = 0
           \/ \E c \in t : Free(c, q, l) /\ Gain(t, q, k, l) = Value(k) - Answer(c, t, q, l)
    BY <1>1, StillGain
  <1>4. CASE Gain(t, q, k, l) = 0
    BY <1>1, <1>3, <1>4
  <1>5. ASSUME NEW c \in t, Free(c, q, l), Gain(t, q, k, l) = Value(k) - Answer(c, t, q, l)
        PROVE  Gain(t, q, k, l) <= Gain(t, p, k, l) + d
    <2> DEFINE s == t \ {c}
    <2>1. c.kind # "king" /\ Free(c, p, l)
      BY <1>1, <1>5, FreeMeans
    <2>2. s \in Sides /\ c.kind \in Kinds
      BY SideType
    <2>3. Answer(c, t, q, l) = Gain(q, s, c.kind, l) /\ Answer(c, t, p, l) = Gain(p, s, c.kind, l)
      BY DEF Answer
    <2>4. ToAttack(p, q, s, c.kind, d, l)
      BY <1>2
    <2> HIDE DEF s
    <2>5. Gain(p, s, c.kind, l) <= Gain(q, s, c.kind, l) + d
      BY <2>1, <2>4 DEF ToAttack
    <2>6. Gain(p, s, c.kind, l) \in Nat /\ Gain(q, s, c.kind, l) \in Nat
      BY <1>1, <2>2, StillGain
    <2>7. Value(k) - Gain(p, s, c.kind, l) <= Gain(t, p, k, l)
      BY <1>3, <2>1, <2>3
    <2>8. Gain(t, q, k, l) = Value(k) - Gain(q, s, c.kind, l)
      BY <1>5, <2>3
    <2> QED
      BY <1>1, <1>3, <2>5, <2>6, <2>7, <2>8
  <1> QED
    BY <1>3, <1>4, <1>5

(* So it is, by induction over the pieces that are left.                    *)
LEMMA Trading ==
  ASSUME NEW l \in Layouts, Still(l), NEW a, NEW b
  PROVE  \A p, q, t \in Sides : \A k \in Kinds : Differ(p, q, a, b, l) =>
           ToAttack(p, q, t, k, Gap(a, b), l) /\ ToDefend(p, q, t, k, Gap(a, b), l)
  <1> DEFINE d == Gap(a, b)
             N(p, t) == Cardinality(p) + Cardinality(t)
             good == {n \in Nat : \A p, q, t \in Sides : \A k \in Kinds :
                        N(p, t) < n /\ Differ(p, q, a, b, l) =>
                          ToAttack(p, q, t, k, d, l) /\ ToDefend(p, q, t, k, d, l)}
  <1> HIDE DEF d
  <1>1. \A p, t \in Sides : N(p, t) \in Nat
    <2>1. \A p \in Sides : Cardinality(p) \in Nat
      BY SideType
    <2> QED
      BY <2>1
  <1>2. 0 \in good
    BY <1>1
  <1>3. ASSUME NEW n \in Nat, n \in good
        PROVE  n + 1 \in good
    <2> SUFFICES ASSUME NEW p \in Sides, NEW q \in Sides, NEW t \in Sides, NEW k \in Kinds,
                        N(p, t) < n + 1, Differ(p, q, a, b, l)
                 PROVE  ToAttack(p, q, t, k, d, l) /\ ToDefend(p, q, t, k, d, l)
      OBVIOUS
    <2>1. ASSUME NEW x \in p, x # a
          PROVE  ToDefend(p \ {x}, q \ {x}, t, x.kind, d, l)
      <3> DEFINE p1 == p \ {x}
                 q1 == q \ {x}
      <3>1. x \in q /\ Differ(p1, q1, a, b, l)
        BY <2>1, DifferWithout
      <3>2. /\ p1 \in Sides /\ x.kind \in Kinds /\ Cardinality(p1) = Cardinality(p) - 1
            /\ Cardinality(p) \in Nat /\ Cardinality(t) \in Nat
        BY SideType
      <3>3. q1 \in Sides
        BY <3>1, SideType
      <3> HIDE DEF p1, q1
      <3>4. N(p1, t) < n
        BY <3>2
      <3>5. ToDefend(p1, q1, t, x.kind, d, l)
        BY <1>3, <3>1, <3>2, <3>3, <3>4
      <3> QED
        BY <3>5 DEF p1, q1
    <2>2. ASSUME NEW c \in t
          PROVE  ToAttack(p, q, t \ {c}, c.kind, d, l)
      <3> DEFINE s == t \ {c}
      <3>1. /\ s \in Sides /\ c.kind \in Kinds /\ Cardinality(s) = Cardinality(t) - 1
            /\ Cardinality(p) \in Nat /\ Cardinality(t) \in Nat
        BY SideType
      <3> HIDE DEF s
      <3>2. N(p, s) < n
        BY <3>1
      <3>3. ToAttack(p, q, s, c.kind, d, l)
        BY <1>3, <3>1, <3>2
      <3> QED
        BY <3>3 DEF s
    <2>3. ToAttack(p, q, t, k, d, l)
      BY <2>1, AttackStep DEF d
    <2>4. ToDefend(p, q, t, k, d, l)
      BY <2>2, DefendStep DEF d
    <2> QED
      BY <2>3, <2>4
  <1> HIDE DEF good
  <1>4. \A n \in Nat : n \in good
    BY <1>2, <1>3, CountingOn
  <1> SUFFICES ASSUME NEW p \in Sides, NEW q \in Sides, NEW t \in Sides,
                      NEW k \in Kinds, Differ(p, q, a, b, l)
               PROVE  ToAttack(p, q, t, k, d, l) /\ ToDefend(p, q, t, k, d, l)
    BY DEF d
  <1> DEFINE n == N(p, t)
  <1>5. n \in Nat /\ n < n + 1 /\ n + 1 \in good
    BY <1>1, <1>4
  <1> QED
    BY <1>5 DEF good

(* The cheaper of two pieces that may capture leaves the other side less.   *)
LEMMA CheaperFirst ==
  ASSUME NEW m \in Sides, NEW t \in Sides, NEW l \in Layouts, Still(l), NEW a \in m, NEW b \in m,
         Free(a, t, l), Free(b, t, l), Price(a) <= Price(b)
  PROVE  Answer(a, m, t, l) <= Answer(b, m, t, l)
  <1> DEFINE q == m \ {a}
             p == m \ {b}
             d == Gap(a, b)
  <1>1. /\ p \in Sides /\ q \in Sides /\ a.kind \in Kinds /\ b.kind \in Kinds
        /\ Answer(a, m, t, l) = Gain(t, q, a.kind, l) /\ Answer(b, m, t, l) = Gain(t, p, b.kind, l)
    BY SideType DEF Answer
  <1>2. /\ Gain(t, q, a.kind, l) \in Nat /\ Gain(t, p, b.kind, l) \in Nat
    BY <1>1, StillGain
  <1>3. CASE a = b
    BY <1>1, <1>2, <1>3
  <1>4. CASE a # b
    <2>1. Differ(p, q, a, b, l)
      BY <1>1, <1>4, FreeMeans DEF Differ, Fit
    <2>2. \A s \in Sides : \A k \in Kinds : ToAttack(p, q, s, k, d, l)
      BY <1>1, <2>1, Trading
    <2>3. d \in Nat /\ d = Value(b.kind) - Value(a.kind) /\ p # {} /\ q # {}
      BY <2>1, GapType DEF Gap, Differ
    <2> HIDE DEF p, q, d
    <2>4. /\ Value(a.kind) \in Nat /\ Value(b.kind) \in Nat
          /\ \A c \in t : Free(c, p, l) => Value(b.kind) - Answer(c, t, p, l) <= Gain(t, p, b.kind, l)
          /\ Gain(t, q, a.kind, l) = 0
             \/ \E c \in t : Free(c, q, l) /\ Gain(t, q, a.kind, l) = Value(a.kind) - Answer(c, t, q, l)
      BY <1>1, StillGain
    <2>5. CASE Gain(t, q, a.kind, l) = 0
      BY <1>1, <1>2, <2>5
    <2>6. ASSUME NEW c \in t, Free(c, q, l), Gain(t, q, a.kind, l) = Value(a.kind) - Answer(c, t, q, l)
          PROVE  Gain(t, q, a.kind, l) <= Gain(t, p, b.kind, l)
      <3> DEFINE s == t \ {c}
      <3>1. c.kind # "king" /\ Free(c, p, l)
        BY <2>3, <2>6, FreeMeans
      <3>2. s \in Sides /\ c.kind \in Kinds
        BY SideType
      <3>3. Answer(c, t, q, l) = Gain(q, s, c.kind, l) /\ Answer(c, t, p, l) = Gain(p, s, c.kind, l)
        BY DEF Answer
      <3> HIDE DEF s
      <3>4. Gain(p, s, c.kind, l) <= Gain(q, s, c.kind, l) + d
        BY <2>2, <3>1, <3>2 DEF ToAttack
      <3>5. Gain(p, s, c.kind, l) \in Nat /\ Gain(q, s, c.kind, l) \in Nat
        BY <1>1, <3>2, StillGain
      <3>6. Value(b.kind) - Gain(p, s, c.kind, l) <= Gain(t, p, b.kind, l)
        BY <2>4, <3>1, <3>3
      <3>7. Gain(t, q, a.kind, l) = Value(a.kind) - Gain(q, s, c.kind, l)
        BY <2>6, <3>3
      <3> QED
        BY <1>2, <2>3, <2>4, <3>4, <3>5, <3>6, <3>7
    <2> QED
      BY <1>1, <2>4, <2>5, <2>6
  <1> QED
    BY <1>3, <1>4

(* To search every order of captures, or to take with the cheapest.         *)
LEMMA GainIsSwap ==
  ASSUME NEW l \in Layouts, Still(l)
  PROVE  \A m, t \in Sides : \A k \in Kinds : Gain(m, t, k, l) = Swap(m, t, k, l)
  <1> DEFINE N(m, t) == Cardinality(m) + Cardinality(t)
             good == {n \in Nat : \A m, t \in Sides : \A k \in Kinds :
                        N(m, t) < n => Gain(m, t, k, l) = Swap(m, t, k, l)}
  <1>1. \A m, t \in Sides : N(m, t) \in Nat
    <2>1. \A m \in Sides : Cardinality(m) \in Nat
      BY SideType
    <2> QED
      BY <2>1
  <1>2. 0 \in good
    BY <1>1
  <1>3. ASSUME NEW n \in Nat, n \in good
        PROVE  n + 1 \in good
    <2> SUFFICES ASSUME NEW m \in Sides, NEW t \in Sides, NEW k \in Kinds, N(m, t) < n + 1
                 PROVE  Gain(m, t, k, l) = Swap(m, t, k, l)
      OBVIOUS
    <2>1. /\ Value(k) \in Nat /\ Gain(m, t, k, l) \in Nat
          /\ \A a \in m : Free(a, t, l) => Value(k) - Answer(a, m, t, l) <= Gain(m, t, k, l)
          /\ Gain(m, t, k, l) = 0
             \/ \E a \in m : Free(a, t, l) /\ Gain(m, t, k, l) = Value(k) - Answer(a, m, t, l)
      BY StillGain
    <2>2. Swap(m, t, k, l) \in Nat /\ ((\A a \in m : ~Free(a, t, l)) => Swap(m, t, k, l) = 0)
      BY StillSwap
    <2>3. \A a \in m : Answer(a, m, t, l) = SwapAnswer(a, m, t, l) /\ Answer(a, m, t, l) \in Nat
      <3> SUFFICES ASSUME NEW a \in m
                   PROVE  Answer(a, m, t, l) = SwapAnswer(a, m, t, l) /\ Answer(a, m, t, l) \in Nat
        OBVIOUS
      <3> DEFINE m1 == m \ {a}
      <3>1. /\ m1 \in Sides /\ a.kind \in Kinds /\ Cardinality(m1) = Cardinality(m) - 1
            /\ Cardinality(m) \in Nat /\ Cardinality(t) \in Nat
        BY SideType
      <3>2. Answer(a, m, t, l) = Gain(t, m1, a.kind, l) /\ SwapAnswer(a, m, t, l) = Swap(t, m1, a.kind, l)
        BY DEF Answer, SwapAnswer
      <3> HIDE DEF m1
      <3>3. N(t, m1) < n
        BY <3>1
      <3>4. Gain(t, m1, a.kind, l) = Swap(t, m1, a.kind, l)
        BY <1>3, <3>1, <3>3
      <3>5. Gain(t, m1, a.kind, l) \in Nat
        BY <3>1, StillGain
      <3> QED
        BY <3>2, <3>4, <3>5
    <2>4. CASE \A a \in m : ~Free(a, t, l)
      BY <2>1, <2>2, <2>4
    <2>5. CASE \E a \in m : Free(a, t, l)
      <3>1. PICK a \in m :
              /\ Free(a, t, l) /\ \A x \in m : Free(x, t, l) => Price(a) <= Price(x)
              /\ Value(k) - SwapAnswer(a, m, t, l) <= Swap(m, t, k, l)
              /\ Swap(m, t, k, l) = 0 \/ Swap(m, t, k, l) = Value(k) - SwapAnswer(a, m, t, l)
        BY <2>5, StillSwap
      <3>2. \A x \in m : Free(x, t, l) => Answer(a, m, t, l) <= Answer(x, m, t, l)
        BY <3>1, CheaperFirst
      <3>3. Value(k) - Answer(a, m, t, l) <= Gain(m, t, k, l)
        BY <2>1, <3>1
      <3>4. Gain(m, t, k, l) = 0 \/ Gain(m, t, k, l) <= Value(k) - Answer(a, m, t, l)
        BY <2>1, <2>3, <3>2
      <3> QED
        BY <2>1, <2>2, <2>3, <3>1, <3>3, <3>4
    <2> QED
      BY <2>4, <2>5
  <1> HIDE DEF good
  <1>4. \A n \in Nat : n \in good
    BY <1>2, <1>3, CountingOn
  <1> SUFFICES ASSUME NEW m \in Sides, NEW t \in Sides, NEW k \in Kinds
               PROVE  Gain(m, t, k, l) = Swap(m, t, k, l)
    OBVIOUS
  <1> DEFINE n == N(m, t)
  <1>5. n \in Nat /\ n < n + 1 /\ n + 1 \in good
    BY <1>1, <1>4
  <1> QED
    BY <1>5 DEF good

(* What the detector asks, about the square and not about one capture.      *)
LEMMA HangingMeans ==
  ASSUME NEW m \in Sides, NEW t \in Sides, NEW k \in Kinds, NEW l \in Layouts
  PROVE  /\ Gain(m, t, k, l) >= 200 => Hanging(m, t, k, l)
         /\ Hanging(m, t, k, l) =>
              Gain(m, t, k, l) >= 200 \/ (l.last /\ \E a \in m : a.kind = "pawn" /\ ~a.pinned)
  <1>1. /\ Value(k) \in Nat /\ Gain(m, t, k, l) \in Nat
        /\ \A a \in m : Legal(a, m, t, l) => Value(k) - Answer(a, m, t, l) <= Gain(m, t, k, l)
        /\ Gain(m, t, k, l) = 0
           \/ \E a \in m : Legal(a, m, t, l) /\ Gain(m, t, k, l) = Value(k) - Answer(a, m, t, l)
    BY GainMeans
  <1>2. \A a \in m : /\ Answer(a, m, t, l) \in Nat
                     /\ SeeCapture(a, a.kind, m, t, k, l) = Value(k) - Answer(a, m, t, l)
    <2> SUFFICES ASSUME NEW a \in m
                 PROVE  /\ Answer(a, m, t, l) \in Nat
                        /\ SeeCapture(a, a.kind, m, t, k, l) = Value(k) - Answer(a, m, t, l)
      OBVIOUS
    <2>1. m \ {a} \in Sides /\ a.kind \in Kinds
      BY SideType
    <2> QED
      BY <2>1, GainMeans DEF Answer, SeeCapture, Value
  <1>p. \A a : Legal(a, m, t, l) <=> /\ Legal(a, m, t, Promoting(l))
                                     /\ a.kind = "pawn" => ~l.last
    <2>1. /\ Promoting(l).behind = l.behind /\ Promoting(l).lines = l.lines
          /\ ~Promoting(l).last
      BY DEF Promoting, Layouts
    <2>2. \A x, left : /\ Attacks(x, left, Promoting(l)) <=> Attacks(x, left, l)
                       /\ Exposed(x, left, Promoting(l)) <=> Exposed(x, left, l)
      BY <2>1 DEF Attacks, Exposed
    <2> QED
      BY <2>1, <2>2 DEF Legal
  <1>3. ASSUME Gain(m, t, k, l) >= 200
        PROVE  Hanging(m, t, k, l)
    <2>1. PICK a \in m : Legal(a, m, t, l) /\ Gain(m, t, k, l) = Value(k) - Answer(a, m, t, l)
      BY <1>1, <1>3
    <2>2. Legal(a, m, t, Promoting(l)) /\ a.kind \in Becomes(a, l.last)
      BY <1>p, <2>1 DEF Becomes, Legal
    <2>3. SeeCapture(a, a.kind, m, t, k, l) >= 200
      BY <1>2, <1>3, <2>1
    <2> QED
      BY <2>2, <2>3 DEF Hanging
  <1>4. ASSUME Hanging(m, t, k, l), ~(l.last /\ \E a \in m : a.kind = "pawn" /\ ~a.pinned)
        PROVE  Gain(m, t, k, l) >= 200
    <2>1. PICK a \in m : /\ Legal(a, m, t, Promoting(l))
                         /\ \E kind \in Becomes(a, l.last) : SeeCapture(a, kind, m, t, k, l) >= 200
      BY <1>4 DEF Hanging
    <2>2. PICK kind \in Becomes(a, l.last) : SeeCapture(a, kind, m, t, k, l) >= 200
      BY <2>1
    <2>3. ~(a.kind = "pawn" /\ l.last)
      BY <1>4, <2>1 DEF Legal
    <2>4. kind = a.kind /\ Legal(a, m, t, l)
      <3>1. Legal(a, m, t, Promoting(l))
        BY <2>1
      <3> QED
        BY <1>p, <2>2, <2>3, <3>1 DEF Becomes
    <2>5. Value(k) - Answer(a, m, t, l) >= 200
      BY <1>2, <2>2, <2>4
    <2> QED
      BY <1>1, <1>2, <2>4, <2>5
  <1> QED
    BY <1>3, <1>4

(* Whoever is aimed at the square, whatever stands on it and in the way:    *)
(* the gain is never negative nor more than the piece; the detector reports *)
(* a piece as hanging when it is 200 at least, and else only for a pawn     *)
(* that promotes; one attacker more that stands in nobody's way never       *)
(* costs, one such defender more never gains; and where nothing opens or    *)
(* closes, searching every order of captures is the textbook swap.          *)
THEOREM GainSound ==
  ASSUME NEW mine, NEW theirs, NEW target, NEW layout,
         Trade(mine, theirs, target, layout) \in Trades
  PROVE  GainIsSound(mine, theirs, target, layout)
  <1> DEFINE gain == Gain(mine, theirs, target, layout)
  <1>1. mine \in Sides /\ theirs \in Sides /\ target \in Kinds /\ layout \in Layouts
    BY TradeFields, TradeParts
  <1>2. Still(layout) => gain = Swap(mine, theirs, target, layout)
    BY <1>1, GainIsSwap
  <1>3. gain \in 0 .. PieceValue[target]
    <2>1. gain \in Nat /\ Value(target) \in Nat /\ gain <= Value(target)
      BY <1>1, GainMeans
    <2> QED
      BY <2>1 DEF Value
  <1>4. /\ gain >= 200 => Hanging(mine, theirs, target, layout)
        /\ Hanging(mine, theirs, target, layout) =>
             gain >= 200 \/ (layout.last /\ \E a \in mine : a.kind = "pawn" /\ ~a.pinned)
    BY <1>1, HangingMeans
  <1>5. ASSUME NEW a \in mine, Loose(a, layout)
        PROVE  Gain(mine \ {a}, theirs, target, layout) <= gain
    <2> DEFINE m == mine \ {a}
    <2>1. /\ m \in Sides /\ m \subseteq mine /\ theirs \subseteq theirs
          /\ Extra(m, mine, layout) /\ Extra(theirs, theirs, layout)
      BY <1>1, <1>5, SideType DEF Extra
    <2> HIDE DEF m
    <2>2. Gain(m, theirs, target, layout) <= gain
      BY <1>1, <2>1, MoreAttackers
    <2> QED
      BY <2>2 DEF m
  <1>6. ASSUME NEW a \in theirs, Loose(a, layout)
        PROVE  Gain(mine, theirs \ {a}, target, layout) >= gain
    <2> DEFINE t == theirs \ {a}
    <2>1. /\ t \in Sides /\ t \subseteq theirs /\ mine \subseteq mine
          /\ Extra(t, theirs, layout) /\ Extra(mine, mine, layout)
      BY <1>1, <1>6, SideType DEF Extra
    <2> HIDE DEF t
    <2>2. gain <= Gain(mine, t, target, layout)
      BY <1>1, <2>1, MoreAttackers
    <2>3. gain \in Nat /\ Gain(mine, t, target, layout) \in Nat
      BY <1>1, <2>1, GainMeans
    <2> QED
      BY <2>2, <2>3 DEF t
  <1> HIDE DEF gain
  <1> QED
    BY <1>2, <1>3, <1>4, <1>5, <1>6 DEF GainIsSound, gain

-----------------------------------------------------------------------------
(* Calls.                                                                   *)

(* AnyCalls is of legal calls only.                                         *)
LEMMA LegalAlways == AnyCalls => []LegalCall
  <1>1. LegalCall /\ UNCHANGED call => LegalCall'
    BY DEF LegalCall
  <1> QED
    BY <1>1, PTL DEF AnyCalls

(* analyzeGames, of every batch: the analysis of a game does not depend on  *)
(* the games it is evaluated with.                                          *)
THEOREM Batches == AnyCalls => []BatchesAsIfAlone
  <1>1. LegalCall => BatchesAsIfAlone
    BY AsIfAlone DEF LegalCall, BatchesAsIfAlone
  <1> QED
    BY <1>1, LegalAlways, PTL

(* EngineAnalyzer, of every list of moves: an answer is about the move asked*)
(* about, and about its position too unless a question could not be read.   *)
THEOREM Answers == AnyCalls => []AnswersAlwaysMatch
  <1>1. LegalCall => AnswersAlwaysMatch
    BY AnswersFit DEF LegalCall, AnswersAlwaysMatch
  <1> QED
    BY <1>1, LegalAlways, PTL

(* find_candidates, of every game: nothing the deep pass would call a       *)
(* mistake or a blunder is left out.                                        *)
THEOREM Candidates == AnyCalls => []MistakesAreCandidates
  <1>1. LegalCall => MistakesAreCandidates
    BY CandidatesHoldAll DEF LegalCall, MistakesAreCandidates
  <1> QED
    BY <1>1, LegalAlways, PTL

(* sample, of every set of games: the caps are kept, and used.              *)
THEOREM Samples == AnyCalls => []SamplesWithinCaps
  <1>1. LegalCall => SamplesWithinCaps
    BY SampleFits DEF LegalCall, SamplesWithinCaps
  <1> QED
    BY <1>1, LegalAlways, PTL

(* run_annotate, of all replies: the annotations are in line with the       *)
(* blunders, all of them or none.                                           *)
THEOREM Annotations == AnyCalls => []AnnotationsStayAligned
  <1>1. LegalCall => AnnotationsStayAligned
    BY AllOrNothing DEF LegalCall, AnnotationsStayAligned
  <1> QED
    BY <1>1, LegalAlways, PTL

(* pawnFeatures and classifyArchetype, of every board: no colour is favoured.*)
THEOREM Boards == AnyCalls => []BoardsColourBlind
  <1>1. LegalCall => BoardsColourBlind
    BY AlikeForBoth DEF LegalCall, BoardsColourBlind
  <1> QED
    BY <1>1, LegalAlways, PTL

(* _gain and hanging_piece, of every exchange.                              *)
THEOREM Exchanges == AnyCalls => []ExchangesAreSound
  <1>1. LegalCall => ExchangesAreSound
    BY GainSound DEF LegalCall, ExchangesAreSound
  <1> QED
    BY <1>1, LegalAlways, PTL

=============================================================================
