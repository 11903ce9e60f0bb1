---------------------------- MODULE FunnelProofs ----------------------------
(***************************************************************************)
(* Proofs about Funnel, for any users, games, workers, requests, exceptions*)
(* and kills.                                                              *)
(*                                                                         *)
(* Shape says what a worker at a point of its handler holds: a job of the  *)
(* right kind that nobody else has, and locals that name stored games of   *)
(* that job.  On it rest Games and Blunders: each game without analysis,   *)
(* and each blunder without annotation (BlundersCharged), is in the charge *)
(* of a pending job or of a worker, or a failure excuses it.  A charge     *)
(* only passes on: a claim turns the job's into the worker's, an exception *)
(* turns it back, a kill turns it into an excuse, and no excuse is ever    *)
(* withdrawn.                                                              *)
(***************************************************************************)
EXTENDS Funnel, SequenceTheorems, TLAPS

Abouts ==
  [since : Nat] \cup [games : Seq(GameId)] \cup [source : Source]
    \cup [game : GameId, plies : SUBSET Nat] \cup [game : GameId]

Job == [kind : Kinds, user : User, about : Abouts, status : Statuses, attempts : Nat]

(* What the payload of a job of each kind holds.                           *)
AboutOK(j) ==
  /\ j.kind = "backfill" => j.about \in [since : Nat]
  /\ j.kind = "scan_chunk" => j.about \in [games : Seq(GameId)]
  /\ j.kind = "deep_analyze" => j.about \in [game : GameId, plies : SUBSET Nat]
  /\ j.kind = "annotate" => j.about \in [game : GameId]
  /\ j.kind = "analyze_game" => j.about \in [source : Source]

LocalTypes ==
  [todo : Seq(GameId \cup Source), fresh : Seq(GameId), pend : SUBSET GameId,
   game : GameId \cup {NoGame}, plies : SUBSET Nat, ids : SUBSET (Nat \X Nat)]

Blunder == [game : GameId, ply : Nat, run : Nat \ {0}, note : Nat \cup {NoNote}]

Types ==
  /\ jobs \in Seq(Job)
  /\ games \in [GameId -> GameRow \cup {NoGame}]
  /\ moves \in [GameId \X AllPlies -> Nat]
  /\ blunders \subseteq Blunder
  /\ played \in [User -> Nat] /\ synced \in [User -> Nat]
  /\ at \in [Worker -> Points] /\ cur \in [Worker -> Nat] /\ loc \in [Worker -> LocalTypes]

Stored(g) == games[g] # NoGame

(* The jobs table.                                                         *)
Ledger ==
  \A i \in DOMAIN jobs :
    /\ AboutOK(jobs[i])
    /\ jobs[i].attempts <= MaxAttempts
    /\ jobs[i].status = "pending" => jobs[i].attempts < MaxAttempts
    /\ jobs[i].status = "running" => jobs[i].attempts > 0
    /\ jobs[i].kind \in {"scan_chunk", "deep_analyze"} => \A g \in Concerns(i) : Stored(g)

(* A worker in a handler has a running job, and has it alone.              *)
Owners ==
  /\ \A w \in Worker :
       IF at[w] = "idle" THEN cur[w] = 0 /\ loc[w] = Locals
                         ELSE cur[w] \in DOMAIN jobs /\ me(w).status = "running"
  /\ \A v, w \in Worker : v # w /\ cur[v] = cur[w] => cur[v] = 0

(* Which handler a worker is in.                                           *)
KindAt(w) ==
  /\ at[w] \in {"fetch", "store", "fanout"} => me(w).kind = "backfill"
  /\ at[w] = "scan" => me(w).kind = "scan_chunk"
  /\ at[w] \in {"request", "exit"} => me(w).kind = "analyze_game"
  /\ at[w] \in {"deep", "queue_annotate"} => me(w).kind \in {"deep_analyze", "analyze_game"}
  /\ at[w] \in {"rows", "llm", "save"} => me(w).kind = "annotate"
  /\ at[w] # "sync"

(* What its locals name.                                                   *)
LocalsAt(w) ==
  /\ loc[w].fresh # <<>> => at[w] \in {"store", "fanout"}
  /\ loc[w].pend # {} => at[w] = "scan"
  /\ at[w] = "store" => loc[w].todo \in Seq(Source) /\ ToSet(loc[w].todo) \subseteq ToSet(Feed[me(w).user])
  /\ \A g \in ToSet(loc[w].fresh) :
       Stored(g) /\ games[g].owner = me(w).user /\ games[g].pgn \in ToSet(Feed[me(w).user])
  /\ at[w] = "scan" => /\ loc[w].todo \in Seq(GameId)
                       /\ ToSet(loc[w].todo) \cup loc[w].pend \subseteq Concerns(cur[w])
  /\ at[w] \in {"exit", "deep", "queue_annotate"} => loc[w].game \in GameId /\ Stored(loc[w].game)
  /\ at[w] \in {"exit", "deep", "queue_annotate", "rows", "llm"} => Concerns(cur[w]) = {loc[w].game}
  /\ at[w] \in {"deep", "queue_annotate"} /\ me(w).kind = "deep_analyze" =>
       loc[w].plies = me(w).about.plies

(* Every blunder row is of a stored game and of the last deep pass that    *)
(* answered its ply; the engine flags that ply of the game.                *)
BlunderRows ==
  /\ \A b \in blunders :
       /\ Stored(b.game) /\ b.run <= games[b.game].deeps
       /\ moves[<<b.game, b.ply>>] = b.run
       /\ b.ply \in Plies(games[b.game].pgn) /\ Verdict[<<games[b.game].pgn, b.ply>>] = "flagged"
  /\ \A b, c \in blunders : b.game = c.game /\ b.ply = c.ply => b = c

Clocks == \A u \in User : synced[u] <= played[u] /\ played[u] <= Len(Feed[u])

Shape ==
  /\ Types /\ Ledger /\ Owners /\ Clocks /\ BlunderRows
  /\ \A w \in Worker : KindAt(w) /\ LocalsAt(w)

(* Who is in charge of annotating blunder b.                               *)
Charged(b) ==
  \/ \E i \in Pending :
       \/ jobs[i].kind = "annotate" /\ b.game \in Concerns(i)
       \/ jobs[i].kind = "deep_analyze" /\ b.game \in Concerns(i) /\ b.ply \in jobs[i].about.plies
  \/ \E w \in Worker : loc[w].game = b.game /\
       \/ at[w] = "rows"
       \/ at[w] = "llm" /\ <<b.ply, b.run>> \in loc[w].ids
       \/ at[w] \in {"deep", "queue_annotate"} /\ me(w).kind = "deep_analyze" /\ b.ply \in loc[w].plies
       \/ at[w] = "queue_annotate" /\ me(w).kind = "analyze_game"

BlundersCharged ==
  \A b \in blunders : b.note = NoNote => Charged(b) \/ ExcusedBlunder(b)

-----------------------------------------------------------------------------
(* Sequences, as the handlers take them apart.                             *)

LEMMA HeadAndTail ==
  ASSUME NEW S, NEW s \in Seq(S), s # <<>>
  PROVE  /\ Head(s) \in S /\ Tail(s) \in Seq(S)
         /\ ToSet(s) = {Head(s)} \cup ToSet(Tail(s))
  <1>1. Len(s) \in Nat /\ Len(s) > 0 /\ DOMAIN s = 1 .. Len(s)
    BY EmptySeq, LenProperties
  <1>2. /\ Head(s) = s[1] /\ Tail(s) \in Seq(S) /\ Len(Tail(s)) = Len(s) - 1
        /\ \A i \in 1 .. Len(Tail(s)) : Tail(s)[i] = s[i + 1]
    BY <1>1
  <1>3. DOMAIN Tail(s) = 1 .. (Len(s) - 1)
    BY <1>2, LenProperties
  <1>4. ToSet(s) \subseteq {Head(s)} \cup ToSet(Tail(s))
    <2> SUFFICES ASSUME NEW i \in 1 .. Len(s), i # 1
                 PROVE  \E k \in DOMAIN Tail(s) : s[i] = Tail(s)[k]
      BY <1>1, <1>2 DEF ToSet
    <2>1. i - 1 \in DOMAIN Tail(s) /\ Tail(s)[i - 1] = s[i]
      BY <1>1, <1>2, <1>3
    <2> QED
      BY <2>1
  <1>5. {Head(s)} \cup ToSet(Tail(s)) \subseteq ToSet(s)
    <2>1. \A k \in DOMAIN Tail(s) : k + 1 \in DOMAIN s /\ Tail(s)[k] = s[k + 1]
      BY <1>1, <1>2, <1>3
    <2> QED
      BY <1>1, <1>2, <2>1 DEF ToSet
  <1> QED
    BY <1>1, <1>2, <1>4, <1>5

LEMMA AppendToSet ==
  ASSUME NEW S, NEW s \in Seq(S), NEW x \in S
  PROVE  Append(s, x) \in Seq(S) /\ ToSet(Append(s, x)) = ToSet(s) \cup {x}
  <1>1. /\ Append(s, x) \in Seq(S) /\ Len(Append(s, x)) = Len(s) + 1
        /\ \A i \in 1 .. Len(s) : Append(s, x)[i] = s[i]
        /\ Append(s, x)[Len(s) + 1] = x
    BY AppendProperties
  <1>2. DOMAIN s = 1 .. Len(s) /\ Len(s) \in Nat /\ DOMAIN Append(s, x) = 1 .. (Len(s) + 1)
    BY <1>1, LenProperties
  <1> QED
    BY <1>1, <1>2 DEF ToSet

LEMMA SplitToSet ==
  ASSUME NEW S, NEW s \in Seq(S), NEW n \in 0 .. Len(s)
  PROVE  /\ SubSeq(s, 1, n) \in Seq(S) /\ SubSeq(s, n + 1, Len(s)) \in Seq(S)
         /\ ToSet(s) = ToSet(SubSeq(s, 1, n)) \cup ToSet(SubSeq(s, n + 1, Len(s)))
  <1> DEFINE a == SubSeq(s, 1, n)
             b == SubSeq(s, n + 1, Len(s))
  <1>1. Len(s) \in Nat /\ DOMAIN s = 1 .. Len(s) /\ n \in Nat /\ n <= Len(s)
    BY LenProperties
  <1> \A i \in 1 .. Len(s) : s[i] \in S
    BY ElementOfSeq
  <1>2. /\ a \in Seq(S) /\ Len(a) = n /\ \A i \in 1 .. n : a[i] = s[i]
    BY <1>1, SubSeqProperties
  <1>3. /\ b \in Seq(S) /\ Len(b) = Len(s) - n
        /\ \A i \in 1 .. (Len(s) - n) : b[i] = s[n + i]
    <2>1. n + 1 \in Int /\ Len(s) \in Int /\ \A i \in n + 1 .. Len(s) : s[i] \in S
      BY <1>1, ElementOfSeq
    <2>2. /\ b \in Seq(S) /\ Len(b) = IF n + 1 <= Len(s) THEN Len(s) - (n + 1) + 1 ELSE 0
          /\ \A i \in 1 .. Len(s) - (n + 1) + 1 : b[i] = s[(n + 1) + i - 1]
      BY <2>1, SubSeqProperties
    <2>3. \A i \in 1 .. (Len(s) - n) : (n + 1) + i - 1 = n + i
      BY <1>1
    <2>4. \A k \in Nat : n <= k =>
            (k - (n + 1)) + 1 = k - n /\ (~(n + 1 <= k) => k - n = 0)
      BY <1>1
    <2> HIDE DEF b
    <2> QED
      BY <1>1, <2>2, <2>3, <2>4
  <1> HIDE DEF a, b
  <1>4. DOMAIN a = 1 .. n /\ DOMAIN b = 1 .. (Len(s) - n)
    BY <1>2, <1>3, LenProperties
  <1>5. ToSet(s) \subseteq ToSet(a) \cup ToSet(b)
    <2> SUFFICES ASSUME NEW i \in 1 .. Len(s)
                 PROVE  s[i] \in ToSet(a) \cup ToSet(b)
      BY <1>1 DEF ToSet
    <2>1. CASE i <= n
      BY <1>2, <1>4, <2>1 DEF ToSet
    <2>2. CASE i > n
      <3>1. i - n \in DOMAIN b /\ b[i - n] = s[i]
        BY <1>1, <1>3, <1>4, <2>2
      <3> QED
        BY <3>1 DEF ToSet
    <2> QED
      BY <1>1, <2>1, <2>2
  <1>6. ToSet(a) \subseteq ToSet(s)
    BY <1>1, <1>2, <1>4 DEF ToSet
  <1>7. ToSet(b) \subseteq ToSet(s)
    <2>1. \A i \in 1 .. (Len(s) - n) : n + i \in 1 .. Len(s)
      BY <1>1
    <2>2. \A i \in DOMAIN b : n + i \in DOMAIN s /\ b[i] = s[n + i]
      BY <1>1, <1>3, <1>4, <2>1
    <2> QED
      BY <2>2 DEF ToSet
  <1> QED
    BY <1>2, <1>3, <1>5, <1>6, <1>7 DEF a, b

LEMMA ReversedSection ==
  ASSUME NEW S, NEW s \in Seq(S), NEW m \in Nat, NEW n \in Nat, m >= 1, n <= Len(s)
  PROVE  /\ Reverse(SubSeq(s, m, n)) \in Seq(S)
         /\ ToSet(Reverse(SubSeq(s, m, n))) \subseteq ToSet(s)
  <1> DEFINE a == SubSeq(s, m, n)
             r == Reverse(a)
  <1>1. Len(s) \in Nat /\ DOMAIN s = 1 .. Len(s)
    BY LenProperties
  <1>2. /\ a \in Seq(S) /\ Len(a) = IF m <= n THEN n - m + 1 ELSE 0
        /\ \A i \in 1 .. Len(a) : a[i] = s[m + i - 1]
    <2>1. \A i \in m .. n : s[i] \in S
      BY <1>1, ElementOfSeq
    <2> QED
      BY <1>1, <2>1, SubSeqProperties
  <1>3. Len(a) \in Nat /\ \A i \in 1 .. Len(a) : a[i] \in S /\ a[i] \in ToSet(s)
    BY <1>1, <1>2 DEF ToSet
  <1>4. r = [i \in 1 .. Len(a) |-> a[(Len(a) - i) + 1]]
    BY DEF Reverse
  <1>5. \A i \in 1 .. Len(a) : (Len(a) - i) + 1 \in 1 .. Len(a)
    BY <1>3
  <1> HIDE DEF a
  <1>6. \A i \in 1 .. Len(a) : r[i] \in S /\ r[i] \in ToSet(s)
    BY <1>3, <1>4, <1>5
  <1>7. DOMAIN r = 1 .. Len(a)
    BY <1>4
  <1>8. r \in Seq(S)
    BY <1>3, <1>4, <1>6, IsASeq
  <1> QED
    BY <1>6, <1>7, <1>8 DEF ToSet, a

-----------------------------------------------------------------------------
(* What every step leaves of the tables, and what follows for those who    *)
(* take no part in it.                                                     *)

(* A job keeps its kind, its user and its payload.                         *)
JobsGrow ==
  /\ DOMAIN jobs \subseteq DOMAIN jobs'
  /\ \A i \in DOMAIN jobs :
       /\ jobs'[i].kind = jobs[i].kind /\ jobs'[i].user = jobs[i].user
       /\ jobs'[i].about = jobs[i].about

(* A game keeps its owner and its PGN, and stays analyzed.                 *)
GamesGrow ==
  \A g \in GameId : Stored(g) =>
    /\ games'[g] # NoGame
    /\ games'[g].owner = games[g].owner /\ games'[g].pgn = games[g].pgn
    /\ games'[g].deeps >= games[g].deeps
    /\ games[g].analyzed => games'[g].analyzed

(* At most one job is added.                                               *)
Enqueued(j) ==
  /\ j \in Job /\ j.status = "pending" /\ j.attempts = 0 /\ AboutOK(j)
  /\ j.kind = "scan_chunk" => \A g \in ToSet(j.about.games) : games'[g] # NoGame
  /\ j.kind = "deep_analyze" => games'[j.about.game] # NoGame

JobsKept == jobs' = jobs \/ \E j \in Job : Enqueued(j) /\ jobs' = Append(jobs, j)

LEMMA JobsAreRecords ==
  ASSUME Types
  PROVE  /\ Len(jobs) \in Nat /\ DOMAIN jobs = 1 .. Len(jobs)
         /\ \A i \in DOMAIN jobs : jobs[i] \in Job
  BY LenProperties, ElementOfSeq DEF Types

LEMMA KeptMeans ==
  ASSUME Types, JobsKept
  PROVE  /\ jobs' \in Seq(Job) /\ JobsGrow
         /\ \A i \in DOMAIN jobs : jobs'[i] = jobs[i]
         /\ \A i \in DOMAIN jobs' \ DOMAIN jobs : Enqueued(jobs'[i])
  <1>1. CASE jobs' = jobs
    BY <1>1 DEF Types, JobsGrow
  <1>2. ASSUME NEW j \in Job, Enqueued(j), jobs' = Append(jobs, j)
        PROVE  /\ jobs' \in Seq(Job) /\ JobsGrow
               /\ \A i \in DOMAIN jobs : jobs'[i] = jobs[i]
               /\ \A i \in DOMAIN jobs' \ DOMAIN jobs : Enqueued(jobs'[i])
    <2>1. /\ jobs' \in Seq(Job) /\ Len(jobs') = Len(jobs) + 1
          /\ \A i \in 1 .. Len(jobs) : jobs'[i] = jobs[i]
          /\ jobs'[Len(jobs) + 1] = j
      BY <1>2, AppendProperties DEF Types
    <2>2. Len(jobs) \in Nat /\ DOMAIN jobs = 1 .. Len(jobs) /\ DOMAIN jobs' = 1 .. (Len(jobs) + 1)
      BY <2>1, JobsAreRecords, LenProperties
    <2>3. \A i \in DOMAIN jobs' \ DOMAIN jobs : i = Len(jobs) + 1
      BY <2>2
    <2> QED
      BY <1>2, <2>1, <2>2, <2>3 DEF JobsGrow
  <1> QED
    BY <1>1, <1>2 DEF JobsKept

LEMMA AppendedJob ==
  ASSUME Types, NEW j \in Job, jobs' = Append(jobs, j)
  PROVE  \E i \in DOMAIN jobs' : jobs'[i] = j
  <1>1. /\ jobs' \in Seq(Job) /\ Len(jobs') = Len(jobs) + 1 /\ jobs'[Len(jobs) + 1] = j
    BY AppendProperties DEF Types
  <1>2. Len(jobs) + 1 \in DOMAIN jobs'
    BY <1>1, JobsAreRecords, LenProperties
  <1> QED
    BY <1>1, <1>2

LEMMA ConcernsStay ==
  ASSUME JobsGrow, NEW i \in DOMAIN jobs
  PROVE  Concerns(i)' = Concerns(i)
  BY DEF JobsGrow, Concerns

LEMMA OthersKeep ==
  ASSUME Shape, JobsGrow, GamesGrow, NEW v \in Worker,
         at'[v] = at[v], cur'[v] = cur[v], loc'[v] = loc[v]
  PROVE  KindAt(v)' /\ LocalsAt(v)'
  <1>1. CASE at[v] = "idle"
    <2>1. loc'[v] = Locals /\ at'[v] = "idle"
      BY <1>1 DEF Shape, Owners
    <2>2. Locals.fresh = <<>> /\ Locals.pend = {} /\ ToSet(<<>>) = {}
      BY DEF Locals, ToSet
    <2> QED
      BY <2>1, <2>2 DEF KindAt, LocalsAt
  <1>2. CASE at[v] # "idle"
    <2>1. cur[v] \in DOMAIN jobs
      BY <1>2 DEF Shape, Owners
    <2>2. /\ me(v)'.kind = me(v).kind /\ me(v)'.user = me(v).user /\ me(v)'.about = me(v).about
          /\ Concerns(cur[v])' = Concerns(cur[v])
      BY <2>1, ConcernsStay DEF JobsGrow, me
    <2>3. KindAt(v) /\ LocalsAt(v)
      BY DEF Shape
    <2>4. KindAt(v)'
      BY <2>2, <2>3 DEF KindAt
    <2>5. ToSet(loc[v].fresh) \subseteq GameId
      <3>1. loc[v].fresh \in Seq(GameId)
        BY DEF Shape, Types, LocalTypes
      <3> QED
        BY <3>1, LenProperties, ElementOfSeq DEF ToSet
    <2>6. LocalsAt(v)'
      BY <2>2, <2>3, <2>5 DEF LocalsAt, GamesGrow, Stored
    <2> QED
      BY <2>4, <2>6
  <1> QED
    BY <1>1, <1>2

LEMMA LedgerKept ==
  ASSUME Shape, JobsKept, GamesGrow
  PROVE  Ledger'
  <1> SUFFICES ASSUME NEW i \in DOMAIN jobs'
               PROVE  /\ AboutOK(jobs'[i])
                      /\ jobs'[i].attempts <= MaxAttempts
                      /\ jobs'[i].status = "pending" => jobs'[i].attempts < MaxAttempts
                      /\ jobs'[i].status = "running" => jobs'[i].attempts > 0
                      /\ jobs'[i].kind \in {"scan_chunk", "deep_analyze"} =>
                           \A g \in Concerns(i)' : games'[g] # NoGame
    BY DEF Ledger, Stored
  <1>0. Types
    BY DEF Shape
  <1>1. CASE i \in DOMAIN jobs
    <2>1. jobs'[i] = jobs[i] /\ Concerns(i)' = Concerns(i)
      BY <1>0, <1>1, KeptMeans, ConcernsStay
    <2>2. jobs[i].kind \in {"scan_chunk", "deep_analyze"} => Concerns(i) \subseteq GameId
      <3>1. AboutOK(jobs[i])
        BY <1>1 DEF Shape, Ledger
      <3>2. \A q \in Seq(GameId) : ToSet(q) \subseteq GameId
        BY LenProperties, ElementOfSeq DEF ToSet
      <3> QED
        BY <3>1, <3>2 DEF AboutOK, Concerns
    <2> QED
      BY <1>1, <2>1, <2>2 DEF Shape, Ledger, GamesGrow, Stored
  <1>2. CASE i \notin DOMAIN jobs
    <2>1. Enqueued(jobs'[i])
      BY <1>0, <1>2, KeptMeans
    <2>2. jobs'[i].kind \in {"scan_chunk", "deep_analyze"} =>
            \A g \in Concerns(i)' : games'[g] # NoGame
      BY <2>1 DEF Enqueued, Concerns
    <2> QED
      BY <2>1, <2>2, ConstantsAssumption DEF Enqueued
  <1> QED
    BY <1>1, <1>2

(* A step of a handler that goes on with its job.                          *)
Advances(w) ==
  /\ at[w] # "idle" /\ JobsKept /\ GamesGrow /\ cur' = cur
  /\ \A v \in Worker \ {w} : at'[v] = at[v] /\ loc'[v] = loc[v]

LEMMA HandlerKeeps ==
  ASSUME Shape, NEW w \in Worker, at[w] # "idle", JobsKept, GamesGrow,
         NEW p \in Points \ {"idle"}, at' = [at EXCEPT ![w] = p], cur' = cur,
         NEW l \in LocalTypes, loc' = [loc EXCEPT ![w] = l],
         games' \in [GameId -> GameRow \cup {NoGame}],
         moves' \in [GameId \X AllPlies -> Nat], blunders' \subseteq Blunder,
         played' = played, synced' \in [User -> Nat],
         Clocks', BlunderRows', KindAt(w)', LocalsAt(w)'
  PROVE  Shape' /\ Advances(w)
  <1>0. Types
    BY DEF Shape
  <1>1. jobs' \in Seq(Job) /\ JobsGrow /\ \A i \in DOMAIN jobs : jobs'[i] = jobs[i]
    BY <1>0, KeptMeans
  <1>2. /\ at'[w] = p /\ loc'[w] = l
        /\ \A v \in Worker \ {w} : at'[v] = at[v] /\ loc'[v] = loc[v]
        /\ at' \in [Worker -> Points] /\ loc' \in [Worker -> LocalTypes]
    BY <1>0 DEF Types
  <1>3. Types'
    BY <1>0, <1>1, <1>2 DEF Types
  <1>4. Owners'
    <2>1. Owners
      BY DEF Shape
    <2>2. \A i \in DOMAIN jobs : i \in DOMAIN jobs' /\ jobs'[i] = jobs[i]
      BY <1>1 DEF JobsGrow
    <2> QED
      BY <1>2, <2>1, <2>2 DEF Owners, me
  <1>5. \A v \in Worker : KindAt(v)' /\ LocalsAt(v)'
    <2> SUFFICES ASSUME NEW v \in Worker, v # w
                 PROVE  KindAt(v)' /\ LocalsAt(v)'
      OBVIOUS
    <2> QED
      BY <1>1, <1>2, OthersKeep
  <1> QED
    BY <1>2, <1>3, <1>4, <1>5, LedgerKept DEF Shape, Advances

-----------------------------------------------------------------------------
(* The steps that change the status of a job.                              *)

Marked(i, st, n) ==
  /\ jobs' \in Seq(Job) /\ DOMAIN jobs' = DOMAIN jobs /\ JobsGrow
  /\ \A k \in DOMAIN jobs \ {i} : jobs'[k] = jobs[k]
  /\ jobs'[i].status = st /\ jobs'[i].attempts = n

LEMMA MarkMeans ==
  ASSUME Types, NEW i \in DOMAIN jobs, NEW st \in Statuses, NEW n \in Nat,
         jobs' = [jobs EXCEPT ![i] = [@ EXCEPT !.status = st, !.attempts = n]]
  PROVE  Marked(i, st, n)
  <1> DEFINE j == [jobs[i] EXCEPT !.status = st, !.attempts = n]
  <1>1. jobs[i] \in Job
    BY JobsAreRecords
  <1>2. /\ j \in Job /\ j.status = st /\ j.attempts = n
        /\ j.kind = jobs[i].kind /\ j.user = jobs[i].user /\ j.about = jobs[i].about
    BY <1>1 DEF Job
  <1>3. jobs' = [jobs EXCEPT ![i] = j]
    OBVIOUS
  <1> HIDE DEF j
  <1>4. DOMAIN jobs = 1 .. Len(jobs) /\ i \in 1 .. Len(jobs)
    BY JobsAreRecords
  <1>5. /\ jobs' \in Seq(Job) /\ Len(jobs') = Len(jobs)
        /\ \A k \in 1 .. Len(jobs) : jobs'[k] = IF k = i THEN j ELSE jobs[k]
    BY <1>2, <1>3, <1>4, ExceptSeq DEF Types
  <1>6. DOMAIN jobs' = DOMAIN jobs
    BY <1>4, <1>5, LenProperties
  <1> QED
    BY <1>2, <1>4, <1>5, <1>6 DEF Marked, JobsGrow

LEMMA MarkedLedger ==
  ASSUME Shape, NEW i \in DOMAIN jobs, NEW st \in Statuses, NEW n \in Nat, Marked(i, st, n),
         n <= MaxAttempts, st = "pending" => n < MaxAttempts, st = "running" => n > 0,
         games' = games
  PROVE  Ledger'
  <1> SUFFICES ASSUME NEW k \in DOMAIN jobs
               PROVE  /\ AboutOK(jobs'[k])
                      /\ jobs'[k].attempts <= MaxAttempts
                      /\ jobs'[k].status = "pending" => jobs'[k].attempts < MaxAttempts
                      /\ jobs'[k].status = "running" => jobs'[k].attempts > 0
                      /\ jobs'[k].kind \in {"scan_chunk", "deep_analyze"} =>
                           \A g \in Concerns(k)' : games'[g] # NoGame
    BY DEF Ledger, Stored, Marked
  <1>1. /\ AboutOK(jobs[k]) /\ jobs[k].attempts <= MaxAttempts
        /\ jobs[k].status = "pending" => jobs[k].attempts < MaxAttempts
        /\ jobs[k].status = "running" => jobs[k].attempts > 0
        /\ jobs[k].kind \in {"scan_chunk", "deep_analyze"} => \A g \in Concerns(k) : games[g] # NoGame
    BY DEF Shape, Ledger, Stored
  <1>2. /\ jobs'[k].kind = jobs[k].kind /\ jobs'[k].about = jobs[k].about
        /\ Concerns(k)' = Concerns(k)
    BY ConcernsStay DEF Marked, JobsGrow
  <1>3. AboutOK(jobs'[k])
    BY <1>1, <1>2 DEF AboutOK
  <1>4. CASE k = i
    BY <1>1, <1>2, <1>3, <1>4 DEF Marked
  <1>5. CASE k # i
    <2>1. jobs'[k] = jobs[k]
      BY <1>5 DEF Marked
    <2> QED
      BY <1>1, <1>2, <2>1
  <1> QED
    BY <1>4, <1>5

LEMMA NoneStored ==
  ASSUME Shape, UNCHANGED <<games, moves, blunders, played, synced>>
  PROVE  GamesGrow /\ BlunderRows' /\ Clocks'
  <1>1. \A g \in GameId : Stored(g) => games[g] \in GameRow
    BY DEF Shape, Types, Stored
  <1> QED
    BY <1>1 DEF Shape, GamesGrow, BlunderRows, Clocks, Stored, GameRow

LEMMA PayloadMeans ==
  ASSUME Shape, NEW i \in DOMAIN jobs
  PROVE  /\ Payload(jobs[i]) \in LocalTypes
         /\ Payload(jobs[i]).fresh = <<>> /\ Payload(jobs[i]).pend = {}
         /\ jobs[i].kind = "scan_chunk" => /\ Payload(jobs[i]).todo \in Seq(GameId)
                                           /\ ToSet(Payload(jobs[i]).todo) = Concerns(i)
         /\ jobs[i].kind \in {"deep_analyze", "annotate"} =>
              Concerns(i) = {Payload(jobs[i]).game}
         /\ jobs[i].kind = "deep_analyze" =>
              Payload(jobs[i]).game \in GameId /\ Payload(jobs[i]).plies = jobs[i].about.plies
  <1>1. AboutOK(jobs[i])
    BY DEF Shape, Ledger
  <1>2. /\ Locals \in [todo : Seq(GameId), fresh : Seq(GameId), pend : SUBSET GameId,
                       game : {NoGame}, plies : SUBSET Nat, ids : SUBSET (Nat \X Nat)]
        /\ Locals.fresh = <<>> /\ Locals.pend = {}
    BY EmptySeq DEF Locals
  <1>3. \A q \in Seq(GameId) : q \in Seq(GameId \cup Source)
    BY SeqMonotonic
  <1> DEFINE l == Payload(jobs[i])
  <1>4. CASE jobs[i].kind = "scan_chunk"
    <2>1. l = [Locals EXCEPT !.todo = jobs[i].about.games] /\ jobs[i].about.games \in Seq(GameId)
      BY <1>1, <1>4 DEF Payload, AboutOK
    <2>2. /\ l \in LocalTypes /\ l.fresh = <<>> /\ l.pend = {} /\ l.todo = jobs[i].about.games
      BY <1>2, <1>3, <2>1 DEF LocalTypes
    <2> QED
      BY <1>4, <2>1, <2>2 DEF Concerns
  <1>5. CASE jobs[i].kind = "deep_analyze"
    <2>1. /\ l = [Locals EXCEPT !.game = jobs[i].about.game, !.plies = jobs[i].about.plies]
          /\ jobs[i].about.game \in GameId /\ jobs[i].about.plies \in SUBSET Nat
      BY <1>1, <1>5 DEF Payload, AboutOK
    <2>2. /\ l \in LocalTypes /\ l.fresh = <<>> /\ l.pend = {}
          /\ l.game = jobs[i].about.game /\ l.plies = jobs[i].about.plies
      BY <1>2, <1>3, <2>1 DEF LocalTypes
    <2> QED
      BY <1>5, <2>1, <2>2 DEF Concerns
  <1>6. CASE jobs[i].kind = "annotate"
    <2>1. l = [Locals EXCEPT !.game = jobs[i].about.game] /\ jobs[i].about.game \in GameId
      BY <1>1, <1>6 DEF Payload, AboutOK
    <2>2. l \in LocalTypes /\ l.fresh = <<>> /\ l.pend = {} /\ l.game = jobs[i].about.game
      BY <1>2, <1>3, <2>1 DEF LocalTypes
    <2> QED
      BY <1>6, <2>1, <2>2 DEF Concerns
  <1>7. CASE jobs[i].kind \notin {"scan_chunk", "deep_analyze", "annotate"}
    <2>1. l = Locals
      BY <1>7 DEF Payload
    <2>2. Locals \in LocalTypes
      BY <1>2, <1>3 DEF LocalTypes
    <2> QED
      BY <1>2, <1>7, <2>1, <2>2
  <1> QED
    BY <1>4, <1>5, <1>6, <1>7

(* The delta of a claim.                                                   *)
Claimed(w, i) ==
  /\ at[w] = "idle" /\ jobs[i].status = "pending"
  /\ Marked(i, "running", jobs[i].attempts + 1)
  /\ cur' = [cur EXCEPT ![w] = i]
  /\ at' = [at EXCEPT ![w] = Entry[jobs[i].kind]]
  /\ loc' = [loc EXCEPT ![w] = Payload(jobs[i])]

LEMMA ClaimMeans ==
  ASSUME Types, NEW w \in Worker, Claim(w)
  PROVE  \E i \in DOMAIN jobs : Claimed(w, i)
  <1>1. PICK i \in Pending :
          /\ jobs' = [jobs EXCEPT ![i].status = "running", ![i].attempts = @ + 1]
          /\ cur' = [cur EXCEPT ![w] = i]
          /\ at' = [at EXCEPT ![w] = Entry[jobs[i].kind]]
          /\ loc' = [loc EXCEPT ![w] = Payload(jobs[i])]
    BY DEF Claim
  <1>2. i \in DOMAIN jobs /\ jobs[i].status = "pending" /\ jobs[i] \in Job
    BY JobsAreRecords DEF Pending
  <1>3. jobs' = [jobs EXCEPT ![i] = [@ EXCEPT !.status = "running", !.attempts = jobs[i].attempts + 1]]
    BY <1>1, <1>2 DEF Types, Job
  <1>4. Marked(i, "running", jobs[i].attempts + 1)
    <2>1. jobs[i].attempts + 1 \in Nat /\ "running" \in Statuses
      BY <1>2 DEF Job, Statuses
    <2> QED
      BY <1>2, <1>3, <2>1, MarkMeans
  <1> QED
    BY <1>1, <1>2, <1>4 DEF Claim, Claimed

LEMMA ClaimShape ==
  ASSUME Shape, NEW w \in Worker, Claim(w)
  PROVE  Shape'
  <1>0. Types /\ UNCHANGED <<games, moves, blunders, played, synced>>
    BY DEF Shape, Claim, store
  <1>1. PICK i \in DOMAIN jobs : Claimed(w, i)
    BY <1>0, ClaimMeans
  <1> DEFINE j == jobs[i]
             l == Payload(j)
  <1>2. GamesGrow /\ BlunderRows' /\ Clocks'
    BY <1>0, NoneStored
  <1>3. /\ j \in Job /\ j.attempts < MaxAttempts /\ AboutOK(j)
        /\ j.kind \in {"scan_chunk", "deep_analyze"} => \A g \in Concerns(i) : Stored(g)
    BY <1>1, JobsAreRecords DEF Shape, Ledger, Claimed
  <1>4. Ledger'
    <2>1. j.attempts + 1 \in Nat /\ j.attempts + 1 <= MaxAttempts /\ j.attempts + 1 > 0
      BY <1>3, ConstantsAssumption DEF Job
    <2> QED
      BY <1>0, <1>1, <2>1, MarkedLedger DEF Claimed, Statuses
  <1>5. Entry[j.kind] \in Points \ {"idle"}
    BY <1>3 DEF Job, Kinds, Entry, Points
  <1>6. /\ at'[w] = Entry[j.kind] /\ cur'[w] = i /\ loc'[w] = l /\ l \in LocalTypes /\ i \in Nat
        /\ \A v \in Worker \ {w} : at'[v] = at[v] /\ cur'[v] = cur[v] /\ loc'[v] = loc[v]
    BY <1>0, <1>1, JobsAreRecords, PayloadMeans DEF Claimed, Types
  <1>7. Types'
    BY <1>0, <1>1, <1>5, <1>6 DEF Types, Claimed, Marked
  <1>8. Owners'
    <2>1. \A v \in Worker \ {w} : cur[v] # i
      BY <1>0, <1>1, JobsAreRecords DEF Shape, Owners, Claimed, me
    <2>2. \A v \in Worker : me(v)' = jobs'[cur'[v]]
      BY DEF me
    <2>3. Owners
      BY DEF Shape
    <2> QED
      BY <1>1, <1>5, <1>6, <2>1, <2>2, <2>3 DEF Owners, Claimed, Marked, me
  <1>9. KindAt(w)' /\ LocalsAt(w)'
    <2>1. me(w)' = jobs'[i] /\ jobs'[i].kind = j.kind /\ jobs'[i].about = j.about
      BY <1>1, <1>6 DEF me, Claimed, Marked, JobsGrow
    <2>2. Concerns(i)' = Concerns(i) /\ Concerns(cur[w])' = Concerns(i)
      BY <1>1, <1>6, ConcernsStay DEF Claimed, Marked, Concerns
    <2>3. KindAt(w)'
      BY <1>3, <1>6, <2>1 DEF KindAt, Entry, Job, Kinds
    <2>4. /\ l.fresh = <<>> /\ l.pend = {} /\ ToSet(l.fresh) = {}
          /\ j.kind = "scan_chunk" => l.todo \in Seq(GameId) /\ ToSet(l.todo) = Concerns(i)
          /\ j.kind \in {"deep_analyze", "annotate"} => Concerns(i) = {l.game}
          /\ j.kind = "deep_analyze" => l.game \in GameId /\ l.plies = j.about.plies
      BY PayloadMeans DEF ToSet
    <2>5. /\ at'[w] = "scan" <=> j.kind = "scan_chunk"
          /\ at'[w] = "deep" <=> j.kind = "deep_analyze"
          /\ at'[w] = "rows" <=> j.kind = "annotate"
          /\ at'[w] \notin {"store", "fanout", "exit", "queue_annotate", "llm"}
      BY <1>3, <1>6 DEF Entry, Job, Kinds
    <2>6. j.kind = "deep_analyze" => games'[l.game] # NoGame
      BY <1>0, <1>3, <2>4 DEF Stored
    <2> HIDE DEF l, j
    <2>7. LocalsAt(w)'
      BY <1>6, <2>1, <2>2, <2>4, <2>5, <2>6 DEF LocalsAt, Stored
    <2> QED
      BY <2>3, <2>7
  <1>10. \A v \in Worker \ {w} : KindAt(v)' /\ LocalsAt(v)'
    BY <1>1, <1>2, <1>6, OthersKeep DEF Claimed, Marked
  <1> QED
    BY <1>2, <1>4, <1>7, <1>8, <1>9, <1>10 DEF Shape

(* The delta of a worker that leaves its job.                              *)
Left(w, st) ==
  /\ at[w] # "idle"
  /\ Marked(cur[w], st, me(w).attempts)
  /\ Leave(w)

LEMMA LeftShape ==
  ASSUME Shape, NEW w \in Worker, NEW st \in Statuses, Left(w, st),
         st = "pending" => me(w).attempts < MaxAttempts,
         UNCHANGED <<games, moves, blunders, played, synced>>
  PROVE  Shape'
  <1>0. Types /\ Locals \in LocalTypes
    BY EmptySeq DEF Shape, Locals, LocalTypes
  <1>1. /\ cur[w] \in DOMAIN jobs /\ me(w) \in Job /\ me(w).status = "running"
        /\ me(w).attempts <= MaxAttempts /\ me(w).attempts > 0
    BY <1>0, JobsAreRecords DEF Shape, Owners, Ledger, Left, me
  <1>2. GamesGrow /\ BlunderRows' /\ Clocks'
    BY NoneStored
  <1>3. Ledger'
    BY <1>1, MarkedLedger DEF Left, Job
  <1>4. /\ at'[w] = "idle" /\ cur'[w] = 0 /\ loc'[w] = Locals
        /\ \A v \in Worker \ {w} : at'[v] = at[v] /\ cur'[v] = cur[v] /\ loc'[v] = loc[v]
    BY <1>0 DEF Left, Leave, Types
  <1>5. Types'
    BY <1>0, <1>4 DEF Types, Left, Leave, Marked, Points
  <1>6. Owners'
    <2>1. \A v \in Worker \ {w} : cur[v] = 0 \/ cur[v] # cur[w]
      BY DEF Shape, Owners
    <2>2. \A v \in Worker : me(v)' = jobs'[cur'[v]]
      BY DEF me
    <2>3. Owners /\ 0 \notin DOMAIN jobs
      BY <1>0, JobsAreRecords DEF Shape
    <2> QED
      BY <1>4, <2>1, <2>2, <2>3 DEF Owners, Left, Marked, me
  <1>7. KindAt(w)' /\ LocalsAt(w)'
    <2>1. Locals.fresh = <<>> /\ Locals.pend = {} /\ ToSet(<<>>) = {}
      BY DEF Locals, ToSet
    <2> QED
      BY <1>4, <2>1 DEF KindAt, LocalsAt
  <1>8. \A v \in Worker \ {w} : KindAt(v)' /\ LocalsAt(v)'
    BY <1>2, <1>4, OthersKeep DEF Left, Marked
  <1> QED
    BY <1>2, <1>3, <1>5, <1>6, <1>7, <1>8 DEF Shape

LEMMA StatusMeans ==
  ASSUME Shape, NEW w \in Worker, at[w] # "idle", NEW st \in Statuses,
         jobs' = [jobs EXCEPT ![cur[w]].status = st], Leave(w)
  PROVE  Left(w, st)
  <1>1. Types /\ cur[w] \in DOMAIN jobs
    BY DEF Shape, Owners
  <1>2. me(w) \in Job /\ me(w) = jobs[cur[w]]
    BY <1>1, JobsAreRecords DEF me
  <1>3. jobs' = [jobs EXCEPT ![cur[w]] = [@ EXCEPT !.status = st, !.attempts = me(w).attempts]]
    <2>1. [me(w) EXCEPT !.status = st] = [me(w) EXCEPT !.status = st, !.attempts = me(w).attempts]
      BY <1>2 DEF Job
    <2> QED
      BY <1>2, <2>1
  <1>4. Marked(cur[w], st, me(w).attempts)
    BY <1>1, <1>2, <1>3, MarkMeans DEF Job
  <1> QED
    BY <1>4 DEF Left

LEMMA FinishMeans ==
  ASSUME Shape, NEW w \in Worker, Finish(w)
  PROVE  /\ Left(w, "done")
         /\ UNCHANGED <<games, moves, blunders, played, synced>>
  BY StatusMeans DEF Finish, Statuses, store

LEMMA GiveUpMeans ==
  ASSUME Shape, NEW w \in Worker, at[w] # "idle", GiveUp(w)
  PROVE  \E st \in {"dead", "pending"} :
           Left(w, st) /\ (st = "pending" => me(w).attempts < MaxAttempts)
  <1> DEFINE st == IF me(w).attempts >= MaxAttempts THEN "dead" ELSE "pending"
  <1>1. jobs' = [jobs EXCEPT ![cur[w]].status = st] /\ Leave(w)
    BY DEF GiveUp, me
  <1>2. st \in {"dead", "pending"} /\ st \in Statuses
    BY DEF Statuses
  <1>3. st = "pending" => me(w).attempts < MaxAttempts
    <2>1. Types /\ cur[w] \in DOMAIN jobs
      BY DEF Shape, Owners
    <2>2. me(w) \in Job
      BY <2>1, JobsAreRecords DEF me
    <2> QED
      BY <2>2, ConstantsAssumption DEF Job
  <1> HIDE DEF st
  <1> QED
    BY <1>1, <1>2, <1>3, StatusMeans

LEMMA RaiseMeans ==
  ASSUME Shape, NEW w \in Worker, Raise(w) \/ DeepFails(w)
  PROVE  /\ \E st \in {"dead", "pending"} :
              Left(w, st) /\ (st = "pending" => me(w).attempts < MaxAttempts)
         /\ at[w] # "returned"
         /\ UNCHANGED <<games, moves, blunders, played, synced>>
  BY GiveUpMeans DEF Raise, DeepFails, InHandler, store

LEMMA CrashMeans ==
  ASSUME Shape, NEW w \in Worker, Crash(w)
  PROVE  /\ Left(w, "running")
         /\ UNCHANGED <<games, moves, blunders, played, synced>>
  <1>1. Types /\ cur[w] \in DOMAIN jobs /\ me(w).status = "running"
    BY DEF Shape, Owners, Crash
  <1>2. me(w) \in Job /\ me(w) = jobs[cur[w]]
    BY <1>1, JobsAreRecords DEF me
  <1>3. jobs' = [jobs EXCEPT ![cur[w]].status = "running"]
    <2>1. [me(w) EXCEPT !.status = "running"] = me(w)
      BY <1>1, <1>2 DEF Job
    <2>2. [jobs EXCEPT ![cur[w]] = me(w)] = jobs
      BY <1>1, <1>2 DEF Types
    <2> QED
      BY <1>2, <2>1, <2>2 DEF Crash
  <1> QED
    BY <1>3, StatusMeans DEF Crash, Statuses, store

LEMMA LeavingShape ==
  ASSUME Shape, NEW w \in Worker, Finish(w) \/ Raise(w) \/ DeepFails(w) \/ Crash(w)
  PROVE  Shape'
  <1>1. CASE Finish(w)
    BY <1>1, FinishMeans, LeftShape DEF Statuses
  <1>2. CASE Raise(w) \/ DeepFails(w)
    BY <1>2, RaiseMeans, LeftShape DEF Statuses
  <1>3. CASE Crash(w)
    BY <1>3, CrashMeans, LeftShape DEF Statuses
  <1> QED
    BY <1>1, <1>2, <1>3

-----------------------------------------------------------------------------
(* The beginning, requests and the players.                                *)

LEMMA InitShape == Init => Shape
  <1> SUFFICES ASSUME Init PROVE Shape
    OBVIOUS
  <1> USE ConstantsAssumption DEF Init
  <1>0. Locals \in LocalTypes /\ Locals.fresh = <<>> /\ Locals.pend = {} /\ ToSet(<<>>) = {}
    BY EmptySeq DEF Locals, LocalTypes, ToSet
  <1>1. jobs \in Seq(Job) /\ DOMAIN jobs = {}
    BY EmptySeq
  <1>2. \A u \in User : Len(Feed[u]) \in Nat
    BY LenProperties
  <1>3. Types
    BY <1>0, <1>1, <1>2 DEF Types, Points
  <1>4. Clocks
    BY <1>2 DEF Clocks
  <1>5. Ledger /\ BlunderRows
    BY <1>1 DEF Ledger, BlunderRows
  <1>6. \A w \in Worker : at[w] = "idle" /\ cur[w] = 0 /\ loc[w] = Locals
    OBVIOUS
  <1>7. Owners
    BY <1>6 DEF Owners
  <1>8. \A w \in Worker : KindAt(w) /\ LocalsAt(w)
    BY <1>0, <1>6 DEF KindAt, LocalsAt
  <1> QED
    BY <1>3, <1>4, <1>5, <1>7, <1>8 DEF Shape

LEMMA NewJobMeans ==
  ASSUME NEW k \in Kinds, NEW u \in User, NEW about \in Abouts
  PROVE  LET j == NewJob(k, u, about) IN
         /\ j \in Job /\ j.status = "pending" /\ j.attempts = 0
         /\ j.kind = k /\ j.user = u /\ j.about = about
  BY DEF NewJob, Job, Statuses

LEMMA RequestMeans ==
  ASSUME Shape,
         NEW u \in User,
         RequestBackfill(u) \/ \E s \in Submitted : RequestAnalysis(u, s)
  PROVE  JobsKept /\ UNCHANGED <<games, moves, blunders, played, synced, at, cur, loc>>
  <1>1. ASSUME RequestBackfill(u)
        PROVE  JobsKept /\ UNCHANGED <<games, moves, blunders, played, synced, at, cur, loc>>
    <2>1. PICK since \in {0, synced[u]} :
            jobs' = Append(jobs, NewJob("backfill", u, [since |-> since]))
      BY <1>1 DEF RequestBackfill
    <2>2. [since |-> since] \in [since : Nat] /\ [since |-> since] \in Abouts
      BY DEF Shape, Types, Abouts
    <2>3. Enqueued(NewJob("backfill", u, [since |-> since]))
      BY <2>2, NewJobMeans DEF Enqueued, AboutOK, Kinds
    <2> QED
      BY <1>1, <2>1, <2>3 DEF JobsKept, Enqueued, RequestBackfill, store
  <1>2. ASSUME NEW s \in Submitted, RequestAnalysis(u, s)
        PROVE  JobsKept /\ UNCHANGED <<games, moves, blunders, played, synced, at, cur, loc>>
    <2>1. [source |-> s] \in [source : Source] /\ [source |-> s] \in Abouts
      BY ConstantsAssumption DEF Abouts
    <2>2. Enqueued(NewJob("analyze_game", u, [source |-> s]))
      BY <2>1, NewJobMeans DEF Enqueued, AboutOK, Kinds
    <2> QED
      BY <1>2, <2>2 DEF JobsKept, Enqueued, RequestAnalysis, store
  <1> QED
    BY <1>1, <1>2

LEMMA PlayMeans ==
  ASSUME Shape, NEW u \in User, Play(u)
  PROVE  /\ JobsKept /\ UNCHANGED <<games, moves, blunders, synced, at, cur, loc>>
         /\ played' \in [User -> Nat] /\ Clocks'
  <1>1. \A v \in User : Len(Feed[v]) \in Nat
    BY ConstantsAssumption, LenProperties
  <1>2. played' = [played EXCEPT ![u] = played[u] + 1] /\ played[u] < Len(Feed[u])
    BY DEF Play
  <1>3. played' \in [User -> Nat] /\ Clocks'
    BY <1>1, <1>2 DEF Play, Shape, Types, Clocks
  <1> QED
    BY <1>3 DEF Play, JobsKept, store, counts

(* Nobody's handler moves.                                                 *)
LEMMA OutsideShape ==
  ASSUME Shape, JobsKept, UNCHANGED <<games, moves, blunders, at, cur, loc>>,
         played' \in [User -> Nat], synced' \in [User -> Nat], Clocks'
  PROVE  Shape'
  <1>0. Types
    BY DEF Shape
  <1>1. jobs' \in Seq(Job) /\ JobsGrow /\ \A i \in DOMAIN jobs : jobs'[i] = jobs[i]
    BY <1>0, KeptMeans
  <1>2. \A g \in GameId : Stored(g) => games[g] \in GameRow
    BY <1>0 DEF Types, Stored
  <1>3. GamesGrow /\ BlunderRows'
    BY <1>2 DEF Shape, GamesGrow, BlunderRows, Stored, GameRow
  <1>4. Types'
    BY <1>0, <1>1 DEF Types
  <1>5. Owners'
    BY <1>1 DEF Shape, Owners, JobsGrow, me
  <1>6. \A v \in Worker : KindAt(v)' /\ LocalsAt(v)'
    BY <1>1, <1>3, OthersKeep
  <1> QED
    BY <1>3, <1>4, <1>5, <1>6, LedgerKept DEF Shape

-----------------------------------------------------------------------------
(* The steps of the handlers.                                              *)

LEMMA AtWork ==
  ASSUME Shape, NEW w \in Worker, at[w] # "idle"
  PROVE  /\ Types /\ loc[w] \in LocalTypes /\ KindAt(w) /\ LocalsAt(w)
         /\ cur[w] \in DOMAIN jobs /\ me(w) = jobs[cur[w]] /\ me(w) \in Job
         /\ me(w).user \in User /\ AboutOK(me(w))
         /\ me(w).kind \in {"scan_chunk", "deep_analyze"} => \A g \in Concerns(cur[w]) : Stored(g)
  <1>1. Types /\ loc[w] \in LocalTypes /\ KindAt(w) /\ LocalsAt(w) /\ cur[w] \in DOMAIN jobs
    BY DEF Shape, Types, Owners
  <1>2. me(w) = jobs[cur[w]] /\ me(w) \in Job
    BY <1>1, JobsAreRecords DEF me
  <1> QED
    BY <1>1, <1>2 DEF Shape, Ledger, Job

LEMMA SameJob ==
  ASSUME Types, JobsKept, cur' = cur, NEW w \in Worker, cur[w] \in DOMAIN jobs
  PROVE  me(w)' = me(w) /\ Concerns(cur[w])' = Concerns(cur[w])
  <1>1. jobs'[cur[w]] = jobs[cur[w]] /\ JobsGrow
    BY KeptMeans
  <1> QED
    BY <1>1 DEF me, Concerns

LEMMA GrownBlunders ==
  ASSUME Shape, GamesGrow, games' \in [GameId -> GameRow \cup {NoGame}],
         UNCHANGED <<moves, blunders>>
  PROVE  BlunderRows'
  <1>1. \A g \in GameId : Stored(g) =>
          /\ games'[g] # NoGame /\ games'[g].pgn = games[g].pgn
          /\ games[g].deeps \in Nat /\ games'[g].deeps \in Nat /\ games'[g].deeps >= games[g].deeps
    BY DEF Shape, Types, GamesGrow, GameRow, Stored
  <1>2. \A b \in blunders : b.game \in GameId /\ b.run \in Nat
    BY DEF Shape, Types, Blunder
  <1>3. BlunderRows
    BY DEF Shape
  <1>4. ASSUME NEW b \in blunders
        PROVE  /\ games'[b.game] # NoGame /\ b.run <= games'[b.game].deeps
               /\ games'[b.game].pgn = games[b.game].pgn
    <2>1. b.game \in GameId /\ b.run \in Nat /\ Stored(b.game) /\ b.run <= games[b.game].deeps
      BY <1>2, <1>3 DEF BlunderRows
    <2>2. /\ games'[b.game] # NoGame /\ games'[b.game].pgn = games[b.game].pgn
          /\ games[b.game].deeps \in Nat /\ games'[b.game].deeps \in Nat
          /\ games'[b.game].deeps >= games[b.game].deeps
      BY <1>1, <2>1
    <2> QED
      BY <2>1, <2>2
  <1> QED
    BY <1>3, <1>4 DEF BlunderRows, Stored

LEMMA RowsUnchanged ==
  ASSUME Shape, games' = games
  PROVE  GamesGrow /\ games' \in [GameId -> GameRow \cup {NoGame}]
  <1>1. \A g \in GameId : Stored(g) => games[g] \in GameRow
    BY DEF Shape, Types, Stored
  <1> QED
    BY <1>1 DEF Shape, Types, GamesGrow, Stored, GameRow

LEMMA UpsertMeans ==
  ASSUME Shape, NEW u \in User, NEW s \in Source, Upsert(u, s)
  PROVE  /\ GamesGrow /\ games' \in [GameId -> GameRow \cup {NoGame}]
         /\ IdOf[s] \in GameId /\ games'[IdOf[s]] # NoGame
         /\ \A g \in GameId : g # IdOf[s] => games'[g] = games[g]
         /\ Stored(IdOf[s]) => games' = games
         /\ ~Stored(IdOf[s]) => games'[IdOf[s]] = NewGame(u, s)
  <1>1. IdOf[s] \in GameId /\ NoGame \notin GameRow
    BY ConstantsAssumption
  <1>2. NewGame(u, s) \in GameRow
    BY DEF NewGame, GameRow
  <1>3. CASE Stored(IdOf[s])
    <2>1. games' = games
      BY <1>3 DEF Upsert, Stored
    <2> QED
      BY <1>1, <1>3, <2>1, RowsUnchanged DEF Stored
  <1>4. CASE ~Stored(IdOf[s])
    <2>1. games' = [games EXCEPT ![IdOf[s]] = NewGame(u, s)]
      BY <1>4 DEF Upsert, Stored
    <2>2. /\ games' \in [GameId -> GameRow \cup {NoGame}]
          /\ games'[IdOf[s]] = NewGame(u, s) /\ games'[IdOf[s]] # NoGame
          /\ \A g \in GameId : g # IdOf[s] => games'[g] = games[g]
      BY <1>1, <1>2, <2>1 DEF Shape, Types
    <2>3. GamesGrow
      <3>1. \A g \in GameId : Stored(g) => games[g] \in GameRow
        BY DEF Shape, Types, Stored
      <3> QED
        BY <1>4, <2>2, <3>1 DEF GamesGrow, GameRow, Stored
    <2> QED
      BY <1>1, <1>4, <2>2, <2>3
  <1> QED
    BY <1>3, <1>4

LEMMA CommittedMeans ==
  ASSUME Shape, NEW w \in Worker, at[w] = "scan"
  PROVE  /\ Committed(w) \in [GameId -> GameRow \cup {NoGame}]
         /\ \A g \in GameId :
              /\ Stored(g) =>
                   /\ Committed(w)[g] \in GameRow /\ Committed(w)[g] # NoGame
                   /\ Committed(w)[g].owner = games[g].owner
                   /\ Committed(w)[g].pgn = games[g].pgn
                   /\ Committed(w)[g].deeps = games[g].deeps
                   /\ Committed(w)[g].deeps >= games[g].deeps
                   /\ (games[g].analyzed \/ g \in loc[w].pend <=> Committed(w)[g].analyzed)
              /\ ~Stored(g) => Committed(w)[g] = games[g]
  <1>1. \A g \in loc[w].pend : Stored(g)
    BY AtWork DEF KindAt, LocalsAt
  <1>2. \A g \in GameId : Stored(g) => games[g] \in GameRow
    BY DEF Shape, Types, Stored
  <1> SUFFICES ASSUME NEW g \in GameId
               PROVE  /\ Committed(w)[g] \in GameRow \cup {NoGame}
                      /\ Stored(g) =>
                           /\ Committed(w)[g] \in GameRow /\ Committed(w)[g] # NoGame
                           /\ Committed(w)[g].owner = games[g].owner
                           /\ Committed(w)[g].pgn = games[g].pgn
                           /\ Committed(w)[g].deeps = games[g].deeps
                           /\ Committed(w)[g].deeps >= games[g].deeps
                           /\ (games[g].analyzed \/ g \in loc[w].pend <=> Committed(w)[g].analyzed)
                      /\ ~Stored(g) => Committed(w)[g] = games[g]
    <2>1. Committed(w) = [g \in GameId |-> Committed(w)[g]]
      BY DEF Committed
    <2> QED
      BY <2>1
  <1>3. CASE g \in loc[w].pend
    <2>1. games[g] \in GameRow
      BY <1>1, <1>2, <1>3
    <2>2. Committed(w)[g] = [games[g] EXCEPT !.exit = TRUE, !.analyzed = TRUE]
      BY <1>3 DEF Committed
    <2>3. /\ Committed(w)[g] \in GameRow
          /\ Committed(w)[g].owner = games[g].owner /\ Committed(w)[g].pgn = games[g].pgn
          /\ Committed(w)[g].deeps = games[g].deeps /\ games[g].deeps \in Nat
          /\ Committed(w)[g].analyzed = TRUE
      BY <2>1, <2>2 DEF GameRow
    <2> QED
      BY <1>1, <1>3, <2>3, ConstantsAssumption
  <1>4. CASE g \notin loc[w].pend
    <2>1. Committed(w)[g] = games[g]
      BY <1>4 DEF Committed
    <2>2. Stored(g) => games[g].deeps \in Nat /\ games[g].analyzed \in BOOLEAN
      BY <1>2 DEF GameRow
    <2> QED
      BY <1>2, <1>4, <2>1, <2>2 DEF Stored
  <1> QED
    BY <1>3, <1>4

LEMMA FetchShape ==
  ASSUME Shape, NEW w \in Worker, Fetch(w)
  PROVE  Shape' /\ Advances(w)
  <1> DEFINE u == me(w).user
             q == Reverse(SubSeq(Feed[u], me(w).about.since + 1, played[u]))
             l == [loc[w] EXCEPT !.todo = q]
  <1>0. at[w] = "fetch" /\ at' = [at EXCEPT ![w] = "store"] /\ loc' = [loc EXCEPT ![w].todo = q]
    BY DEF Fetch, Goto
  <1>1. UNCHANGED <<jobs, games, moves, blunders, played, synced, cur>>
    BY DEF Fetch, store
  <1>2. /\ Types /\ loc[w] \in LocalTypes /\ LocalsAt(w) /\ me(w).kind = "backfill"
        /\ u \in User /\ me(w).about.since \in Nat /\ cur[w] \in DOMAIN jobs
    BY <1>0, AtWork DEF KindAt, AboutOK
  <1>3. q \in Seq(Source) /\ ToSet(q) \subseteq ToSet(Feed[u])
    <2>1. Feed[u] \in Seq(Source)
      BY <1>2, ConstantsAssumption
    <2>2. played[u] \in Nat /\ played[u] <= Len(Feed[u])
      BY <1>2 DEF Shape, Types, Clocks
    <2>3. me(w).about.since + 1 \in Nat /\ me(w).about.since + 1 >= 1
      BY <1>2
    <2> QED
      BY <2>1, <2>2, <2>3, ReversedSection
  <1> HIDE DEF q, u
  <1>4. l \in LocalTypes /\ loc' = [loc EXCEPT ![w] = l] /\ l.todo = q /\ l.fresh = loc[w].fresh
        /\ l.pend = loc[w].pend
    <2>1. q \in Seq(GameId \cup Source)
      BY <1>3, SeqMonotonic
    <2> QED
      BY <1>0, <1>2, <2>1 DEF LocalTypes, Types
  <1>5. JobsKept /\ me(w)' = me(w) /\ Concerns(cur[w])' = Concerns(cur[w])
    BY <1>1, <1>2, SameJob DEF JobsKept
  <1>6. GamesGrow /\ BlunderRows' /\ Clocks' /\ games' \in [GameId -> GameRow \cup {NoGame}]
    BY <1>1, NoneStored, RowsUnchanged
  <1>7. at'[w] = "store" /\ loc'[w] = l
    BY <1>0, <1>2, <1>4 DEF Types
  <1>8. KindAt(w)'
    BY <1>2, <1>5, <1>7 DEF KindAt
  <1> HIDE DEF l
  <1>9. LocalsAt(w)'
    <2>1. l.fresh = <<>> /\ l.pend = {}
      BY <1>0, <1>2, <1>4 DEF LocalsAt
    <2>2. ToSet(<<>>) = {}
      BY DEF ToSet
    <2> QED
      BY <1>3, <1>4, <1>5, <1>7, <2>1, <2>2 DEF LocalsAt, u
  <1> QED
    BY <1>0, <1>1, <1>2, <1>4, <1>5, <1>6, <1>8, <1>9, HandlerKeeps DEF Types, Points

LEMMA StoreGameShape ==
  ASSUME Shape, NEW w \in Worker, StoreGame(w)
  PROVE  Shape' /\ Advances(w)
  <1> DEFINE s == Head(loc[w].todo)
             u == me(w).user
             f == IF games[IdOf[s]] = NoGame THEN Append(loc[w].fresh, IdOf[s]) ELSE loc[w].fresh
             l == [loc[w] EXCEPT !.todo = Tail(@), !.fresh = f]
  <1>0. at[w] = "store" /\ loc[w].todo # <<>> /\ Upsert(u, s)
    BY DEF StoreGame
  <1>1. UNCHANGED <<jobs, moves, blunders, played, synced, at, cur>>
    BY DEF StoreGame
  <1>2. /\ Types /\ loc[w] \in LocalTypes /\ KindAt(w) /\ LocalsAt(w) /\ u \in User
        /\ cur[w] \in DOMAIN jobs
    BY <1>0, AtWork
  <1>3. /\ s \in Source /\ s \in ToSet(Feed[u]) /\ Tail(loc[w].todo) \in Seq(Source)
        /\ ToSet(Tail(loc[w].todo)) \subseteq ToSet(Feed[u])
    BY <1>0, <1>2, HeadAndTail DEF LocalsAt
  <1>4. /\ GamesGrow /\ games' \in [GameId -> GameRow \cup {NoGame}]
        /\ IdOf[s] \in GameId /\ games'[IdOf[s]] # NoGame
        /\ ~Stored(IdOf[s]) => games'[IdOf[s]] = NewGame(u, s)
    BY <1>0, <1>2, <1>3, UpsertMeans
  <1>5. /\ f \in Seq(GameId)
        /\ ToSet(f) = ToSet(loc[w].fresh) \cup (IF Stored(IdOf[s]) THEN {} ELSE {IdOf[s]})
    BY <1>2, <1>4, AppendToSet DEF LocalTypes, Stored
  <1>6. loc' = [loc EXCEPT ![w] = l]
    BY <1>2 DEF StoreGame, Types, LocalTypes
  <1> HIDE DEF f, s, u
  <1>7. l \in LocalTypes /\ l.todo = Tail(loc[w].todo) /\ l.fresh = f /\ l.pend = loc[w].pend
    <2>1. Tail(loc[w].todo) \in Seq(GameId \cup Source)
      BY <1>3, SeqMonotonic
    <2> QED
      BY <1>2, <1>5, <2>1 DEF LocalTypes
  <1>8. JobsKept /\ me(w)' = me(w) /\ Concerns(cur[w])' = Concerns(cur[w])
    BY <1>1, <1>2, SameJob DEF JobsKept
  <1>9. BlunderRows' /\ Clocks'
    BY <1>1, <1>4, GrownBlunders DEF Shape, Clocks
  <1>10. at'[w] = "store" /\ loc'[w] = l /\ at' = [at EXCEPT ![w] = "store"]
    BY <1>0, <1>1, <1>2, <1>6 DEF Types
  <1>11. KindAt(w)'
    BY <1>2, <1>8, <1>10, <1>0 DEF KindAt
  <1> HIDE DEF l
  <1>12. LocalsAt(w)'
    <2>1. \A g \in ToSet(loc[w].fresh) :
            games'[g] # NoGame /\ games'[g].owner = u /\ games'[g].pgn \in ToSet(Feed[u])
      <3>1. ToSet(loc[w].fresh) \subseteq GameId
        BY <1>2, LenProperties, ElementOfSeq DEF LocalTypes, ToSet
      <3> QED
        BY <1>2, <1>4, <3>1 DEF LocalsAt, GamesGrow, u
    <2>2. ~Stored(IdOf[s]) =>
            games'[IdOf[s]].owner = u /\ games'[IdOf[s]].pgn \in ToSet(Feed[u])
      BY <1>3, <1>4 DEF NewGame
    <2>3. l.pend = {}
      BY <1>0, <1>2, <1>7 DEF LocalsAt
    <2> QED
      BY <1>3, <1>4, <1>5, <1>7, <1>8, <1>10, <2>1, <2>2, <2>3 DEF LocalsAt, Stored, u
  <1> QED
    BY <1>0, <1>1, <1>2, <1>4, <1>6, <1>7, <1>8, <1>9, <1>10, <1>11, <1>12, HandlerKeeps
    DEF Types, Points

LEMMA SyncShape ==
  ASSUME Shape, NEW w \in Worker, Sync(w)
  PROVE  Shape' /\ Advances(w)
  <1> DEFINE u == me(w).user
             p == IF loc[w].fresh = <<>> THEN "returned" ELSE "fanout"
  <1>0. at[w] = "store" /\ loc[w].todo = <<>> /\ at' = [at EXCEPT ![w] = p]
    BY DEF Sync, Goto
  <1>1. UNCHANGED <<jobs, games, moves, blunders, played, cur, loc>>
    BY DEF Sync, store
  <1>2. /\ Types /\ loc[w] \in LocalTypes /\ LocalsAt(w) /\ me(w).kind = "backfill"
        /\ u \in User /\ cur[w] \in DOMAIN jobs
    BY <1>0, AtWork DEF KindAt
  <1>3. synced' \in [User -> Nat] /\ Clocks'
    BY <1>1, <1>2 DEF Sync, Shape, Types, Clocks
  <1>4. GamesGrow /\ BlunderRows' /\ games' \in [GameId -> GameRow \cup {NoGame}]
    BY <1>1, RowsUnchanged, GrownBlunders
  <1>5. JobsKept /\ me(w)' = me(w) /\ Concerns(cur[w])' = Concerns(cur[w])
    BY <1>1, <1>2, SameJob DEF JobsKept
  <1>6. /\ at'[w] = p /\ loc'[w] = loc[w] /\ loc' = [loc EXCEPT ![w] = loc[w]]
        /\ p \in Points \ {"idle"}
    BY <1>0, <1>1, <1>2 DEF Types, Points
  <1>7. KindAt(w)'
    BY <1>2, <1>5, <1>6 DEF KindAt
  <1>8. LocalsAt(w)'
    BY <1>0, <1>1, <1>2, <1>5, <1>6 DEF LocalsAt, Stored
  <1> HIDE DEF p
  <1> QED
    BY <1>0, <1>1, <1>2, <1>3, <1>4, <1>5, <1>6, <1>7, <1>8, HandlerKeeps DEF Types

LEMMA FanOutMeans ==
  ASSUME Shape, NEW w \in Worker, FanOut(w)
  PROVE  \E first, rest \in Seq(GameId) :
           /\ ToSet(loc[w].fresh) = ToSet(first) \cup ToSet(rest)
           /\ at[w] = "fanout"
           /\ at' = [at EXCEPT ![w] = IF rest = <<>> THEN "returned" ELSE "fanout"]
           /\ jobs' = Append(jobs, NewJob("scan_chunk", me(w).user, [games |-> first]))
           /\ loc' = [loc EXCEPT ![w].fresh = rest]
  <1> DEFINE f == loc[w].fresh
             n == IF Len(f) < ChunkSize THEN Len(f) ELSE ChunkSize
  <1>1. at[w] = "fanout"
    BY DEF FanOut, Goto
  <1>2. f \in Seq(GameId)
    BY <1>1, AtWork DEF LocalTypes
  <1>3. n \in 0 .. Len(f)
    BY <1>2, LenProperties, ConstantsAssumption
  <1>4. /\ SubSeq(f, 1, n) \in Seq(GameId) /\ SubSeq(f, n + 1, Len(f)) \in Seq(GameId)
        /\ ToSet(f) = ToSet(SubSeq(f, 1, n)) \cup ToSet(SubSeq(f, n + 1, Len(f)))
    BY <1>2, <1>3, SplitToSet
  <1> QED
    BY <1>1, <1>4 DEF FanOut, Goto

LEMMA FanOutShape ==
  ASSUME Shape, NEW w \in Worker, FanOut(w)
  PROVE  Shape' /\ Advances(w)
  <1>1. PICK first \in Seq(GameId), rest \in Seq(GameId) :
           /\ ToSet(loc[w].fresh) = ToSet(first) \cup ToSet(rest)
           /\ at[w] = "fanout"
           /\ at' = [at EXCEPT ![w] = IF rest = <<>> THEN "returned" ELSE "fanout"]
           /\ jobs' = Append(jobs, NewJob("scan_chunk", me(w).user, [games |-> first]))
           /\ loc' = [loc EXCEPT ![w].fresh = rest]
    BY FanOutMeans
  <1> DEFINE p == IF rest = <<>> THEN "returned" ELSE "fanout"
             l == [loc[w] EXCEPT !.fresh = rest]
             j == NewJob("scan_chunk", me(w).user, [games |-> first])
  <1>2. UNCHANGED <<games, moves, blunders, played, synced, cur>>
    BY DEF FanOut, store
  <1>3. /\ Types /\ loc[w] \in LocalTypes /\ LocalsAt(w) /\ me(w).kind = "backfill"
        /\ me(w).user \in User /\ cur[w] \in DOMAIN jobs
    BY <1>1, AtWork DEF KindAt
  <1>4. GamesGrow /\ BlunderRows' /\ Clocks' /\ games' \in [GameId -> GameRow \cup {NoGame}]
    BY <1>2, NoneStored, RowsUnchanged
  <1>5. JobsKept
    <2>1. [games |-> first] \in [games : Seq(GameId)] /\ [games |-> first] \in Abouts
      BY DEF Abouts
    <2>2. /\ j \in Job /\ j.status = "pending" /\ j.attempts = 0
          /\ j.kind = "scan_chunk" /\ j.about = [games |-> first]
      BY <1>3, <2>1, NewJobMeans DEF Kinds
    <2>3. \A g \in ToSet(first) : games'[g] # NoGame
      BY <1>1, <1>2, <1>3 DEF LocalsAt, Stored
    <2>4. Enqueued(j)
      BY <2>1, <2>2, <2>3 DEF Enqueued, AboutOK
    <2> QED
      BY <1>1, <2>2, <2>4 DEF JobsKept
  <1>6. me(w)' = me(w) /\ Concerns(cur[w])' = Concerns(cur[w])
    BY <1>2, <1>3, <1>5, SameJob
  <1>7. /\ at'[w] = p /\ p \in Points \ {"idle"} /\ loc'[w] = l /\ loc' = [loc EXCEPT ![w] = l]
        /\ l \in LocalTypes /\ l.fresh = rest /\ l.pend = loc[w].pend
    BY <1>1, <1>3 DEF Types, Points, LocalTypes
  <1>8. KindAt(w)'
    BY <1>3, <1>6, <1>7 DEF KindAt
  <1>9. LocalsAt(w)'
    <2>1. rest # <<>> => p = "fanout"
      OBVIOUS
    <2>2. ToSet(rest) \subseteq ToSet(loc[w].fresh) /\ loc[w].pend = {}
      BY <1>1, <1>3 DEF LocalsAt
    <2>3. p \in {"returned", "fanout"}
      OBVIOUS
    <2> HIDE DEF p, l
    <2> QED
      BY <1>2, <1>3, <1>6, <1>7, <2>1, <2>2, <2>3 DEF LocalsAt, Stored
  <1> HIDE DEF p, l
  <1> QED
    BY <1>1, <1>2, <1>3, <1>4, <1>5, <1>7, <1>8, <1>9, HandlerKeeps DEF Types, p

LEMMA ScanCommitShape ==
  ASSUME Shape, NEW w \in Worker, ScanCommit(w)
  PROVE  Shape' /\ Advances(w)
  <1> DEFINE l == [loc[w] EXCEPT !.pend = {}]
  <1>0. /\ at[w] = "scan" /\ loc[w].todo = <<>> /\ at' = [at EXCEPT ![w] = "returned"]
        /\ games' = Committed(w) /\ loc' = [loc EXCEPT ![w].pend = {}]
        /\ UNCHANGED <<jobs, moves, blunders, played, synced, cur>>
    BY DEF ScanCommit, Goto
  <1>1. /\ Types /\ loc[w] \in LocalTypes /\ LocalsAt(w) /\ cur[w] \in DOMAIN jobs
    BY <1>0, AtWork
  <1>2. GamesGrow /\ games' \in [GameId -> GameRow \cup {NoGame}]
    BY <1>0, CommittedMeans DEF GamesGrow
  <1>3. BlunderRows' /\ Clocks'
    BY <1>0, <1>2, GrownBlunders DEF Shape, Clocks
  <1>4. JobsKept
    BY <1>0 DEF JobsKept
  <1>5. /\ at'[w] = "returned" /\ loc'[w] = l /\ loc' = [loc EXCEPT ![w] = l]
        /\ l \in LocalTypes /\ l.fresh = loc[w].fresh /\ l.pend = {}
    BY <1>0, <1>1 DEF Types, LocalTypes
  <1>6. KindAt(w)'
    BY <1>5 DEF KindAt
  <1>7. LocalsAt(w)'
    <2>1. l.fresh = <<>> /\ ToSet(<<>>) = {}
      BY <1>0, <1>1, <1>5 DEF LocalsAt, ToSet
    <2> HIDE DEF l
    <2> QED
      BY <1>5, <2>1 DEF LocalsAt
  <1> HIDE DEF l
  <1> QED
    BY <1>0, <1>1, <1>2, <1>3, <1>4, <1>5, <1>6, <1>7, HandlerKeeps DEF Types, Points

(* The two ways a game is scanned.                                         *)
Queued(w, g, plies) ==
  /\ games' = [Committed(w) EXCEPT ![g].exit = TRUE]
  /\ jobs' = Append(jobs, NewJob("deep_analyze", me(w).user, [game |-> g, plies |-> plies]))
  /\ loc' = [loc EXCEPT ![w].todo = Tail(@), ![w].pend = {}]

Passed(w, g, asks) ==
  /\ games' = IF asks THEN Committed(w) ELSE games
  /\ loc' = [loc EXCEPT ![w].todo = Tail(@), ![w].pend = IF asks THEN {g} ELSE @ \cup {g}]
  /\ UNCHANGED jobs

LEMMA ScanGameMeans ==
  ASSUME Shape, NEW w \in Worker, ScanGame(w)
  PROVE  /\ at[w] = "scan" /\ loc[w].todo # <<>>
         /\ \/ \E plies \in SUBSET Nat : Queued(w, Head(loc[w].todo), plies)
            \/ \E asks \in BOOLEAN : Passed(w, Head(loc[w].todo), asks)
         /\ UNCHANGED <<moves, blunders, played, synced, at, cur>>
  <1> DEFINE g == Head(loc[w].todo)
  <1>1. at[w] = "scan" /\ loc[w].todo # <<>>
    BY DEF ScanGame
  <1>2. Types /\ LocalsAt(w) /\ loc[w].todo \in Seq(GameId)
    BY <1>1, AtWork DEF LocalsAt
  <1>3. g \in GameId /\ Stored(g)
    <2>1. g \in GameId /\ g \in ToSet(loc[w].todo)
      BY <1>1, <1>2, HeadAndTail
    <2> QED
      BY <1>1, <2>1, AtWork DEF LocalsAt, KindAt
  <1>4. UserPlies(games[g].pgn, me(w).user) \subseteq Nat
    <2>1. games[g].pgn \in Source
      BY <1>2, <1>3 DEF Types, Stored, GameRow
    <2>2. Player[games[g].pgn] \in Seq(User \cup {"somebody"})
      BY <2>1, ConstantsAssumption
    <2> QED
      BY <2>2, LenProperties DEF UserPlies, Plies
  <1> QED
    BY <1>1, <1>4 DEF ScanGame, Queued, Passed

LEMMA ScanGameShape ==
  ASSUME Shape, NEW w \in Worker, ScanGame(w)
  PROVE  Shape' /\ Advances(w)
  <1> DEFINE g == Head(loc[w].todo)
             rest == Tail(loc[w].todo)
  <1>0. /\ at[w] = "scan" /\ loc[w].todo # <<>>
        /\ UNCHANGED <<moves, blunders, played, synced, at, cur>>
    BY ScanGameMeans
  <1>1. /\ Types /\ loc[w] \in LocalTypes /\ LocalsAt(w) /\ KindAt(w) /\ cur[w] \in DOMAIN jobs
        /\ me(w).user \in User /\ me(w).kind = "scan_chunk"
        /\ \A h \in Concerns(cur[w]) : Stored(h)
    BY <1>0, AtWork DEF KindAt
  <1>2. /\ g \in GameId /\ rest \in Seq(GameId) /\ rest \in Seq(GameId \cup Source)
        /\ ToSet(loc[w].todo) = {g} \cup ToSet(rest)
    <2>1. loc[w].todo \in Seq(GameId)
      BY <1>0, <1>1 DEF LocalsAt
    <2> QED
      BY <1>0, <2>1, HeadAndTail, SeqMonotonic
  <1>3. Stored(g) /\ {g} \cup ToSet(rest) \cup loc[w].pend \subseteq Concerns(cur[w])
        /\ loc[w].fresh = <<>>
    BY <1>0, <1>1, <1>2 DEF LocalsAt
  <1> HIDE DEF g, rest
  <1>4. ASSUME NEW l \in LocalTypes, loc' = [loc EXCEPT ![w] = l], JobsKept, GamesGrow,
               games' \in [GameId -> GameRow \cup {NoGame}],
               l.todo = rest, l.fresh = loc[w].fresh, l.pend \subseteq loc[w].pend \cup {g}
        PROVE  Shape' /\ Advances(w)
    <2>1. /\ at'[w] = "scan" /\ loc'[w] = l /\ at' = [at EXCEPT ![w] = "scan"]
      BY <1>0, <1>1, <1>4 DEF Types
    <2>2. me(w)' = me(w) /\ Concerns(cur[w])' = Concerns(cur[w])
      BY <1>0, <1>1, <1>4, SameJob
    <2>3. BlunderRows' /\ Clocks'
      BY <1>0, <1>4, GrownBlunders DEF Shape, Clocks
    <2>4. KindAt(w)'
      BY <1>1, <2>1, <2>2 DEF KindAt
    <2>5. ToSet(<<>>) = {}
      BY DEF ToSet
    <2>6. LocalsAt(w)'
      BY <1>2, <1>3, <1>4, <2>1, <2>2, <2>5 DEF LocalsAt
    <2> QED
      BY <1>0, <1>1, <1>4, <2>1, <2>3, <2>4, <2>6, HandlerKeeps DEF Types, Points
  <1>5. ASSUME NEW plies \in SUBSET Nat, Queued(w, g, plies)
        PROVE  Shape' /\ Advances(w)
    <2> DEFINE l == [loc[w] EXCEPT !.todo = rest, !.pend = {}]
               j == NewJob("deep_analyze", me(w).user, [game |-> g, plies |-> plies])
    <2>1. loc' = [loc EXCEPT ![w] = l] /\ l \in LocalTypes
          /\ l.todo = rest /\ l.fresh = loc[w].fresh /\ l.pend = {}
      BY <1>1, <1>2, <1>5 DEF Queued, Types, LocalTypes, rest
    <2>2. Committed(w)[g] \in GameRow
      BY <1>0, <1>2, <1>3, CommittedMeans
    <2>3. GamesGrow /\ games' \in [GameId -> GameRow \cup {NoGame}] /\ games'[g] # NoGame
      <3> DEFINE C == Committed(w)
      <3>1. /\ C \in [GameId -> GameRow \cup {NoGame}] /\ C[g] \in GameRow
            /\ \A h \in GameId : Stored(h) =>
                 /\ C[h] \in GameRow /\ C[h] # NoGame
                 /\ C[h].owner = games[h].owner /\ C[h].pgn = games[h].pgn
                 /\ C[h].deeps >= games[h].deeps
                 /\ games[h].analyzed => C[h].analyzed
        BY <1>0, <1>2, <1>3, CommittedMeans
      <3>2. games' = [C EXCEPT ![g] = [C[g] EXCEPT !.exit = TRUE]]
        BY <1>5 DEF Queued
      <3> HIDE DEF C
      <3>3. /\ [C[g] EXCEPT !.exit = TRUE] \in GameRow
            /\ [C[g] EXCEPT !.exit = TRUE].owner = C[g].owner
            /\ [C[g] EXCEPT !.exit = TRUE].pgn = C[g].pgn
            /\ [C[g] EXCEPT !.exit = TRUE].deeps = C[g].deeps
            /\ [C[g] EXCEPT !.exit = TRUE].analyzed = C[g].analyzed
        BY <3>1 DEF GameRow
      <3>4. [C[g] EXCEPT !.exit = TRUE] # NoGame
        BY <3>3, ConstantsAssumption
      <3>5. /\ games' \in [GameId -> GameRow \cup {NoGame}]
            /\ games'[g] = [C[g] EXCEPT !.exit = TRUE]
            /\ \A h \in GameId : h # g => games'[h] = C[h]
        BY <1>2, <3>1, <3>2, <3>3
      <3> QED
        BY <1>2, <1>3, <3>1, <3>3, <3>4, <3>5 DEF GamesGrow
    <2>4. JobsKept
      <3>1. /\ [game |-> g, plies |-> plies] \in [game : GameId, plies : SUBSET Nat]
            /\ [game |-> g, plies |-> plies] \in Abouts
        BY <1>2 DEF Abouts
      <3>2. /\ j \in Job /\ j.status = "pending" /\ j.attempts = 0
            /\ j.kind = "deep_analyze" /\ j.about = [game |-> g, plies |-> plies]
        BY <1>1, <3>1, NewJobMeans DEF Kinds
      <3>3. Enqueued(j)
        BY <2>3, <3>1, <3>2 DEF Enqueued, AboutOK
      <3> QED
        BY <1>5, <3>2, <3>3 DEF JobsKept, Queued
    <2> HIDE DEF l, j
    <2> QED
      BY <1>4, <2>1, <2>3, <2>4
  <1>6. ASSUME NEW asks \in BOOLEAN, Passed(w, g, asks)
        PROVE  Shape' /\ Advances(w)
    <2> DEFINE l == [loc[w] EXCEPT !.todo = rest, !.pend = IF asks THEN {g} ELSE @ \cup {g}]
    <2>1. loc' = [loc EXCEPT ![w] = l] /\ l \in LocalTypes
          /\ l.todo = rest /\ l.fresh = loc[w].fresh /\ l.pend \subseteq loc[w].pend \cup {g}
      BY <1>1, <1>2, <1>6 DEF Passed, Types, LocalTypes, rest
    <2>2. GamesGrow /\ games' \in [GameId -> GameRow \cup {NoGame}]
      <3>1. CASE asks
        BY <1>0, <1>6, <3>1, CommittedMeans DEF Passed, GamesGrow
      <3>2. CASE ~asks
        BY <1>6, <3>2, RowsUnchanged DEF Passed
      <3> QED
        BY <3>1, <3>2
    <2>3. JobsKept
      BY <1>6 DEF Passed, JobsKept
    <2> HIDE DEF l
    <2> QED
      BY <1>4, <2>1, <2>2, <2>3
  <1> QED
    BY <1>5, <1>6, ScanGameMeans DEF g

LEMMA StoreRequestedMeans ==
  ASSUME Shape, NEW w \in Worker, StoreRequested(w)
  PROVE  \E s \in Source, plies \in SUBSET Nat :
           /\ at[w] = "request" /\ at' = [at EXCEPT ![w] = "exit"]
           /\ s = me(w).about.source /\ Concerns(cur[w]) = {IdOf[s]}
           /\ Upsert(me(w).user, s)
           /\ loc' = [loc EXCEPT ![w].game = IdOf[s], ![w].plies = plies]
           /\ UNCHANGED <<jobs, moves, blunders, played, synced, cur>>
  <1> DEFINE s == me(w).about.source
  <1>1. at[w] = "request" /\ at' = [at EXCEPT ![w] = "exit"]
    BY DEF StoreRequested, Goto
  <1>2. me(w).kind = "analyze_game" /\ s \in Source /\ Concerns(cur[w]) = {IdOf[s]}
    BY <1>1, AtWork DEF KindAt, AboutOK, Concerns
  <1>3. Plies(s) \subseteq Nat
    <2>1. Player[s] \in Seq(User \cup {"somebody"})
      BY <1>2, ConstantsAssumption
    <2> QED
      BY <2>1, LenProperties DEF Plies
  <1>4. PICK plies \in SUBSET UserPlies(s, me(w).user) :
          loc' = [loc EXCEPT ![w].game = IdOf[s], ![w].plies = plies]
    BY DEF StoreRequested
  <1>5. plies \in SUBSET Nat
    BY <1>3 DEF UserPlies
  <1> QED
    BY <1>1, <1>2, <1>4, <1>5 DEF StoreRequested

LEMMA StoreRequestedShape ==
  ASSUME Shape, NEW w \in Worker, StoreRequested(w)
  PROVE  Shape' /\ Advances(w)
  <1>1. PICK s \in Source, plies \in SUBSET Nat :
          /\ at[w] = "request" /\ at' = [at EXCEPT ![w] = "exit"]
          /\ s = me(w).about.source /\ Concerns(cur[w]) = {IdOf[s]}
          /\ Upsert(me(w).user, s)
          /\ loc' = [loc EXCEPT ![w].game = IdOf[s], ![w].plies = plies]
          /\ UNCHANGED <<jobs, moves, blunders, played, synced, cur>>
    BY StoreRequestedMeans
  <1> DEFINE l == [loc[w] EXCEPT !.game = IdOf[s], !.plies = plies]
  <1>2. /\ Types /\ loc[w] \in LocalTypes /\ LocalsAt(w) /\ KindAt(w) /\ cur[w] \in DOMAIN jobs
        /\ me(w).user \in User
    BY <1>1, AtWork
  <1>3. /\ GamesGrow /\ games' \in [GameId -> GameRow \cup {NoGame}]
        /\ IdOf[s] \in GameId /\ games'[IdOf[s]] # NoGame
    BY <1>1, <1>2, UpsertMeans
  <1>4. BlunderRows' /\ Clocks'
    BY <1>1, <1>3, GrownBlunders DEF Shape, Clocks
  <1>5. JobsKept /\ me(w)' = me(w) /\ Concerns(cur[w])' = Concerns(cur[w])
    BY <1>1, <1>2, SameJob DEF JobsKept
  <1>6. /\ at'[w] = "exit" /\ loc'[w] = l /\ loc' = [loc EXCEPT ![w] = l] /\ l \in LocalTypes
        /\ l.game = IdOf[s] /\ l.fresh = loc[w].fresh /\ l.pend = loc[w].pend
    BY <1>1, <1>2, <1>3 DEF Types, LocalTypes
  <1>7. KindAt(w)'
    BY <1>1, <1>2, <1>5, <1>6 DEF KindAt
  <1> HIDE DEF l
  <1>8. LocalsAt(w)'
    <2>1. l.fresh = <<>> /\ l.pend = {} /\ ToSet(<<>>) = {}
      BY <1>1, <1>2, <1>6 DEF LocalsAt, ToSet
    <2> QED
      BY <1>1, <1>3, <1>5, <1>6, <2>1 DEF LocalsAt, Stored
  <1> QED
    BY <1>1, <1>2, <1>3, <1>4, <1>5, <1>6, <1>7, <1>8, HandlerKeeps DEF Types, Points

(* A change to one stored row that keeps whose it is, and of which PGN.    *)
LEMMA RowGrows ==
  ASSUME Shape, NEW g \in GameId, Stored(g), NEW r \in GameRow,
         games' = [games EXCEPT ![g] = r],
         r.owner = games[g].owner, r.pgn = games[g].pgn, r.deeps >= games[g].deeps,
         games[g].analyzed => r.analyzed
  PROVE  /\ GamesGrow /\ games' \in [GameId -> GameRow \cup {NoGame}]
         /\ games'[g] = r
         /\ \A h \in GameId : h # g => games'[h] = games[h]
  <1>1. \A h \in GameId : Stored(h) => games[h] \in GameRow
    BY DEF Shape, Types, Stored
  <1>2. /\ games' \in [GameId -> GameRow \cup {NoGame}] /\ games'[g] = r
        /\ \A h \in GameId : h # g => games'[h] = games[h]
    BY DEF Shape, Types
  <1>3. r # NoGame
    BY ConstantsAssumption
  <1>4. \A h \in GameId : Stored(h) => games[h].deeps \in Nat
    BY <1>1 DEF GameRow
  <1> QED
    BY <1>2, <1>3, <1>4 DEF GamesGrow, Stored

LEMMA RowsChange ==
  ASSUME NEW row \in GameRow
  PROVE  /\ row.deeps \in Nat /\ row.deeps + 1 \in Nat /\ row.deeps + 1 >= row.deeps
         /\ LET r == [row EXCEPT !.exit = TRUE] IN
              /\ r \in GameRow /\ r.owner = row.owner /\ r.pgn = row.pgn
              /\ r.deeps = row.deeps /\ (r.analyzed <=> row.analyzed)
         /\ LET r == [row EXCEPT !.analyzed = TRUE, !.deeps = row.deeps + 1] IN
              /\ r \in GameRow /\ r.owner = row.owner /\ r.pgn = row.pgn
              /\ r.deeps = row.deeps + 1 /\ r.analyzed
  <1>1. row.deeps \in Nat
    BY DEF GameRow
  <1>2. row.deeps + 1 \in Nat /\ row.deeps + 1 >= row.deeps
    BY <1>1
  <1>3. LET r == [row EXCEPT !.exit = TRUE] IN
          /\ r \in GameRow /\ r.owner = row.owner /\ r.pgn = row.pgn
          /\ r.deeps = row.deeps /\ (r.analyzed <=> row.analyzed)
    BY DEF GameRow
  <1>4. LET r == [row EXCEPT !.analyzed = TRUE, !.deeps = row.deeps + 1] IN
          /\ r \in GameRow /\ r.owner = row.owner /\ r.pgn = row.pgn
          /\ r.deeps = row.deeps + 1 /\ r.analyzed
    BY <1>2 DEF GameRow
  <1> QED
    BY <1>1, <1>2, <1>3, <1>4

LEMMA BookExitMeans ==
  ASSUME Shape, NEW w \in Worker, BookExit(w)
  PROVE  /\ at[w] = "exit" /\ at' = [at EXCEPT ![w] = "deep"]
         /\ GamesGrow /\ games' \in [GameId -> GameRow \cup {NoGame}]
         /\ \A g \in GameId : Stored(g) => (games'[g].analyzed <=> games[g].analyzed)
         /\ \A g \in GameId : ~Stored(g) => games'[g] = games[g]
         /\ UNCHANGED <<jobs, moves, blunders, played, synced, cur, loc>>
  <1> DEFINE g == loc[w].game
             r == [games[g] EXCEPT !.exit = TRUE]
  <1>1. at[w] = "exit" /\ at' = [at EXCEPT ![w] = "deep"]
    BY DEF BookExit, Goto
  <1>2. g \in GameId /\ Stored(g)
    BY <1>1, AtWork DEF LocalsAt
  <1>3. games[g] \in GameRow
    BY <1>2 DEF Shape, Types, Stored
  <1>4. /\ r \in GameRow /\ r.owner = games[g].owner /\ r.pgn = games[g].pgn
        /\ r.deeps = games[g].deeps /\ (r.analyzed <=> games[g].analyzed)
        /\ games[g].deeps \in Nat
    BY <1>3, RowsChange
  <1>5. games' = [games EXCEPT ![g] = r] /\ UNCHANGED <<jobs, moves, blunders, played, synced, cur, loc>>
    BY DEF BookExit
  <1> HIDE DEF r, g
  <1>6. /\ GamesGrow /\ games' \in [GameId -> GameRow \cup {NoGame}] /\ games'[g] = r
        /\ \A h \in GameId : h # g => games'[h] = games[h]
    <2>1. r.deeps >= games[g].deeps
      BY <1>4
    <2>2. games[g].analyzed => r.analyzed
      BY <1>4, Zenon
    <2> QED
      BY <1>2, <1>4, <1>5, <2>1, <2>2, RowGrows
  <1> QED
    BY <1>1, <1>2, <1>4, <1>5, <1>6

LEMMA BookExitShape ==
  ASSUME Shape, NEW w \in Worker, BookExit(w)
  PROVE  Shape' /\ Advances(w)
  <1>1. /\ at[w] = "exit" /\ at' = [at EXCEPT ![w] = "deep"]
        /\ GamesGrow /\ games' \in [GameId -> GameRow \cup {NoGame}]
        /\ UNCHANGED <<jobs, moves, blunders, played, synced, cur, loc>>
    BY BookExitMeans
  <1>2. /\ Types /\ loc[w] \in LocalTypes /\ LocalsAt(w) /\ me(w).kind = "analyze_game"
        /\ cur[w] \in DOMAIN jobs
    BY <1>1, AtWork DEF KindAt
  <1>3. BlunderRows' /\ Clocks'
    BY <1>1, GrownBlunders DEF Shape, Clocks
  <1>4. JobsKept /\ me(w)' = me(w) /\ Concerns(cur[w])' = Concerns(cur[w])
    BY <1>1, <1>2, SameJob DEF JobsKept
  <1>5. at'[w] = "deep" /\ loc'[w] = loc[w] /\ loc' = [loc EXCEPT ![w] = loc[w]]
    BY <1>1, <1>2 DEF Types
  <1>6. KindAt(w)'
    BY <1>2, <1>4, <1>5 DEF KindAt
  <1>7. LocalsAt(w)'
    <2>1. /\ loc[w].fresh = <<>> /\ loc[w].pend = {} /\ loc[w].game \in GameId
          /\ games'[loc[w].game] # NoGame /\ Concerns(cur[w]) = {loc[w].game}
      BY <1>1, <1>2 DEF LocalsAt, GamesGrow
    <2>2. ToSet(<<>>) = {}
      BY DEF ToSet
    <2> QED
      BY <1>2, <1>4, <1>5, <2>1, <2>2 DEF LocalsAt, Stored
  <1> QED
    BY <1>1, <1>2, <1>3, <1>4, <1>5, <1>6, <1>7, HandlerKeeps DEF Types, Points

Answered(w) == {p \in loc[w].plies : Verdict[<<games[loc[w].game].pgn, p>>] # "dropped"}
Flagged(w) == {p \in Answered(w) : Verdict[<<games[loc[w].game].pgn, p>>] = "flagged"}
FreshBlunder(w, p) ==
  [game |-> loc[w].game, ply |-> p, run |-> games[loc[w].game].deeps + 1, note |-> NoNote]

LEMMA DeepCommitMeans ==
  ASSUME Shape, NEW w \in Worker, DeepCommit(w)
  PROVE  /\ at[w] = "deep" /\ loc[w].game \in GameId /\ Stored(loc[w].game)
         /\ games[loc[w].game] \in GameRow
         /\ loc[w].plies \subseteq Plies(games[loc[w].game].pgn)
         /\ Plies(games[loc[w].game].pgn) \subseteq Nat
         /\ at' = [at EXCEPT ![w] = IF Flagged(w) = {} THEN "returned" ELSE "queue_annotate"]
         /\ moves' = [q \in GameId \X AllPlies |->
                     IF q[1] = loc[w].game /\ q[2] \in Answered(w)
                     THEN games[loc[w].game].deeps + 1 ELSE moves[q]]
         /\ blunders' = {b \in blunders : ~(b.game = loc[w].game /\ b.ply \in Answered(w))}
                          \cup {FreshBlunder(w, p) : p \in Flagged(w)}
         /\ GamesGrow /\ games' \in [GameId -> GameRow \cup {NoGame}]
         /\ games'[loc[w].game].analyzed
         /\ games'[loc[w].game].deeps = games[loc[w].game].deeps + 1
         /\ \A h \in GameId : h # loc[w].game => games'[h] = games[h]
         /\ UNCHANGED <<jobs, played, synced, cur, loc>>
  <1> DEFINE g == loc[w].game
             r == [games[g] EXCEPT !.analyzed = TRUE, !.deeps = games[g].deeps + 1]
  <1>1. at[w] = "deep"
    BY DEF DeepCommit
  <1>2. g \in GameId /\ Stored(g)
    BY <1>1, AtWork DEF LocalsAt
  <1>3. games[g] \in GameRow
    BY <1>2 DEF Shape, Types, Stored
  <1>4. /\ r \in GameRow /\ r.owner = games[g].owner /\ r.pgn = games[g].pgn
        /\ r.deeps = games[g].deeps + 1 /\ r.deeps >= games[g].deeps /\ r.analyzed
    BY <1>3, RowsChange
  <1>5. games' = [games EXCEPT ![g] = r]
    <2>1. games' = [games EXCEPT ![g].analyzed = TRUE, ![g].deeps = games[g].deeps + 1]
      BY DEF DeepCommit
    <2> QED
      BY <1>2, <1>3, <2>1 DEF Shape, Types, GameRow
  <1>6. Plies(games[g].pgn) \subseteq Nat
    <2>1. Player[games[g].pgn] \in Seq(User \cup {"somebody"})
      BY <1>3, ConstantsAssumption DEF GameRow
    <2> QED
      BY <2>1, LenProperties DEF Plies
  <1>7. /\ GamesGrow /\ games' \in [GameId -> GameRow \cup {NoGame}] /\ games'[g] = r
        /\ \A h \in GameId : h # g => games'[h] = games[h]
    <2> HIDE DEF r, g
    <2> QED
      BY <1>2, <1>4, <1>5, RowGrows
  <1>8. /\ loc[w].plies \subseteq Plies(games[g].pgn)
        /\ at' = [at EXCEPT ![w] = IF Flagged(w) = {} THEN "returned" ELSE "queue_annotate"]
        /\ moves' = [q \in GameId \X AllPlies |->
                    IF q[1] = g /\ q[2] \in Answered(w)
                    THEN games[g].deeps + 1 ELSE moves[q]]
        /\ blunders' = {b \in blunders : ~(b.game = g /\ b.ply \in Answered(w))}
                          \cup {FreshBlunder(w, p) : p \in Flagged(w)}
        /\ UNCHANGED <<jobs, played, synced, cur, loc>>
    BY DEF DeepCommit, Goto, Answered, Flagged, FreshBlunder
  <1> QED
    BY <1>1, <1>2, <1>3, <1>4, <1>6, <1>7, <1>8

LEMMA DeepCommitBlunders ==
  ASSUME Shape, NEW w \in Worker, DeepCommit(w)
  PROVE  blunders' \subseteq Blunder /\ moves' \in [GameId \X AllPlies -> Nat] /\ BlunderRows'
  <1> DEFINE g == loc[w].game
             s == games[g].pgn
  <1>1. /\ at[w] = "deep" /\ g \in GameId /\ Stored(g) /\ games[g] \in GameRow
        /\ loc[w].plies \subseteq Plies(s) /\ Plies(s) \subseteq Nat
        /\ moves' = [q \in GameId \X AllPlies |->
                    IF q[1] = g /\ q[2] \in Answered(w)
                    THEN games[g].deeps + 1 ELSE moves[q]]
        /\ blunders' = {b \in blunders : ~(b.game = g /\ b.ply \in Answered(w))}
                          \cup {FreshBlunder(w, p) : p \in Flagged(w)}
        /\ GamesGrow /\ games' \in [GameId -> GameRow \cup {NoGame}]
        /\ games'[g].deeps = games[g].deeps + 1
    BY DeepCommitMeans
  <1>2. Types /\ BlunderRows
    BY DEF Shape
  <1>3. s \in Source /\ games[g].deeps \in Nat /\ games'[g] # NoGame /\ games'[g].pgn = s
    BY <1>1 DEF GameRow, GamesGrow
  <1>4. Answered(w) \subseteq Plies(s) /\ Flagged(w) \subseteq Answered(w) /\ Plies(s) \subseteq AllPlies
    BY <1>1, <1>3 DEF Answered, Flagged, AllPlies
  <1>5. ASSUME NEW p \in Flagged(w)
        PROVE  /\ FreshBlunder(w, p) \in Blunder
               /\ FreshBlunder(w, p).game = g /\ FreshBlunder(w, p).ply = p
               /\ FreshBlunder(w, p).run = games[g].deeps + 1
               /\ p \in Plies(s) /\ Verdict[<<s, p>>] = "flagged"
               /\ moves'[<<g, p>>] = games[g].deeps + 1
    BY <1>1, <1>3, <1>4 DEF FreshBlunder, Blunder, Flagged
  <1>6. blunders' \subseteq Blunder /\ moves' \in [GameId \X AllPlies -> Nat]
    <2>1. blunders \subseteq Blunder /\ moves \in [GameId \X AllPlies -> Nat]
      BY <1>2 DEF Types
    <2>2. {FreshBlunder(w, p) : p \in Flagged(w)} \subseteq Blunder
      BY <1>5
    <2>3. games[g].deeps + 1 \in Nat
      BY <1>3
    <2> HIDE DEF g, s
    <2> QED
      BY <1>1, <2>1, <2>2, <2>3
  <1>7. ASSUME NEW b \in blunders'
        PROVE  \/ b \in blunders /\ ~(b.game = g /\ b.ply \in Answered(w))
               \/ \E p \in Flagged(w) : b = FreshBlunder(w, p)
    BY <1>1
  <1> HIDE DEF g, s
  <1>8. ASSUME NEW b \in blunders'
        PROVE  /\ games'[b.game] # NoGame /\ b.run <= games'[b.game].deeps
               /\ moves'[<<b.game, b.ply>>] = b.run
               /\ b.ply \in Plies(games'[b.game].pgn)
               /\ Verdict[<<games'[b.game].pgn, b.ply>>] = "flagged"
    <2>1. CASE b \in blunders /\ ~(b.game = g /\ b.ply \in Answered(w))
      <3>1. /\ b.game \in GameId /\ b.run \in Nat /\ Stored(b.game)
            /\ b.run <= games[b.game].deeps /\ moves[<<b.game, b.ply>>] = b.run
            /\ b.ply \in Plies(games[b.game].pgn)
            /\ Verdict[<<games[b.game].pgn, b.ply>>] = "flagged"
        BY <1>2, <2>1 DEF Types, Blunder, BlunderRows
      <3>2. /\ games'[b.game] # NoGame /\ games'[b.game].pgn = games[b.game].pgn
            /\ games'[b.game].deeps >= games[b.game].deeps
        BY <1>1, <3>1 DEF GamesGrow
      <3>3. games[b.game] \in GameRow /\ games'[b.game] \in GameRow
        BY <1>1, <1>2, <3>1, <3>2 DEF Types, Stored
      <3>4. games[b.game].deeps \in Nat /\ games'[b.game].deeps \in Nat
        BY <3>3 DEF GameRow
      <3>5. b.ply \in AllPlies
        BY <3>1, <3>3 DEF GameRow, AllPlies
      <3>6. moves'[<<b.game, b.ply>>] = b.run
        BY <1>1, <2>1, <3>1, <3>5
      <3> QED
        BY <3>1, <3>2, <3>4, <3>6
    <2>2. CASE \E p \in Flagged(w) : b = FreshBlunder(w, p)
      <3>1. PICK p \in Flagged(w) : b = FreshBlunder(w, p)
        BY <2>2
      <3>2. /\ b.game = g /\ b.ply = p /\ b.run = games[g].deeps + 1
            /\ p \in Plies(s) /\ Verdict[<<s, p>>] = "flagged" /\ moves'[<<g, p>>] = b.run
        BY <1>5, <3>1
      <3> QED
        BY <1>1, <1>3, <3>2
    <2> QED
      BY <1>7, <2>1, <2>2
  <1>9. ASSUME NEW b \in blunders', NEW c \in blunders', b.game = c.game, b.ply = c.ply
        PROVE  b = c
    <2>1. CASE b \in blunders /\ ~(b.game = g /\ b.ply \in Answered(w))
      <3>1. c \in blunders
        <4>1. \A p \in Flagged(w) : c # FreshBlunder(w, p)
          BY <1>4, <1>5, <1>9, <2>1
        <4> QED
          BY <1>7, <4>1
      <3> QED
        BY <1>2, <1>9, <2>1, <3>1 DEF BlunderRows
    <2>2. CASE \E p \in Flagged(w) : b = FreshBlunder(w, p)
      <3>1. PICK p \in Flagged(w) : b = FreshBlunder(w, p)
        BY <2>2
      <3>2. b.game = g /\ b.ply = p /\ p \in Answered(w)
        BY <1>4, <1>5, <3>1
      <3>3. PICK q \in Flagged(w) : c = FreshBlunder(w, q)
        BY <1>7, <1>9, <3>2
      <3>4. c.ply = q
        BY <1>5, <3>3
      <3> QED
        BY <1>9, <3>1, <3>2, <3>3, <3>4
    <2> QED
      BY <1>7, <2>1, <2>2
  <1> QED
    BY <1>6, <1>8, <1>9 DEF BlunderRows, Stored

LEMMA DeepCommitShape ==
  ASSUME Shape, NEW w \in Worker, DeepCommit(w)
  PROVE  Shape' /\ Advances(w)
  <1> DEFINE p == IF Flagged(w) = {} THEN "returned" ELSE "queue_annotate"
  <1>1. /\ at[w] = "deep" /\ at' = [at EXCEPT ![w] = p] /\ loc[w].game \in GameId
        /\ GamesGrow /\ games' \in [GameId -> GameRow \cup {NoGame}]
        /\ games'[loc[w].game] # NoGame
        /\ UNCHANGED <<jobs, played, synced, cur, loc>>
    BY DeepCommitMeans DEF GamesGrow
  <1>2. /\ Types /\ loc[w] \in LocalTypes /\ LocalsAt(w) /\ cur[w] \in DOMAIN jobs
        /\ me(w).kind \in {"deep_analyze", "analyze_game"}
    BY <1>1, AtWork DEF KindAt
  <1>3. /\ blunders' \subseteq Blunder /\ moves' \in [GameId \X AllPlies -> Nat] /\ BlunderRows'
        /\ Clocks'
    BY <1>1, DeepCommitBlunders DEF Shape, Clocks
  <1>4. JobsKept /\ me(w)' = me(w) /\ Concerns(cur[w])' = Concerns(cur[w])
    BY <1>1, <1>2, SameJob DEF JobsKept
  <1>5. /\ at'[w] = p /\ loc'[w] = loc[w] /\ loc' = [loc EXCEPT ![w] = loc[w]]
        /\ p \in {"returned", "queue_annotate"} /\ p \in Points \ {"idle"}
    BY <1>1, <1>2 DEF Types, Points
  <1> HIDE DEF p
  <1>6. KindAt(w)'
    BY <1>2, <1>4, <1>5 DEF KindAt
  <1>7. LocalsAt(w)'
    <2>1. /\ loc[w].fresh = <<>> /\ loc[w].pend = {} /\ Concerns(cur[w]) = {loc[w].game}
          /\ me(w).kind = "deep_analyze" => loc[w].plies = me(w).about.plies
      BY <1>1, <1>2 DEF LocalsAt
    <2>2. ToSet(<<>>) = {}
      BY DEF ToSet
    <2> QED
      BY <1>1, <1>4, <1>5, <2>1, <2>2 DEF LocalsAt, Stored
  <1> QED
    BY <1>1, <1>2, <1>3, <1>4, <1>5, <1>6, <1>7, HandlerKeeps DEF Types

LEMMA QueueAnnotateMeans ==
  ASSUME Shape, NEW w \in Worker, QueueAnnotate(w)
  PROVE  LET j == NewJob("annotate", me(w).user, [game |-> loc[w].game]) IN
         /\ at[w] = "queue_annotate" /\ at' = [at EXCEPT ![w] = "returned"]
         /\ jobs' = Append(jobs, j) /\ JobsKept
         /\ j \in Job /\ j.kind = "annotate" /\ j.status = "pending"
         /\ j.about = [game |-> loc[w].game]
         /\ UNCHANGED <<games, moves, blunders, played, synced, cur, loc>>
  <1> DEFINE about == [game |-> loc[w].game]
             j == NewJob("annotate", me(w).user, about)
  <1>1. at[w] = "queue_annotate" /\ at' = [at EXCEPT ![w] = "returned"] /\ jobs' = Append(jobs, j)
    BY DEF QueueAnnotate, Goto
  <1>2. loc[w].game \in GameId /\ me(w).user \in User
    BY <1>1, AtWork DEF LocalsAt
  <1>3. about \in [game : GameId] /\ about \in Abouts
    BY <1>2 DEF Abouts
  <1>4. /\ j \in Job /\ j.status = "pending" /\ j.attempts = 0
        /\ j.kind = "annotate" /\ j.about = about
    BY <1>2, <1>3, NewJobMeans DEF Kinds
  <1>5. Enqueued(j)
    BY <1>3, <1>4 DEF Enqueued, AboutOK
  <1> QED
    BY <1>1, <1>4, <1>5 DEF JobsKept, QueueAnnotate, store

LEMMA QueueAnnotateShape ==
  ASSUME Shape, NEW w \in Worker, QueueAnnotate(w)
  PROVE  Shape' /\ Advances(w)
  <1>1. /\ at[w] = "queue_annotate" /\ at' = [at EXCEPT ![w] = "returned"] /\ JobsKept
        /\ UNCHANGED <<games, moves, blunders, played, synced, cur, loc>>
    BY QueueAnnotateMeans
  <1>2. Types /\ loc[w] \in LocalTypes /\ LocalsAt(w)
    BY <1>1, AtWork
  <1>3. /\ GamesGrow /\ BlunderRows' /\ Clocks'
        /\ games' \in [GameId -> GameRow \cup {NoGame}]
    BY <1>1, NoneStored, RowsUnchanged
  <1>4. at'[w] = "returned" /\ loc'[w] = loc[w] /\ loc' = [loc EXCEPT ![w] = loc[w]]
    BY <1>1, <1>2 DEF Types
  <1>5. KindAt(w)' /\ LocalsAt(w)'
    <2>1. loc[w].fresh = <<>> /\ loc[w].pend = {} /\ ToSet(<<>>) = {}
      BY <1>1, <1>2 DEF LocalsAt, ToSet
    <2> QED
      BY <1>4, <2>1 DEF KindAt, LocalsAt
  <1> QED
    BY <1>1, <1>2, <1>3, <1>4, <1>5, HandlerKeeps DEF Types, Points

LEMMA ReadRowsMeans ==
  ASSUME Shape, NEW w \in Worker, ReadRows(w)
  PROVE  LET ids == {<<b.ply, b.run>> : b \in Bare(loc[w].game)}
             l == [loc[w] EXCEPT !.ids = ids]
         IN
         /\ at[w] = "rows" /\ ids \subseteq Nat \X Nat
         /\ at' = [at EXCEPT ![w] = IF Bare(loc[w].game) = {} THEN "returned" ELSE "llm"]
         /\ loc' = [loc EXCEPT ![w] = l] /\ l \in LocalTypes
         /\ l.fresh = loc[w].fresh /\ l.pend = loc[w].pend /\ l.game = loc[w].game /\ l.ids = ids
         /\ UNCHANGED <<jobs, games, moves, blunders, played, synced, cur>>
  <1> DEFINE ids == {<<b.ply, b.run>> : b \in Bare(loc[w].game)}
             l == [loc[w] EXCEPT !.ids = ids]
  <1>1. /\ at[w] = "rows" /\ loc' = [loc EXCEPT ![w].ids = ids]
        /\ at' = [at EXCEPT ![w] = IF Bare(loc[w].game) = {} THEN "returned" ELSE "llm"]
        /\ UNCHANGED <<jobs, games, moves, blunders, played, synced, cur>>
    BY DEF ReadRows, Goto, store
  <1>2. loc[w] \in LocalTypes
    BY DEF Shape, Types
  <1>3. ids \subseteq Nat \X Nat
    <2>1. \A b \in blunders : b.ply \in Nat /\ b.run \in Nat
      BY DEF Shape, Types, Blunder
    <2> QED
      BY <2>1 DEF Bare
  <1> HIDE DEF ids
  <1>4. /\ loc' = [loc EXCEPT ![w] = l] /\ l \in LocalTypes
        /\ l.fresh = loc[w].fresh /\ l.pend = loc[w].pend /\ l.game = loc[w].game /\ l.ids = ids
    BY <1>1, <1>2, <1>3 DEF LocalTypes
  <1> QED
    BY <1>1, <1>3, <1>4 DEF ids

LEMMA ReadRowsShape ==
  ASSUME Shape, NEW w \in Worker, ReadRows(w)
  PROVE  Shape' /\ Advances(w)
  <1> DEFINE p == IF Bare(loc[w].game) = {} THEN "returned" ELSE "llm"
             l == [loc[w] EXCEPT !.ids = {<<b.ply, b.run>> : b \in Bare(loc[w].game)}]
  <1>1. /\ at[w] = "rows" /\ at' = [at EXCEPT ![w] = p]
        /\ loc' = [loc EXCEPT ![w] = l] /\ l \in LocalTypes
        /\ l.fresh = loc[w].fresh /\ l.pend = loc[w].pend /\ l.game = loc[w].game
        /\ UNCHANGED <<jobs, games, moves, blunders, played, synced, cur>>
    BY ReadRowsMeans
  <1>2. /\ Types /\ loc[w] \in LocalTypes /\ LocalsAt(w) /\ cur[w] \in DOMAIN jobs
        /\ me(w).kind = "annotate"
    BY <1>1, AtWork DEF KindAt
  <1>3. /\ GamesGrow /\ BlunderRows' /\ Clocks'
        /\ games' \in [GameId -> GameRow \cup {NoGame}]
    BY <1>1, NoneStored, RowsUnchanged
  <1>4. JobsKept /\ me(w)' = me(w) /\ Concerns(cur[w])' = Concerns(cur[w])
    BY <1>1, <1>2, SameJob DEF JobsKept
  <1>5. at'[w] = p /\ loc'[w] = l /\ p \in {"returned", "llm"} /\ p \in Points \ {"idle"}
    BY <1>1, <1>2 DEF Types, Points
  <1> HIDE DEF p, l
  <1>6. KindAt(w)'
    BY <1>2, <1>4, <1>5 DEF KindAt
  <1>7. LocalsAt(w)'
    <2>1. /\ l.fresh = <<>> /\ l.pend = {} /\ ToSet(<<>>) = {}
          /\ Concerns(cur[w]) = {l.game}
      BY <1>1, <1>2 DEF LocalsAt, ToSet
    <2> QED
      BY <1>1, <1>4, <1>5, <2>1 DEF LocalsAt
  <1> QED
    BY <1>1, <1>2, <1>3, <1>4, <1>5, <1>6, <1>7, HandlerKeeps DEF Types

(* What the writer makes of a row: the same one, perhaps with its note.    *)
Noted(w, b) ==
  IF b \in Bare(loc[w].game) /\ <<b.ply, b.run>> \in loc[w].ids
  THEN [b EXCEPT !.note = cur[w]] ELSE b

LEMMA WriteNotesMeans ==
  ASSUME Shape, NEW w \in Worker, WriteNotes(w)
  PROVE  /\ at[w] = "llm"
         /\ \E p \in {"save", "returned"} : at' = [at EXCEPT ![w] = p]
         /\ blunders' = {Noted(w, b) : b \in blunders}
         /\ \A b \in blunders :
              /\ Noted(w, b) \in Blunder /\ Noted(w, b).game = b.game
              /\ Noted(w, b).ply = b.ply /\ Noted(w, b).run = b.run
              /\ b.note # NoNote => Noted(w, b) = b
              /\ Noted(w, b).note = NoNote =>
                   Noted(w, b) = b /\ ~(b.game = loc[w].game /\ <<b.ply, b.run>> \in loc[w].ids)
         /\ UNCHANGED <<jobs, games, moves, played, synced, cur, loc>>
  <1>1. /\ at[w] = "llm"
        /\ \E p \in {"save", "returned"} : at' = [at EXCEPT ![w] = p]
        /\ UNCHANGED <<jobs, games, moves, played, synced, cur, loc>>
    BY DEF WriteNotes, Goto
  <1>2. blunders' = {Noted(w, b) : b \in blunders}
    BY DEF WriteNotes, Noted
  <1>3. ASSUME NEW b \in blunders
        PROVE  /\ Noted(w, b) \in Blunder /\ Noted(w, b).game = b.game
               /\ Noted(w, b).ply = b.ply /\ Noted(w, b).run = b.run
               /\ b.note # NoNote => Noted(w, b) = b
               /\ Noted(w, b).note = NoNote =>
                    Noted(w, b) = b /\ ~(b.game = loc[w].game /\ <<b.ply, b.run>> \in loc[w].ids)
    <2>1. b \in Blunder /\ cur[w] \in Nat /\ NoNote \notin Nat
      BY ConstantsAssumption DEF Shape, Types
    <2>2. CASE b \in Bare(loc[w].game) /\ <<b.ply, b.run>> \in loc[w].ids
      <3>1. Noted(w, b) = [b EXCEPT !.note = cur[w]] /\ b.note = NoNote
        BY <2>2 DEF Noted, Bare
      <3> QED
        BY <2>1, <3>1 DEF Blunder
    <2>3. CASE ~(b \in Bare(loc[w].game) /\ <<b.ply, b.run>> \in loc[w].ids)
      <3>1. Noted(w, b) = b
        BY <2>3 DEF Noted
      <3> QED
        BY <2>1, <2>3, <3>1 DEF Bare
    <2> QED
      BY <2>2, <2>3
  <1> QED
    BY <1>1, <1>2, <1>3

LEMMA WriteNotesShape ==
  ASSUME Shape, NEW w \in Worker, WriteNotes(w)
  PROVE  Shape' /\ Advances(w)
  <1> PICK p \in {"save", "returned"} : at' = [at EXCEPT ![w] = p]
    BY WriteNotesMeans
  <1>1. /\ at[w] = "llm"
        /\ blunders' = {Noted(w, b) : b \in blunders}
        /\ \A b \in blunders :
             /\ Noted(w, b) \in Blunder /\ Noted(w, b).game = b.game
             /\ Noted(w, b).ply = b.ply /\ Noted(w, b).run = b.run
        /\ UNCHANGED <<jobs, games, moves, played, synced, cur, loc>>
    BY WriteNotesMeans
  <1>2. /\ Types /\ loc[w] \in LocalTypes /\ LocalsAt(w) /\ BlunderRows
        /\ cur[w] \in DOMAIN jobs /\ me(w).kind = "annotate"
    BY <1>1, AtWork DEF Shape, KindAt
  <1>3. /\ GamesGrow /\ games' \in [GameId -> GameRow \cup {NoGame}] /\ Clocks'
    BY <1>1, RowsUnchanged DEF Shape, Clocks
  <1>4. BlunderRows'
    BY <1>1, <1>2 DEF BlunderRows, Stored
  <1>5. blunders' \subseteq Blunder
    BY <1>1
  <1>6. JobsKept /\ me(w)' = me(w)
    BY <1>1, <1>2, SameJob DEF JobsKept
  <1>7. at'[w] = p /\ p \in Points \ {"idle"} /\ loc'[w] = loc[w] /\ loc' = [loc EXCEPT ![w] = loc[w]]
    BY <1>1, <1>2 DEF Types, Points
  <1>8. KindAt(w)' /\ LocalsAt(w)'
    <2>1. loc[w].fresh = <<>> /\ loc[w].pend = {} /\ ToSet(<<>>) = {}
      BY <1>1, <1>2 DEF LocalsAt, ToSet
    <2> QED
      BY <1>2, <1>6, <1>7, <2>1 DEF KindAt, LocalsAt
  <1> QED
    BY <1>1, <1>2, <1>3, <1>4, <1>5, <1>6, <1>7, <1>8, HandlerKeeps DEF Types

LEMMA SaveIndexShape ==
  ASSUME Shape, NEW w \in Worker, SaveIndex(w)
  PROVE  Shape' /\ Advances(w)
  <1>1. /\ at[w] = "save" /\ at' = [at EXCEPT ![w] = "returned"]
        /\ UNCHANGED <<jobs, games, moves, blunders, played, synced, cur, loc>>
    BY DEF SaveIndex, Goto, store
  <1>2. Types /\ loc[w] \in LocalTypes /\ LocalsAt(w)
    BY <1>1, AtWork
  <1>3. /\ GamesGrow /\ BlunderRows' /\ Clocks'
        /\ games' \in [GameId -> GameRow \cup {NoGame}]
    BY <1>1, NoneStored, RowsUnchanged
  <1>4. JobsKept
    BY <1>1 DEF JobsKept
  <1>5. at'[w] = "returned" /\ loc'[w] = loc[w] /\ loc' = [loc EXCEPT ![w] = loc[w]]
    BY <1>1, <1>2 DEF Types
  <1>6. KindAt(w)' /\ LocalsAt(w)'
    <2>1. loc[w].fresh = <<>> /\ loc[w].pend = {} /\ ToSet(<<>>) = {}
      BY <1>1, <1>2 DEF LocalsAt, ToSet
    <2> QED
      BY <1>5, <2>1 DEF KindAt, LocalsAt
  <1> QED
    BY <1>1, <1>2, <1>3, <1>4, <1>5, <1>6, HandlerKeeps DEF Types, Points

-----------------------------------------------------------------------------
(* Shape, and what follows from it alone.                                  *)

LEMMA NextShape ==
  ASSUME Shape, [Next]_vars
  PROVE  Shape'
  <1>1. ASSUME NEW w \in Worker, Run(w) \/ Raise(w) \/ Crash(w)
        PROVE  Shape'
    BY <1>1, ClaimShape, LeavingShape, FetchShape, StoreGameShape, SyncShape, FanOutShape,
       ScanGameShape, ScanCommitShape, StoreRequestedShape, BookExitShape, DeepCommitShape,
       QueueAnnotateShape, ReadRowsShape, WriteNotesShape, SaveIndexShape
    DEF Run, Handle
  <1>2. ASSUME NEW u \in User, RequestBackfill(u) \/ \E s \in Submitted : RequestAnalysis(u, s)
        PROVE  Shape'
    <2>1. JobsKept /\ UNCHANGED <<games, moves, blunders, played, synced, at, cur, loc>>
      BY <1>2, RequestMeans
    <2> QED
      BY <2>1, OutsideShape DEF Shape, Types, Clocks
  <1>3. ASSUME NEW u \in User, Play(u)
        PROVE  Shape'
    <2>1. /\ JobsKept /\ UNCHANGED <<games, moves, blunders, synced, at, cur, loc>>
          /\ played' \in [User -> Nat] /\ Clocks'
      BY <1>3, PlayMeans
    <2> QED
      BY <2>1, OutsideShape DEF Shape, Types
  <1>4. CASE UNCHANGED vars
    <2>1. JobsKept /\ UNCHANGED <<games, moves, blunders, played, synced, at, cur, loc>>
      BY <1>4 DEF vars, JobsKept
    <2> QED
      BY <2>1, OutsideShape DEF Shape, Types, Clocks
  <1> QED
    BY <1>1, <1>2, <1>3, <1>4 DEF Next

LEMMA ShapeHolds == Spec => []Shape
  BY InitShape, NextShape, PTL DEF Spec

LEMMA ShapeTypes ==
  ASSUME Shape
  PROVE  TypeOK
  <1>1. Types /\ Ledger /\ Owners /\ Clocks /\ BlunderRows
    BY DEF Shape
  <1>2. \A i \in DOMAIN jobs :
          /\ jobs[i].kind \in Kinds /\ jobs[i].user \in User
          /\ jobs[i].status \in Statuses /\ jobs[i].attempts \in 0..MaxAttempts
    <2> SUFFICES ASSUME NEW i \in DOMAIN jobs
                 PROVE  /\ jobs[i].kind \in Kinds /\ jobs[i].user \in User
                        /\ jobs[i].status \in Statuses /\ jobs[i].attempts \in 0..MaxAttempts
      OBVIOUS
    <2>1. jobs[i] \in Job /\ jobs[i].attempts <= MaxAttempts
      BY <1>1, JobsAreRecords DEF Ledger
    <2> QED
      BY <2>1, ConstantsAssumption DEF Job
  <1>3. \A g \in GameId :
          games[g] = NoGame \/ (games[g].pgn \in Source /\ games[g].owner \in User)
    <2>1. \A g \in GameId : games[g] = NoGame \/ games[g] \in GameRow
      BY <1>1 DEF Types
    <2> QED
      BY <2>1 DEF GameRow
  <1>4. /\ moves \in [GameId \X AllPlies -> Nat] /\ at \in [Worker -> Points]
    BY <1>1 DEF Types
  <1>5. \A b \in blunders : b.run > 0 /\ moves[<<b.game, b.ply>>] = b.run
    <2>1. \A b \in blunders : b.run \in Nat \ {0}
      BY <1>1 DEF Types, Blunder
    <2>2. \A b \in blunders : b.run > 0
      <3> SUFFICES ASSUME NEW b \in blunders PROVE b.run > 0
        OBVIOUS
      <3>1. b.run \in Nat /\ b.run # 0
        BY <2>1
      <3> QED
        BY <3>1
    <2>3. \A b \in blunders : moves[<<b.game, b.ply>>] = b.run
      BY <1>1 DEF BlunderRows
    <2> QED
      BY <2>2, <2>3
  <1> QED
    BY <1>1, <1>2, <1>3, <1>4, <1>5 DEF TypeOK, Clocks, Owners

(* The job table, the rows and what every worker holds have the form       *)
(* TypeOK says: attempts never exceed the limit, a worker in a handler has *)
(* a running job, one between jobs holds nothing, no blunder lacks the row *)
(* of its move, and no sync is stamped later than the clock.               *)
THEOREM TypeCorrect == Spec => []TypeOK
  BY ShapeHolds, ShapeTypes, PTL

-----------------------------------------------------------------------------
(* No excuse is ever withdrawn.                                            *)

ExcusesStay ==
  \A i \in DOMAIN jobs : (Lost(i) => Lost(i)') /\ (AttemptFailed(i) => AttemptFailed(i)')

LEMMA KeptExcuses ==
  ASSUME Shape, JobsKept, cur' = cur
  PROVE  ExcusesStay
  <1>1. JobsGrow /\ \A i \in DOMAIN jobs : jobs'[i] = jobs[i]
    BY KeptMeans DEF Shape
  <1> SUFFICES ASSUME NEW i \in DOMAIN jobs
               PROVE  (Lost(i) => Lost(i)') /\ (AttemptFailed(i) => AttemptFailed(i)')
    BY DEF ExcusesStay
  <1>2. jobs'[i] = jobs[i] /\ (i \in Pending <=> i \in Pending')
    BY <1>1 DEF Pending, JobsGrow
  <1>3. Lost(i) => Lost(i)'
    BY <1>2 DEF Lost
  <1> QED
    BY <1>2, <1>3 DEF AttemptFailed

LEMMA ClaimedExcuses ==
  ASSUME Shape, NEW w \in Worker, NEW i \in DOMAIN jobs, Claimed(w, i)
  PROVE  ExcusesStay
  <1>1. /\ jobs[i] \in Job /\ jobs[i].status = "pending"
        /\ DOMAIN jobs' = DOMAIN jobs /\ jobs'[i].status = "running"
        /\ jobs'[i].attempts = jobs[i].attempts + 1
        /\ \A k \in DOMAIN jobs \ {i} : jobs'[k] = jobs[k]
    BY JobsAreRecords DEF Shape, Claimed, Marked
  <1>2. \A v \in Worker : cur'[v] = IF v = w THEN i ELSE cur[v]
    BY DEF Shape, Types, Claimed
  <1> SUFFICES ASSUME NEW k \in DOMAIN jobs
               PROVE  (Lost(k) => Lost(k)') /\ (AttemptFailed(k) => AttemptFailed(k)')
    BY DEF ExcusesStay
  <1>3. CASE k = i
    <2>1. ~Lost(k) /\ k \in Pending /\ k \notin Pending'
      BY <1>1, <1>3 DEF Lost, Pending
    <2>2. jobs[k].attempts \in Nat
      BY <1>1, <1>3 DEF Job
    <2> QED
      BY <1>1, <1>3, <2>1, <2>2 DEF AttemptFailed
  <1>4. CASE k # i
    <2>1. jobs'[k] = jobs[k] /\ (k \in Pending <=> k \in Pending')
      BY <1>1, <1>4 DEF Pending
    <2>2. Lost(k) => Lost(k)'
      BY <1>2, <1>4, <2>1 DEF Lost
    <2> QED
      BY <2>1, <2>2 DEF AttemptFailed
  <1> QED
    BY <1>3, <1>4

(* A job its worker gives up or dies on has failed, and is lost unless it  *)
(* is pending again.                                                       *)
LEMMA LeftExcuses ==
  ASSUME Shape, NEW w \in Worker, NEW st \in Statuses, Left(w, st),
         NEW i \in DOMAIN jobs, i = cur[w]
  PROVE  /\ ExcusesStay
         /\ st \in {"dead", "running"} => Lost(i)'
         /\ st \in {"dead", "running", "pending"} => AttemptFailed(i)'
         /\ st = "pending" => i \in Pending'
         /\ \A k \in Pending : k \in Pending'
  <1>1. /\ jobs[i] \in Job /\ jobs[i].status = "running" /\ jobs[i].attempts > 0
        /\ jobs[i].attempts \in Nat
    BY JobsAreRecords DEF Shape, Owners, Ledger, Left, me, Job
  <1>2. /\ DOMAIN jobs' = DOMAIN jobs
        /\ jobs'[i].status = st /\ jobs'[i].attempts = jobs[i].attempts
        /\ \A k \in DOMAIN jobs \ {i} : jobs'[k] = jobs[k]
    BY DEF Left, Marked, me
  <1>3. \A v \in Worker : cur'[v] = IF v = w THEN 0 ELSE cur[v]
    BY DEF Shape, Types, Left, Leave
  <1>4. 0 \notin DOMAIN jobs /\ \A v \in Worker \ {w} : cur[v] # i
    BY JobsAreRecords DEF Shape, Owners
  <1>5. st \in {"dead", "running"} => Lost(i)'
    <2>1. \A v \in Worker : cur'[v] # i
      BY <1>3, <1>4
    <2> QED
      BY <1>2, <2>1 DEF Lost
  <1>6. st = "pending" <=> i \in Pending'
    BY <1>2 DEF Pending
  <1>7. st \in {"dead", "running", "pending"} => AttemptFailed(i)'
    BY <1>1, <1>2, <1>5, <1>6 DEF AttemptFailed
  <1>8. \A k \in Pending : k \in Pending'
    BY <1>1, <1>2 DEF Pending
  <1>9. ASSUME NEW k \in DOMAIN jobs
        PROVE  (Lost(k) => Lost(k)') /\ (AttemptFailed(k) => AttemptFailed(k)')
    <2>1. CASE k = i
      <3>1. ~Lost(k) /\ k \notin Pending
        BY <1>1, <2>1 DEF Lost, Pending, Left
      <3>2. AttemptFailed(k) => AttemptFailed(k)'
        BY <1>1, <1>2, <2>1, <3>1 DEF AttemptFailed
      <3> QED
        BY <3>1, <3>2
    <2>2. CASE k # i
      <3>1. jobs'[k] = jobs[k] /\ (k \in Pending <=> k \in Pending')
        BY <1>2, <2>2 DEF Pending
      <3>2. Lost(k) => Lost(k)'
        BY <1>3, <1>4, <3>1 DEF Lost
      <3> QED
        BY <3>1, <3>2 DEF AttemptFailed
    <2> QED
      BY <2>1, <2>2
  <1> QED
    BY <1>5, <1>6, <1>7, <1>8, <1>9 DEF ExcusesStay

LEMMA ExcusedGameStays ==
  ASSUME JobsGrow, GamesGrow, ExcusesStay, NEW g \in GameId, Stored(g), ExcusedGame(g)
  PROVE  ExcusedGame(g)'
  <1>1. PICK i \in DOMAIN jobs :
          \/ /\ jobs[i].kind = "backfill" /\ AttemptFailed(i)
             /\ jobs[i].user = games[g].owner /\ games[g].pgn \in ToSet(Feed[jobs[i].user])
          \/ jobs[i].kind \in Analyses /\ g \in Concerns(i) /\ Lost(i)
    BY DEF ExcusedGame
  <1>2. /\ i \in DOMAIN jobs' /\ jobs'[i].kind = jobs[i].kind /\ jobs'[i].user = jobs[i].user
        /\ Concerns(i)' = Concerns(i)
    BY ConcernsStay DEF JobsGrow
  <1>3. games'[g].owner = games[g].owner /\ games'[g].pgn = games[g].pgn
    BY DEF GamesGrow
  <1> QED
    BY <1>1, <1>2, <1>3 DEF ExcusesStay, ExcusedGame

LEMMA ExcusedBlunderStays ==
  ASSUME JobsGrow, ExcusesStay, NEW b, ExcusedBlunder(b)
  PROVE  ExcusedBlunder(b)'
  <1>1. PICK i \in DOMAIN jobs : b.game \in Concerns(i) /\
          \/ jobs[i].kind \in {"deep_analyze", "annotate"} /\ Lost(i)
          \/ jobs[i].kind = "analyze_game" /\ AttemptFailed(i)
    BY DEF ExcusedBlunder
  <1>2. i \in DOMAIN jobs' /\ jobs'[i].kind = jobs[i].kind /\ Concerns(i)' = Concerns(i)
    BY ConcernsStay DEF JobsGrow
  <1> QED
    BY <1>1, <1>2 DEF ExcusesStay, ExcusedBlunder

-----------------------------------------------------------------------------
(* No game is forgotten.                                                   *)

Queues(i, g) == jobs[i].kind \in Analyses /\ g \in Concerns(i)

Analysing(w, g) ==
  \/ at[w] = "scan" /\ g \in ToSet(loc[w].todo)
  \/ g \in loc[w].pend \cup ToSet(loc[w].fresh)
  \/ at[w] \in {"request", "exit", "deep"} /\ g \in Concerns(cur[w])

LEMMA InFlightIs ==
  ASSUME NEW g \in GameId
  PROVE  InFlight(g) <=> \/ \E i \in Pending : Queues(i, g)
                         \/ \E w \in Worker : Analysing(w, g)
  BY DEF InFlight, Queues, Analysing

(* A pending job still asks for its games.                                 *)
LEMMA PendingStays ==
  ASSUME JobsGrow, NEW i \in DOMAIN jobs, NEW g, Queues(i, g)
  PROVE  Queues(i, g)'
  BY ConcernsStay DEF Queues, JobsGrow

(* A worker that takes no part keeps its games.                            *)
LEMMA OthersAnalyse ==
  ASSUME Shape, JobsGrow, NEW v \in Worker, at'[v] = at[v], cur'[v] = cur[v], loc'[v] = loc[v],
         NEW g, Analysing(v, g)
  PROVE  Analysing(v, g)'
  <1>1. CASE at[v] \in {"request", "exit", "deep"}
    <2>1. cur[v] \in DOMAIN jobs
      BY <1>1 DEF Shape, Owners
    <2>2. Concerns(cur[v])' = Concerns(cur[v])
      BY <2>1 DEF JobsGrow, Concerns
    <2> QED
      BY <2>2 DEF Analysing
  <1>2. CASE at[v] \notin {"request", "exit", "deep"}
    BY <1>2 DEF Analysing
  <1> QED
    BY <1>1, <1>2

(* What is left to show of a step of w's handler: the games it stores and  *)
(* those that were w's are still in somebody's charge.                     *)
LEMMA GamesByHandler ==
  ASSUME Shape, GamesForgottenOnlyByFailure, NEW w \in Worker, Advances(w),
         \A g \in GameId :
           games'[g] # NoGame /\ ~games'[g].analyzed /\ (~Stored(g) \/ Analysing(w, g)) =>
             InFlight(g)'
  PROVE  GamesForgottenOnlyByFailure'
  <1>1. JobsGrow /\ \A i \in DOMAIN jobs : jobs'[i] = jobs[i]
    BY KeptMeans DEF Shape, Advances
  <1> SUFFICES ASSUME NEW g \in GameId, games'[g] # NoGame, ~games'[g].analyzed
               PROVE  InFlight(g)' \/ ExcusedGame(g)'
    BY DEF GamesForgottenOnlyByFailure
  <1>2. CASE ~Stored(g) \/ Analysing(w, g)
    BY <1>2
  <1>3. CASE Stored(g) /\ ~Analysing(w, g)
    <2>1. ~games[g].analyzed
      BY <1>3 DEF Advances, GamesGrow
    <2>2. CASE \E i \in Pending : Queues(i, g)
      <3>1. PICK i \in Pending : Queues(i, g)
        BY <2>2
      <3>2. i \in DOMAIN jobs /\ i \in Pending'
        BY <1>1 DEF Pending, JobsGrow
      <3>3. Queues(i, g)'
        BY <1>1, <3>1, <3>2, PendingStays
      <3> QED
        BY <3>2, <3>3 DEF InFlight, Queues
    <2>3. ASSUME NEW v \in Worker, Analysing(v, g)
          PROVE  InFlight(g)'
      <3>1. v # w
        BY <1>3, <2>3
      <3>2. Analysing(v, g)'
        BY <1>1, <2>3, <3>1, OthersAnalyse DEF Advances
      <3> QED
        BY <3>2 DEF InFlight, Analysing
    <2>4. CASE ExcusedGame(g)
      <3>1. ExcusesStay
        BY KeptExcuses DEF Advances
      <3> QED
        BY <1>1, <1>3, <2>4, <3>1, ExcusedGameStays DEF Advances
    <2> QED
      BY <1>3, <2>1, <2>2, <2>3, <2>4, InFlightIs DEF GamesForgottenOnlyByFailure, Stored
  <1> QED
    BY <1>2, <1>3

LEMMA BackfillGames ==
  ASSUME Shape, GamesForgottenOnlyByFailure, NEW w \in Worker, Fetch(w) \/ StoreGame(w) \/ Sync(w)
  PROVE  GamesForgottenOnlyByFailure'
  <1>1. Advances(w) /\ Types /\ loc[w] \in LocalTypes /\ LocalsAt(w) /\ me(w).user \in User
    <2>1. Advances(w)
      BY FetchShape, StoreGameShape, SyncShape
    <2> QED
      BY <2>1, AtWork DEF Advances
  <1>2. CASE Fetch(w) \/ Sync(w)
    <2>1. games' = games /\ at[w] \in {"fetch", "store"} /\ loc[w].pend = {}
      BY <1>1, <1>2 DEF Fetch, Sync, Goto, store, LocalsAt
    <2>2. loc'[w].pend = loc[w].pend /\ loc'[w].fresh = loc[w].fresh
      BY <1>1, <1>2 DEF Fetch, Sync, Types, LocalTypes
    <2>3. \A g : Analysing(w, g) => Analysing(w, g)'
      BY <2>1, <2>2 DEF Analysing
    <2> QED
      BY <1>1, <2>1, <2>3, GamesByHandler DEF Stored, InFlight, Analysing
  <1>3. CASE StoreGame(w)
    <2> DEFINE s == Head(loc[w].todo)
    <2>1. at[w] = "store" /\ loc[w].todo # <<>> /\ Upsert(me(w).user, s) /\ loc[w].pend = {}
      BY <1>1, <1>3 DEF StoreGame, LocalsAt
    <2>2. s \in Source
      BY <1>1, <2>1, HeadAndTail DEF LocalsAt
    <2>3. /\ IdOf[s] \in GameId
          /\ \A g \in GameId : g # IdOf[s] => games'[g] = games[g]
          /\ Stored(IdOf[s]) => games' = games
      BY <1>1, <2>1, <2>2, UpsertMeans
    <2>4. loc'[w].fresh = IF Stored(IdOf[s]) THEN loc[w].fresh ELSE Append(loc[w].fresh, IdOf[s])
      BY <1>1, <1>3 DEF StoreGame, Types, LocalTypes, Stored
    <2>5. ToSet(loc'[w].fresh) = ToSet(loc[w].fresh) \cup (IF Stored(IdOf[s]) THEN {} ELSE {IdOf[s]})
      BY <1>1, <2>3, <2>4, AppendToSet DEF LocalTypes
    <2> HIDE DEF s
    <2>6. ASSUME NEW g \in GameId, games'[g] # NoGame, ~Stored(g) \/ Analysing(w, g)
          PROVE  InFlight(g)'
      <3>1. g \in ToSet(loc'[w].fresh)
        BY <2>1, <2>3, <2>5, <2>6 DEF Analysing, Stored
      <3> QED
        BY <3>1 DEF InFlight
    <2> QED
      BY <1>1, <2>6, GamesByHandler
  <1> QED
    BY <1>2, <1>3

LEMMA FanOutGames ==
  ASSUME Shape, GamesForgottenOnlyByFailure, NEW w \in Worker, FanOut(w)
  PROVE  GamesForgottenOnlyByFailure'
  <1>1. PICK first \in Seq(GameId), rest \in Seq(GameId) :
           /\ ToSet(loc[w].fresh) = ToSet(first) \cup ToSet(rest)
           /\ at[w] = "fanout"
           /\ at' = [at EXCEPT ![w] = IF rest = <<>> THEN "returned" ELSE "fanout"]
           /\ jobs' = Append(jobs, NewJob("scan_chunk", me(w).user, [games |-> first]))
           /\ loc' = [loc EXCEPT ![w].fresh = rest]
    BY FanOutMeans
  <1> DEFINE j == NewJob("scan_chunk", me(w).user, [games |-> first])
  <1>2. /\ Types /\ loc[w] \in LocalTypes /\ loc[w].pend = {} /\ me(w).user \in User /\ games' = games
    BY <1>1, AtWork DEF LocalsAt, FanOut, store
  <1>3. j \in Job /\ j.kind = "scan_chunk" /\ j.status = "pending" /\ j.about = [games |-> first]
    <2>1. [games |-> first] \in Abouts
      BY DEF Abouts
    <2> QED
      BY <1>2, <2>1, NewJobMeans DEF Kinds
  <1>4. loc'[w].fresh = rest
    BY <1>1, <1>2 DEF Types, LocalTypes
  <1> HIDE DEF j
  <1>5. ASSUME NEW g \in GameId, Analysing(w, g)
        PROVE  InFlight(g)'
    <2>1. g \in ToSet(first) \cup ToSet(rest)
      BY <1>1, <1>2, <1>5 DEF Analysing
    <2>2. CASE g \in ToSet(rest)
      BY <1>4, <2>2 DEF InFlight
    <2>3. CASE g \in ToSet(first)
      <3>1. PICK i \in DOMAIN jobs' : jobs'[i] = j
        BY <1>1, <1>2, <1>3, AppendedJob DEF j
      <3>2. i \in Pending' /\ Concerns(i)' = ToSet(first)
        BY <1>3, <3>1 DEF Pending, Concerns
      <3> QED
        BY <1>3, <2>3, <3>1, <3>2 DEF InFlight, Analyses
    <2> QED
      BY <2>1, <2>2, <2>3
  <1> QED
    BY <1>2, <1>5, FanOutShape, GamesByHandler DEF Stored

LEMMA ScanGames ==
  ASSUME Shape, GamesForgottenOnlyByFailure, NEW w \in Worker, ScanGame(w) \/ ScanCommit(w)
  PROVE  GamesForgottenOnlyByFailure'
  <1>1. Advances(w) /\ at[w] = "scan"
    BY ScanGameShape, ScanCommitShape DEF ScanGame, ScanCommit, Goto
  <1>2. /\ Types /\ loc[w] \in LocalTypes /\ loc[w].todo \in Seq(GameId) /\ loc[w].fresh = <<>>
        /\ \A g \in ToSet(loc[w].todo) : Stored(g)
        /\ me(w).user \in User
    BY <1>1, AtWork DEF LocalsAt, KindAt
  <1>3. ToSet(<<>>) = {}
    BY DEF ToSet
  <1>4. ASSUME NEW g \in GameId, Stored(g)
        PROVE  /\ Committed(w)[g] \in GameRow
               /\ Committed(w)[g].analyzed <=> (games[g].analyzed \/ g \in loc[w].pend)
    BY <1>1, <1>4, CommittedMeans
  <1>5. \A g \in GameId : ~Stored(g) => Committed(w)[g] = games[g]
    BY <1>1, CommittedMeans
  <1>6. CASE ScanCommit(w)
    <2>1. loc[w].todo = <<>> /\ games' = Committed(w)
      BY <1>6 DEF ScanCommit
    <2>2. ASSUME NEW g \in GameId, games'[g] # NoGame, ~games'[g].analyzed,
                 ~Stored(g) \/ Analysing(w, g)
          PROVE  FALSE
      <3>1. Stored(g)
        BY <1>5, <2>1, <2>2 DEF Stored
      <3>2. g \in loc[w].pend
        BY <1>1, <1>2, <1>3, <2>1, <2>2, <3>1 DEF Analysing
      <3> QED
        BY <1>4, <2>1, <2>2, <3>1, <3>2
    <2> QED
      BY <1>1, <2>2, GamesByHandler
  <1>7. CASE ScanGame(w)
    <2> DEFINE rest == Tail(loc[w].todo)
    <2>1. /\ loc[w].todo # <<>> /\ at' = at
          /\ \/ \E plies \in SUBSET Nat : Queued(w, Head(loc[w].todo), plies)
             \/ \E asks \in BOOLEAN : Passed(w, Head(loc[w].todo), asks)
      BY <1>7, ScanGameMeans
    <2>2. PICK h \in GameId :
            h = Head(loc[w].todo) /\ ToSet(loc[w].todo) = {h} \cup ToSet(rest) /\ Stored(h)
      BY <1>2, <2>1, HeadAndTail
    <2>3. ASSUME NEW plies \in SUBSET Nat, Queued(w, h, plies)
          PROVE  GamesForgottenOnlyByFailure'
      <3> DEFINE j == NewJob("deep_analyze", me(w).user, [game |-> h, plies |-> plies])
      <3>1. j \in Job /\ j.kind = "deep_analyze" /\ j.status = "pending" /\ j.about.game = h
        <4>1. [game |-> h, plies |-> plies] \in Abouts
          BY <2>2 DEF Abouts
        <4> QED
          BY <1>2, <4>1, NewJobMeans DEF Kinds
      <3>2. \E i \in DOMAIN jobs' : jobs'[i] = j
        BY <1>2, <2>3, <3>1, AppendedJob DEF Queued
      <3> HIDE DEF j
      <3>3. InFlight(h)'
        <4>1. PICK i \in DOMAIN jobs' : jobs'[i] = j
          BY <3>2
        <4>2. i \in Pending' /\ Concerns(i)' = {h}
          BY <3>1, <4>1 DEF Pending, Concerns
        <4> QED
          BY <3>1, <4>1, <4>2 DEF InFlight, Analyses
      <3>4. loc'[w].todo = rest
        BY <1>2, <2>3 DEF Queued, Types, LocalTypes
      <3>5. \A g \in GameId : g # h => games'[g] = Committed(w)[g]
        BY <2>3 DEF Queued, Committed
      <3> HIDE DEF rest
      <3>6. ASSUME NEW g \in GameId, g # h, games'[g] # NoGame, ~games'[g].analyzed,
                   ~Stored(g) \/ Analysing(w, g)
            PROVE  InFlight(g)'
        <4>1. Stored(g)
          BY <1>5, <3>5, <3>6 DEF Stored
        <4>2. g \notin loc[w].pend
          BY <1>4, <3>5, <3>6, <4>1
        <4>3. g \in ToSet(loc'[w].todo) /\ at'[w] = "scan"
          BY <1>1, <1>2, <1>3, <2>1, <2>2, <3>4, <3>6, <4>1, <4>2 DEF Analysing
        <4> QED
          BY <4>3 DEF InFlight
      <3> QED
        BY <1>1, <3>3, <3>6, GamesByHandler
    <2>4. ASSUME NEW asks \in BOOLEAN, Passed(w, h, asks)
          PROVE  GamesForgottenOnlyByFailure'
      <3>1. /\ loc'[w].todo = rest
            /\ loc'[w].pend = IF asks THEN {h} ELSE loc[w].pend \cup {h}
        BY <1>2, <2>4 DEF Passed, Types, LocalTypes
      <3>2. games' = IF asks THEN Committed(w) ELSE games
        BY <2>4 DEF Passed
      <3> HIDE DEF rest
      <3>3. ASSUME NEW g \in GameId, games'[g] # NoGame, ~games'[g].analyzed,
                   ~Stored(g) \/ Analysing(w, g)
            PROVE  InFlight(g)'
        <4>1. Stored(g)
          BY <1>5, <3>2, <3>3 DEF Stored
        <4>2. g \in loc[w].pend => ~asks
          BY <1>4, <3>2, <3>3, <4>1
        <4>3. g \in ToSet(loc'[w].todo) \/ g \in loc'[w].pend
          BY <1>1, <1>2, <1>3, <2>2, <3>1, <3>3, <4>1, <4>2 DEF Analysing
        <4> QED
          BY <1>1, <2>1, <4>3 DEF InFlight
      <3> QED
        BY <1>1, <3>3, GamesByHandler
    <2> QED
      BY <2>1, <2>2, <2>3, <2>4
  <1> QED
    BY <1>6, <1>7

LEMMA RequestGames ==
  ASSUME Shape, GamesForgottenOnlyByFailure, NEW w \in Worker, StoreRequested(w) \/ BookExit(w)
  PROVE  GamesForgottenOnlyByFailure'
  <1>1. Advances(w)
    BY StoreRequestedShape, BookExitShape
  <1>2. Types /\ LocalsAt(w) /\ me(w).user \in User /\ cur[w] \in DOMAIN jobs
    BY <1>1, AtWork DEF Advances
  <1>3. Concerns(cur[w])' = Concerns(cur[w])
    BY <1>1, <1>2, SameJob DEF Advances
  <1>4. CASE StoreRequested(w)
    <2>1. PICK s \in Source, plies \in SUBSET Nat :
            /\ at[w] = "request" /\ at' = [at EXCEPT ![w] = "exit"]
            /\ s = me(w).about.source /\ Concerns(cur[w]) = {IdOf[s]}
            /\ Upsert(me(w).user, s)
            /\ loc' = [loc EXCEPT ![w].game = IdOf[s], ![w].plies = plies]
            /\ UNCHANGED <<jobs, moves, blunders, played, synced, cur>>
      BY <1>4, StoreRequestedMeans
    <2>2. loc[w].pend = {} /\ loc[w].fresh = <<>> /\ ToSet(<<>>) = {} /\ at'[w] = "exit"
      BY <1>2, <2>1 DEF LocalsAt, Types, ToSet
    <2>3. \A g \in GameId : g # IdOf[s] => games'[g] = games[g]
      BY <1>2, <2>1, UpsertMeans
    <2>4. ASSUME NEW g \in GameId, games'[g] # NoGame, ~Stored(g) \/ Analysing(w, g)
          PROVE  InFlight(g)'
      <3>1. g = IdOf[s]
        BY <2>1, <2>2, <2>3, <2>4 DEF Analysing, Stored
      <3> QED
        BY <1>3, <2>1, <2>2, <3>1 DEF InFlight
    <2> QED
      BY <1>1, <2>4, GamesByHandler
  <1>5. CASE BookExit(w)
    <2>1. /\ at[w] = "exit" /\ at' = [at EXCEPT ![w] = "deep"] /\ loc' = loc
          /\ \A g \in GameId : ~Stored(g) => games'[g] = games[g]
      BY <1>5, BookExitMeans
    <2>2. \A g : Analysing(w, g) => Analysing(w, g)'
      BY <1>2, <1>3, <2>1 DEF Analysing, Types
    <2> QED
      BY <1>1, <2>1, <2>2, GamesByHandler DEF Stored, InFlight, Analysing
  <1> QED
    BY <1>4, <1>5

LEMMA DeepGames ==
  ASSUME Shape, GamesForgottenOnlyByFailure, NEW w \in Worker,
         DeepCommit(w) \/ QueueAnnotate(w) \/ ReadRows(w) \/ WriteNotes(w) \/ SaveIndex(w)
  PROVE  GamesForgottenOnlyByFailure'
  <1>1. Advances(w)
    BY DeepCommitShape, QueueAnnotateShape, ReadRowsShape, WriteNotesShape, SaveIndexShape
  <1>2. LocalsAt(w) /\ ToSet(<<>>) = {}
    BY <1>1, AtWork DEF Advances, ToSet
  <1>3. CASE DeepCommit(w)
    <2>1. /\ at[w] = "deep" /\ games'[loc[w].game].analyzed
          /\ \A h \in GameId : h # loc[w].game => games'[h] = games[h]
          /\ Stored(loc[w].game)
      BY <1>3, DeepCommitMeans
    <2>2. Concerns(cur[w]) = {loc[w].game} /\ loc[w].pend = {} /\ loc[w].fresh = <<>>
      BY <1>2, <2>1 DEF LocalsAt
    <2>3. \A g \in GameId :
            games'[g] # NoGame /\ (~Stored(g) \/ Analysing(w, g)) => g = loc[w].game
      BY <1>2, <2>1, <2>2 DEF Analysing, Stored
    <2> QED
      BY <1>1, <2>1, <2>3, GamesByHandler
  <1>4. CASE QueueAnnotate(w) \/ ReadRows(w) \/ WriteNotes(w) \/ SaveIndex(w)
    <2>1. at[w] \in {"queue_annotate", "rows", "llm", "save"} /\ games' = games
      BY <1>4 DEF QueueAnnotate, ReadRows, WriteNotes, SaveIndex, Goto, store
    <2>2. \A g : ~Analysing(w, g)
      BY <1>2, <2>1 DEF Analysing, LocalsAt
    <2> QED
      BY <1>1, <2>1, <2>2, GamesByHandler DEF Stored
  <1> QED
    BY <1>3, <1>4

LEMMA ClaimGames ==
  ASSUME Shape, GamesForgottenOnlyByFailure, NEW w \in Worker, Claim(w)
  PROVE  GamesForgottenOnlyByFailure'
  <1>0. Types /\ UNCHANGED <<games, moves, blunders, played, synced>>
    BY DEF Shape, Claim, store
  <1>1. PICK i \in DOMAIN jobs : Claimed(w, i)
    BY <1>0, ClaimMeans
  <1>2. JobsGrow /\ GamesGrow /\ ExcusesStay
    BY <1>0, <1>1, NoneStored, ClaimedExcuses DEF Claimed, Marked
  <1>3. /\ at'[w] = Entry[jobs[i].kind] /\ cur'[w] = i /\ loc'[w] = Payload(jobs[i])
        /\ \A v \in Worker \ {w} : at'[v] = at[v] /\ cur'[v] = cur[v] /\ loc'[v] = loc[v]
        /\ at[w] = "idle" /\ loc[w].fresh = <<>> /\ loc[w].pend = {} /\ ToSet(<<>>) = {}
    <2>1. at[w] = "idle" /\ loc[w].fresh = <<>> /\ loc[w].pend = {} /\ ToSet(<<>>) = {}
      BY <1>1 DEF Claimed, Shape, LocalsAt, ToSet
    <2> QED
      BY <1>0, <1>1, <2>1 DEF Claimed, Types
  <1> SUFFICES ASSUME NEW g \in GameId, games[g] # NoGame, ~games[g].analyzed
               PROVE  InFlight(g)' \/ ExcusedGame(g)'
    BY <1>0 DEF GamesForgottenOnlyByFailure
  <1>4. CASE \E k \in Pending : Queues(k, g)
    <2>1. PICK k \in Pending : Queues(k, g)
      BY <1>4
    <2>2. k \in DOMAIN jobs /\ Queues(k, g)'
      BY <1>2, <2>1, PendingStays DEF Pending
    <2>3. CASE k # i
      <3>1. k \in Pending'
        BY <1>1, <2>1, <2>2, <2>3 DEF Claimed, Marked, Pending
      <3> QED
        BY <2>2, <3>1 DEF InFlight, Queues
    <2>4. CASE k = i
      <3>1. CASE jobs[i].kind = "scan_chunk"
        <4>1. at'[w] = "scan" /\ ToSet(loc'[w].todo) = Concerns(i)
          BY <1>3, <3>1, PayloadMeans DEF Entry
        <4> QED
          BY <2>1, <2>4, <4>1 DEF InFlight, Queues
      <3>2. CASE jobs[i].kind \in {"deep_analyze", "analyze_game"}
        <4>1. at'[w] \in {"request", "deep"}
          BY <1>3, <3>2 DEF Entry
        <4>2. Concerns(cur[w])' = Concerns(i)'
          BY <1>3 DEF Concerns
        <4> QED
          BY <2>2, <2>4, <4>1, <4>2 DEF InFlight, Queues
      <3> QED
        BY <2>1, <2>4, <3>1, <3>2 DEF Queues, Analyses
    <2> QED
      BY <2>3, <2>4
  <1>5. ASSUME NEW v \in Worker, Analysing(v, g)
        PROVE  InFlight(g)'
    <2>1. v # w
      BY <1>3, <1>5 DEF Analysing
    <2>2. Analysing(v, g)'
      BY <1>2, <1>3, <1>5, <2>1, OthersAnalyse
    <2> QED
      BY <2>2 DEF InFlight, Analysing
  <1>6. ExcusedGame(g) => ExcusedGame(g)'
    BY <1>2, ExcusedGameStays DEF Stored
  <1> QED
    BY <1>4, <1>5, <1>6, InFlightIs DEF GamesForgottenOnlyByFailure

(* A worker that leaves its job before the end passes its games back.      *)
LEMMA LeftGames ==
  ASSUME Shape, GamesForgottenOnlyByFailure, NEW w \in Worker, NEW st \in Statuses, Left(w, st),
         at[w] = "returned" \/ st \in {"dead", "running", "pending"},
         UNCHANGED <<games, moves, blunders, played, synced>>
  PROVE  GamesForgottenOnlyByFailure'
  <1>1. /\ at[w] # "idle" /\ Types /\ LocalsAt(w) /\ KindAt(w) /\ cur[w] \in DOMAIN jobs
    BY AtWork DEF Left
  <1>2. PICK i \in DOMAIN jobs : i = cur[w]
    BY <1>1
  <1>3. /\ JobsGrow /\ GamesGrow /\ ExcusesStay /\ \A k \in Pending : k \in Pending'
        /\ st \in {"dead", "running"} => Lost(i)'
        /\ st \in {"dead", "running", "pending"} => AttemptFailed(i)'
        /\ st = "pending" => i \in Pending'
    BY <1>2, NoneStored, LeftExcuses DEF Left, Marked
  <1>4. \A v \in Worker \ {w} : at'[v] = at[v] /\ cur'[v] = cur[v] /\ loc'[v] = loc[v]
    BY <1>1 DEF Left, Leave, Types
  <1> SUFFICES ASSUME NEW g \in GameId, games[g] # NoGame, ~games[g].analyzed
               PROVE  InFlight(g)' \/ ExcusedGame(g)'
    BY DEF GamesForgottenOnlyByFailure
  <1>5. ASSUME NEW k \in Pending, Queues(k, g)
        PROVE  InFlight(g)'
    <2>1. k \in Pending' /\ Queues(k, g)'
      BY <1>3, <1>5, PendingStays DEF Pending
    <2> QED
      BY <2>1 DEF InFlight, Queues
  <1>6. ASSUME NEW v \in Worker \ {w}, Analysing(v, g)
        PROVE  InFlight(g)'
    <2>1. Analysing(v, g)'
      BY <1>3, <1>4, <1>6, OthersAnalyse
    <2> QED
      BY <2>1 DEF InFlight, Analysing
  <1>7. CASE Analysing(w, g)
    <2>1. /\ me(w) = jobs[i] /\ ToSet(<<>>) = {}
          /\ i \in DOMAIN jobs' /\ jobs'[i].kind = jobs[i].kind /\ jobs'[i].user = jobs[i].user
      BY <1>2, <1>3 DEF me, JobsGrow, ToSet
    <2>2. at[w] # "returned"
      BY <1>1, <1>7, <2>1 DEF Analysing, LocalsAt
    <2>3. CASE g \in ToSet(loc[w].fresh)
      <3>1. /\ jobs[i].kind = "backfill" /\ games[g].owner = jobs[i].user
            /\ games[g].pgn \in ToSet(Feed[jobs[i].user])
        BY <1>1, <2>1, <2>3 DEF LocalsAt, KindAt
      <3> QED
        BY <1>3, <2>1, <2>2, <3>1 DEF ExcusedGame
    <2>4. CASE g \notin ToSet(loc[w].fresh)
      <3>1. g \in Concerns(i) /\ jobs[i].kind \in Analyses
        BY <1>1, <1>2, <1>7, <2>1, <2>4 DEF Analysing, LocalsAt, KindAt, Analyses
      <3>2. Queues(i, g)'
        BY <1>3, <3>1, PendingStays DEF Queues
      <3> QED
        BY <1>3, <2>1, <2>2, <3>2 DEF InFlight, ExcusedGame, Queues
    <2> QED
      BY <2>3, <2>4
  <1>8. ExcusedGame(g) => ExcusedGame(g)'
    BY <1>3, ExcusedGameStays DEF Stored
  <1> QED
    BY <1>5, <1>6, <1>7, <1>8, InFlightIs DEF GamesForgottenOnlyByFailure

LEMMA OutsideGames ==
  ASSUME Shape, GamesForgottenOnlyByFailure, JobsKept, UNCHANGED <<games, at, cur, loc>>
  PROVE  GamesForgottenOnlyByFailure'
  <1>1. /\ JobsGrow /\ GamesGrow /\ ExcusesStay
        /\ \A i \in DOMAIN jobs : i \in DOMAIN jobs' /\ jobs'[i] = jobs[i]
    BY KeptMeans, KeptExcuses, RowsUnchanged DEF Shape, JobsGrow
  <1> SUFFICES ASSUME NEW g \in GameId, games[g] # NoGame, ~games[g].analyzed
               PROVE  InFlight(g)' \/ ExcusedGame(g)'
    BY DEF GamesForgottenOnlyByFailure
  <1>2. ASSUME NEW k \in Pending, Queues(k, g)
        PROVE  InFlight(g)'
    <2>1. k \in Pending' /\ Queues(k, g)'
      BY <1>1, <1>2, PendingStays DEF Pending
    <2> QED
      BY <2>1 DEF InFlight, Queues
  <1>3. ASSUME NEW v \in Worker, Analysing(v, g)
        PROVE  InFlight(g)'
    <2>1. Analysing(v, g)'
      BY <1>1, <1>3, OthersAnalyse
    <2> QED
      BY <2>1 DEF InFlight, Analysing
  <1>4. ExcusedGame(g) => ExcusedGame(g)'
    BY <1>1, ExcusedGameStays DEF Stored
  <1> QED
    BY <1>2, <1>3, <1>4, InFlightIs DEF GamesForgottenOnlyByFailure

LEMMA OutsideMeans ==
  ASSUME Shape,
         \/ \E u \in User : RequestBackfill(u) \/ Play(u)
         \/ \E u \in User, s \in Submitted : RequestAnalysis(u, s)
         \/ UNCHANGED vars
  PROVE  JobsKept /\ UNCHANGED <<games, moves, blunders, at, cur, loc>>
  BY RequestMeans, PlayMeans DEF vars, JobsKept

LEMMA NextGames ==
  ASSUME Shape, GamesForgottenOnlyByFailure, [Next]_vars
  PROVE  GamesForgottenOnlyByFailure'
  <1>1. ASSUME NEW w \in Worker, Run(w) \/ Raise(w) \/ Crash(w)
        PROVE  GamesForgottenOnlyByFailure'
    <2>1. CASE Finish(w) \/ Raise(w) \/ DeepFails(w) \/ Crash(w)
      <3>1. CASE Finish(w)
        BY <3>1, FinishMeans, LeftGames DEF Statuses, Finish
      <3>2. CASE Raise(w) \/ DeepFails(w)
        BY <3>2, RaiseMeans, LeftGames DEF Statuses
      <3>3. CASE Crash(w)
        BY <3>3, CrashMeans, LeftGames DEF Statuses
      <3> QED
        BY <2>1, <3>1, <3>2, <3>3
    <2> QED
      BY <1>1, <2>1, ClaimGames, BackfillGames, FanOutGames, ScanGames, RequestGames, DeepGames
      DEF Run, Handle
  <1> QED
    BY <1>1, OutsideMeans, OutsideGames DEF Next

LEMMA InitGames == Init => GamesForgottenOnlyByFailure
  BY DEF Init, GamesForgottenOnlyByFailure

(* A stored game is analyzed, or somebody has it on his way, unless a      *)
(* failed backfill or a lost job of the game explains it: however many     *)
(* workers scan, fail, retry and are killed, and with two of them on one   *)
(* game.                                                                   *)
THEOREM Games == Spec => []GamesForgottenOnlyByFailure
  <1>1. Shape /\ GamesForgottenOnlyByFailure /\ [Next]_vars =>
          (Shape /\ GamesForgottenOnlyByFailure)'
    BY NextShape, NextGames
  <1> QED
    BY <1>1, InitShape, InitGames, PTL DEF Spec

-----------------------------------------------------------------------------
(* No blunder is forgotten.                                                *)

Asks(i, b) ==
  \/ jobs[i].kind = "annotate" /\ b.game \in Concerns(i)
  \/ jobs[i].kind = "deep_analyze" /\ b.game \in Concerns(i) /\ b.ply \in jobs[i].about.plies

Annotating(w, b) ==
  loc[w].game = b.game /\
    \/ at[w] = "rows"
    \/ at[w] = "llm" /\ <<b.ply, b.run>> \in loc[w].ids
    \/ at[w] \in {"deep", "queue_annotate"} /\ me(w).kind = "deep_analyze" /\ b.ply \in loc[w].plies
    \/ at[w] = "queue_annotate" /\ me(w).kind = "analyze_game"

LEMMA ChargedIs ==
  ASSUME NEW b
  PROVE  Charged(b) <=> (\E i \in Pending : Asks(i, b)) \/ \E w \in Worker : Annotating(w, b)
  BY DEF Charged, Asks, Annotating

LEMMA AskingStays ==
  ASSUME JobsGrow, NEW i \in DOMAIN jobs, NEW b, Asks(i, b)
  PROVE  Asks(i, b)'
  BY ConcernsStay DEF Asks, JobsGrow

LEMMA OthersAnnotate ==
  ASSUME Shape, JobsGrow, NEW v \in Worker, at'[v] = at[v], cur'[v] = cur[v], loc'[v] = loc[v],
         NEW b, Annotating(v, b)
  PROVE  Annotating(v, b)'
  <1>1. cur[v] \in DOMAIN jobs
    BY DEF Shape, Owners, Annotating
  <1>2. me(v)'.kind = me(v).kind
    BY <1>1 DEF JobsGrow, me
  <1> QED
    BY <1>2 DEF Annotating

(* What is left to show of a step of w's handler: the bare blunders it     *)
(* makes, and those that were w's to annotate.                             *)
LEMMA BlundersByHandler ==
  ASSUME Shape, BlundersCharged, NEW w \in Worker, Advances(w),
         \A b \in blunders' :
           b.note = NoNote /\ (b \notin blunders \/ Annotating(w, b)) => Charged(b)'
  PROVE  BlundersCharged'
  <1>1. JobsGrow /\ \A i \in DOMAIN jobs : jobs'[i] = jobs[i]
    BY KeptMeans DEF Shape, Advances
  <1> SUFFICES ASSUME NEW b \in blunders', b.note = NoNote, b \in blunders, ~Annotating(w, b)
               PROVE  Charged(b)' \/ ExcusedBlunder(b)'
    BY DEF BlundersCharged
  <1>2. ASSUME NEW i \in Pending, Asks(i, b)
        PROVE  Charged(b)'
    <2>1. i \in DOMAIN jobs /\ i \in Pending'
      BY <1>1 DEF Pending, JobsGrow
    <2>2. Asks(i, b)'
      BY <1>1, <1>2, <2>1, AskingStays
    <2> QED
      BY <2>1, <2>2 DEF Charged, Asks
  <1>3. ASSUME NEW v \in Worker, Annotating(v, b)
        PROVE  Charged(b)'
    <2>1. v # w
      BY <1>3
    <2>2. Annotating(v, b)'
      BY <1>1, <1>3, <2>1, OthersAnnotate DEF Advances
    <2> QED
      BY <2>2 DEF Charged, Annotating
  <1>4. ExcusedBlunder(b) => ExcusedBlunder(b)'
    BY <1>1, KeptExcuses, ExcusedBlunderStays DEF Advances
  <1> QED
    BY <1>2, <1>3, <1>4, ChargedIs DEF BlundersCharged

LEMMA EarlyBlunders ==
  ASSUME Shape, BlundersCharged, NEW w \in Worker,
         \/ Fetch(w) \/ StoreGame(w) \/ Sync(w) \/ FanOut(w)
         \/ ScanGame(w) \/ ScanCommit(w) \/ StoreRequested(w) \/ BookExit(w)
  PROVE  BlundersCharged'
  <1>1. Advances(w)
    BY FetchShape, StoreGameShape, SyncShape, FanOutShape, ScanGameShape, ScanCommitShape,
       StoreRequestedShape, BookExitShape
  <1>2. /\ at[w] \in {"fetch", "store", "fanout", "scan", "request", "exit"}
        /\ blunders' = blunders
    BY DEF Fetch, StoreGame, Sync, FanOut, ScanGame, ScanCommit, StoreRequested, BookExit,
           Goto, store
  <1>3. \A b : ~Annotating(w, b)
    BY <1>2 DEF Annotating
  <1> QED
    BY <1>1, <1>2, <1>3, BlundersByHandler

LEMMA DeepBlunders ==
  ASSUME Shape, BlundersCharged, NEW w \in Worker, DeepCommit(w)
  PROVE  BlundersCharged'
  <1>1. /\ at[w] = "deep" /\ loc[w].plies \subseteq Plies(games[loc[w].game].pgn)
        /\ at' = [at EXCEPT ![w] = IF Flagged(w) = {} THEN "returned" ELSE "queue_annotate"]
        /\ blunders' = {b \in blunders : ~(b.game = loc[w].game /\ b.ply \in Answered(w))}
                         \cup {FreshBlunder(w, p) : p \in Flagged(w)}
        /\ UNCHANGED <<jobs, cur, loc>>
    BY DeepCommitMeans
  <1>2. Advances(w) /\ Types /\ BlunderRows
    BY DeepCommitShape DEF Shape
  <1>3. me(w)' = me(w) /\ me(w).kind \in {"deep_analyze", "analyze_game"}
    BY <1>1, AtWork DEF me, KindAt
  <1>4. Flagged(w) # {} => at'[w] = "queue_annotate"
    BY <1>1, <1>2 DEF Types
  <1>5. ASSUME NEW b \in blunders', b \notin blunders
        PROVE  Charged(b)'
    <2>1. PICK p \in Flagged(w) : b = FreshBlunder(w, p)
      BY <1>1, <1>5
    <2>2. b.game = loc[w].game /\ b.ply = p /\ p \in loc[w].plies
      BY <2>1 DEF FreshBlunder, Flagged, Answered
    <2> QED
      BY <1>1, <1>3, <1>4, <2>1, <2>2 DEF Charged
  <1>6. ASSUME NEW b \in blunders, Annotating(w, b)
        PROVE  Charged(b)'
    <2>1. b.game = loc[w].game /\ me(w).kind = "deep_analyze" /\ b.ply \in loc[w].plies
      BY <1>1, <1>6 DEF Annotating
    <2>2. Verdict[<<games[loc[w].game].pgn, b.ply>>] = "flagged"
      BY <1>2, <2>1 DEF BlunderRows
    <2>3. b.ply \in Flagged(w)
      BY <2>1, <2>2 DEF Flagged, Answered
    <2> QED
      BY <1>1, <1>3, <1>4, <2>1, <2>3 DEF Charged
  <1> QED
    BY <1>2, <1>5, <1>6, BlundersByHandler

LEMMA AnnotateBlunders ==
  ASSUME Shape, BlundersCharged, NEW w \in Worker,
         QueueAnnotate(w) \/ ReadRows(w) \/ WriteNotes(w) \/ SaveIndex(w)
  PROVE  BlundersCharged'
  <1>1. Advances(w) /\ Types /\ LocalsAt(w) /\ loc[w] \in LocalTypes
    <2>1. Advances(w)
      BY QueueAnnotateShape, ReadRowsShape, WriteNotesShape, SaveIndexShape
    <2> QED
      BY <2>1, AtWork DEF Advances
  <1>2. CASE QueueAnnotate(w)
    <2> DEFINE j == NewJob("annotate", me(w).user, [game |-> loc[w].game])
    <2>1. /\ jobs' = Append(jobs, j) /\ blunders' = blunders
          /\ j \in Job /\ j.kind = "annotate" /\ j.status = "pending"
          /\ j.about = [game |-> loc[w].game]
      BY <1>2, QueueAnnotateMeans
    <2>2. \E i \in DOMAIN jobs' : jobs'[i] = j
      BY <1>1, <2>1, AppendedJob
    <2> HIDE DEF j
    <2>3. PICK i \in DOMAIN jobs' : jobs'[i] = j
      BY <2>2
    <2>4. i \in Pending' /\ Concerns(i)' = {loc[w].game}
      BY <2>1, <2>3 DEF Pending, Concerns
    <2>5. \A b \in blunders : Annotating(w, b) => Charged(b)'
      BY <2>1, <2>3, <2>4 DEF Annotating, Charged
    <2> QED
      BY <1>1, <2>1, <2>5, BlundersByHandler
  <1>3. CASE ReadRows(w)
    <2> DEFINE ids == {<<b.ply, b.run>> : b \in Bare(loc[w].game)}
    <2>1. /\ at[w] = "rows" /\ blunders' = blunders
          /\ at' = [at EXCEPT ![w] = IF Bare(loc[w].game) = {} THEN "returned" ELSE "llm"]
          /\ loc'[w].ids = ids /\ loc'[w].game = loc[w].game
      BY <1>1, <1>3, ReadRowsMeans DEF Types
    <2>2. ASSUME NEW b \in blunders, b.note = NoNote, Annotating(w, b)
          PROVE  Charged(b)'
      <3>1. b.game = loc[w].game /\ b \in Bare(loc[w].game)
        BY <2>2 DEF Annotating, Bare
      <3>2. at'[w] = "llm" /\ <<b.ply, b.run>> \in loc'[w].ids
        BY <1>1, <2>1, <3>1 DEF Types
      <3> QED
        BY <2>1, <3>1, <3>2 DEF Charged
    <2> QED
      BY <1>1, <2>1, <2>2, BlundersByHandler
  <1>4. CASE WriteNotes(w)
    <2>1. /\ at[w] = "llm" /\ blunders' = {Noted(w, b) : b \in blunders}
          /\ \A b \in blunders : Noted(w, b).note = NoNote =>
               Noted(w, b) = b /\ ~(b.game = loc[w].game /\ <<b.ply, b.run>> \in loc[w].ids)
      BY <1>4, WriteNotesMeans
    <2>2. ASSUME NEW c \in blunders', c.note = NoNote
          PROVE  c \in blunders /\ ~Annotating(w, c)
      <3>1. PICK b \in blunders : c = Noted(w, b)
        BY <2>1
      <3>2. c = b /\ ~(b.game = loc[w].game /\ <<b.ply, b.run>> \in loc[w].ids)
        BY <2>1, <2>2, <3>1
      <3> QED
        BY <2>1, <3>2 DEF Annotating
    <2> QED
      BY <1>1, <2>2, BlundersByHandler
  <1>5. CASE SaveIndex(w)
    <2>1. at[w] = "save" /\ blunders' = blunders
      BY <1>5 DEF SaveIndex, Goto, store
    <2>2. \A b \in blunders : ~Annotating(w, b)
      BY <2>1 DEF Annotating
    <2> QED
      BY <1>1, <2>1, <2>2, BlundersByHandler
  <1> QED
    BY <1>2, <1>3, <1>4, <1>5

LEMMA ClaimBlunders ==
  ASSUME Shape, BlundersCharged, NEW w \in Worker, Claim(w)
  PROVE  BlundersCharged'
  <1>0. Types /\ UNCHANGED <<games, moves, blunders, played, synced>>
    BY DEF Shape, Claim, store
  <1>1. PICK i \in DOMAIN jobs : Claimed(w, i)
    BY <1>0, ClaimMeans
  <1>2. JobsGrow /\ ExcusesStay
    BY <1>1, ClaimedExcuses DEF Claimed, Marked
  <1>3. /\ at'[w] = Entry[jobs[i].kind] /\ cur'[w] = i /\ loc'[w] = Payload(jobs[i])
        /\ \A v \in Worker \ {w} : at'[v] = at[v] /\ cur'[v] = cur[v] /\ loc'[v] = loc[v]
        /\ at[w] = "idle"
    BY <1>0, <1>1 DEF Claimed, Types
  <1> SUFFICES ASSUME NEW b \in blunders, b.note = NoNote
               PROVE  Charged(b)' \/ ExcusedBlunder(b)'
    BY <1>0 DEF BlundersCharged
  <1>4. ASSUME NEW k \in Pending, Asks(k, b)
        PROVE  Charged(b)'
    <2>1. k \in DOMAIN jobs /\ Asks(k, b)'
      BY <1>2, <1>4, AskingStays DEF Pending
    <2>2. CASE k # i
      <3>1. k \in Pending'
        BY <1>1, <2>1, <2>2 DEF Claimed, Marked, Pending
      <3> QED
        BY <2>1, <3>1 DEF Charged, Asks
    <2>3. CASE k = i
      <3>1. Concerns(i) = {Payload(jobs[i]).game} /\ loc'[w].game = b.game
        BY <1>3, <1>4, <2>3, PayloadMeans DEF Asks
      <3>2. CASE jobs[i].kind = "annotate"
        <4>1. at'[w] = "rows"
          BY <1>3, <3>2 DEF Entry
        <4> QED
          BY <3>1, <4>1 DEF Charged
      <3>3. CASE jobs[i].kind = "deep_analyze"
        <4>1. at'[w] = "deep" /\ loc'[w].plies = jobs[i].about.plies
          BY <1>3, <3>3, PayloadMeans DEF Entry
        <4>2. me(w)'.kind = "deep_analyze"
          BY <1>2, <1>3, <3>3 DEF me, JobsGrow
        <4>3. b.ply \in loc'[w].plies
          BY <1>4, <2>3, <3>3, <4>1 DEF Asks
        <4> QED
          BY <3>1, <4>1, <4>2, <4>3 DEF Charged
      <3> QED
        BY <1>4, <2>3, <3>2, <3>3 DEF Asks
    <2> QED
      BY <2>2, <2>3
  <1>5. ASSUME NEW v \in Worker, Annotating(v, b)
        PROVE  Charged(b)'
    <2>1. v # w
      BY <1>3, <1>5 DEF Annotating
    <2>2. Annotating(v, b)'
      BY <1>2, <1>3, <1>5, <2>1, OthersAnnotate
    <2> QED
      BY <2>2 DEF Charged, Annotating
  <1>6. ExcusedBlunder(b) => ExcusedBlunder(b)'
    BY <1>2, ExcusedBlunderStays
  <1> QED
    BY <1>4, <1>5, <1>6, ChargedIs DEF BlundersCharged

LEMMA LeftBlunders ==
  ASSUME Shape, BlundersCharged, NEW w \in Worker, NEW st \in Statuses, Left(w, st),
         at[w] = "returned" \/ st \in {"dead", "running", "pending"},
         UNCHANGED <<games, moves, blunders, played, synced>>
  PROVE  BlundersCharged'
  <1>1. /\ at[w] # "idle" /\ Types /\ LocalsAt(w) /\ KindAt(w) /\ cur[w] \in DOMAIN jobs
    BY AtWork DEF Left
  <1>2. PICK i \in DOMAIN jobs : i = cur[w]
    BY <1>1
  <1>3. /\ JobsGrow /\ ExcusesStay /\ \A k \in Pending : k \in Pending'
        /\ st \in {"dead", "running"} => Lost(i)'
        /\ st \in {"dead", "running", "pending"} => AttemptFailed(i)'
        /\ st = "pending" => i \in Pending'
    BY <1>2, LeftExcuses DEF Left, Marked
  <1>4. \A v \in Worker \ {w} : at'[v] = at[v] /\ cur'[v] = cur[v] /\ loc'[v] = loc[v]
    BY <1>1 DEF Left, Leave, Types
  <1> SUFFICES ASSUME NEW b \in blunders, b.note = NoNote
               PROVE  Charged(b)' \/ ExcusedBlunder(b)'
    BY DEF BlundersCharged
  <1>5. ASSUME NEW k \in Pending, Asks(k, b)
        PROVE  Charged(b)'
    <2>1. k \in Pending' /\ Asks(k, b)'
      BY <1>3, <1>5, AskingStays DEF Pending
    <2> QED
      BY <2>1 DEF Charged, Asks
  <1>6. ASSUME NEW v \in Worker \ {w}, Annotating(v, b)
        PROVE  Charged(b)'
    <2>1. Annotating(v, b)'
      BY <1>3, <1>4, <1>6, OthersAnnotate
    <2> QED
      BY <2>1 DEF Charged, Annotating
  <1>7. CASE Annotating(w, b)
    <2>1. /\ me(w) = jobs[i] /\ i \in DOMAIN jobs' /\ jobs'[i].kind = jobs[i].kind
          /\ Concerns(i)' = Concerns(i)
      BY <1>2, <1>3, ConcernsStay DEF me, JobsGrow
    <2>2. Concerns(i) = {loc[w].game} /\ b.game = loc[w].game /\ at[w] # "returned"
      BY <1>1, <1>2, <1>7 DEF Annotating, LocalsAt
    <2>3. CASE jobs[i].kind = "analyze_game"
      BY <1>3, <2>1, <2>2, <2>3 DEF ExcusedBlunder
    <2>4. CASE jobs[i].kind # "analyze_game"
      <3>1. Asks(i, b)
        BY <1>1, <1>7, <2>1, <2>2, <2>4 DEF Annotating, Asks, KindAt, LocalsAt
      <3>2. Asks(i, b)'
        BY <1>3, <3>1, AskingStays
      <3>3. st = "pending" => Charged(b)'
        BY <1>3, <3>2 DEF Charged, Asks
      <3>4. st # "pending" => ExcusedBlunder(b)'
        BY <1>3, <2>1, <2>2, <3>1 DEF ExcusedBlunder, Asks
      <3> QED
        BY <3>3, <3>4
    <2> QED
      BY <2>3, <2>4
  <1>8. ExcusedBlunder(b) => ExcusedBlunder(b)'
    BY <1>3, ExcusedBlunderStays
  <1> QED
    BY <1>5, <1>6, <1>7, <1>8, ChargedIs DEF BlundersCharged

LEMMA OutsideBlunders ==
  ASSUME Shape, BlundersCharged, JobsKept, UNCHANGED <<blunders, at, cur, loc>>
  PROVE  BlundersCharged'
  <1>1. /\ JobsGrow /\ ExcusesStay
        /\ \A i \in DOMAIN jobs : i \in DOMAIN jobs' /\ jobs'[i] = jobs[i]
    BY KeptMeans, KeptExcuses DEF Shape, JobsGrow
  <1> SUFFICES ASSUME NEW b \in blunders, b.note = NoNote
               PROVE  Charged(b)' \/ ExcusedBlunder(b)'
    BY DEF BlundersCharged
  <1>2. ASSUME NEW k \in Pending, Asks(k, b)
        PROVE  Charged(b)'
    <2>1. k \in Pending' /\ Asks(k, b)'
      BY <1>1, <1>2, AskingStays DEF Pending
    <2> QED
      BY <2>1 DEF Charged, Asks
  <1>3. ASSUME NEW v \in Worker, Annotating(v, b)
        PROVE  Charged(b)'
    <2>1. Annotating(v, b)'
      BY <1>1, <1>3, OthersAnnotate
    <2> QED
      BY <2>1 DEF Charged, Annotating
  <1>4. ExcusedBlunder(b) => ExcusedBlunder(b)'
    BY <1>1, ExcusedBlunderStays
  <1> QED
    BY <1>2, <1>3, <1>4, ChargedIs DEF BlundersCharged

LEMMA NextBlunders ==
  ASSUME Shape, BlundersCharged, [Next]_vars
  PROVE  BlundersCharged'
  <1>1. ASSUME NEW w \in Worker, Run(w) \/ Raise(w) \/ Crash(w)
        PROVE  BlundersCharged'
    <2>1. CASE Finish(w) \/ Raise(w) \/ DeepFails(w) \/ Crash(w)
      <3>1. CASE Finish(w)
        BY <3>1, FinishMeans, LeftBlunders DEF Statuses, Finish
      <3>2. CASE Raise(w) \/ DeepFails(w)
        BY <3>2, RaiseMeans, LeftBlunders DEF Statuses
      <3>3. CASE Crash(w)
        BY <3>3, CrashMeans, LeftBlunders DEF Statuses
      <3> QED
        BY <2>1, <3>1, <3>2, <3>3
    <2> QED
      BY <1>1, <2>1, ClaimBlunders, EarlyBlunders, DeepBlunders, AnnotateBlunders DEF Run, Handle
  <1> QED
    BY <1>1, OutsideMeans, OutsideBlunders DEF Next

LEMMA ChargedWillBeAnnotated ==
  ASSUME BlundersCharged
  PROVE  BlundersForgottenOnlyByFailure
  BY DEF BlundersCharged, BlundersForgottenOnlyByFailure, Charged, ToBeAnnotated

(* A blunder without annotation is in somebody's charge, unless a lost job *)
(* of its game or a failed single-game analysis explains it: the deep pass *)
(* commits first and queues the annotation next, and between the two the   *)
(* worker answers for the row.                                             *)
THEOREM Blunders == Spec => []BlundersForgottenOnlyByFailure
  <1>1. Init => BlundersCharged
    BY DEF Init, BlundersCharged
  <1>2. Shape /\ BlundersCharged /\ [Next]_vars => (Shape /\ BlundersCharged)'
    BY NextShape, NextBlunders
  <1> QED
    BY <1>1, <1>2, InitShape, ChargedWillBeAnnotated, PTL DEF Spec

-----------------------------------------------------------------------------
(* An annotation is never replaced.                                        *)

LEMMA NotesKept ==
  ASSUME Shape, [Next]_vars, NEW b \in blunders, NEW c \in blunders',
         b.note # NoNote, b.game = c.game, b.ply = c.ply, b.run = c.run
  PROVE  c.note = b.note
  <1>0. Types /\ BlunderRows
    BY DEF Shape
  <1>1. CASE c \in blunders
    BY <1>0, <1>1 DEF BlunderRows
  <1>2. ASSUME NEW w \in Worker, DeepCommit(w), c \notin blunders
        PROVE  FALSE
    <2>1. PICK p \in Flagged(w) : c = FreshBlunder(w, p)
      BY <1>2, DeepCommitMeans
    <2>2. b.game = loc[w].game /\ b.run = games[loc[w].game].deeps + 1
      BY <2>1 DEF FreshBlunder
    <2>3. b.run <= games[b.game].deeps /\ b.run \in Nat /\ games[b.game].deeps \in Nat
      BY <1>0 DEF BlunderRows, Types, Blunder, GameRow, Stored
    <2> QED
      BY <2>2, <2>3
  <1>3. ASSUME NEW w \in Worker, WriteNotes(w)
        PROVE  c.note = b.note
    <2>1. /\ blunders' = {Noted(w, a) : a \in blunders}
          /\ \A a \in blunders :
               /\ Noted(w, a).game = a.game /\ Noted(w, a).ply = a.ply
               /\ a.note # NoNote => Noted(w, a) = a
      BY <1>3, WriteNotesMeans
    <2>2. PICK a \in blunders : c = Noted(w, a)
      BY <2>1
    <2>3. a = b
      BY <1>0, <2>1, <2>2 DEF BlunderRows
    <2> QED
      BY <2>1, <2>2, <2>3
  <1>4. ASSUME NEW w \in Worker, Run(w) \/ Raise(w) \/ Crash(w), ~DeepCommit(w), ~WriteNotes(w)
        PROVE  c \in blunders
    BY <1>4 DEF Run, Handle, Raise, Crash, Claim, Finish, Fetch, StoreGame, Sync, FanOut, ScanGame,
                ScanCommit, StoreRequested, BookExit, DeepFails, QueueAnnotate, ReadRows, SaveIndex, store
  <1> QED
    BY <1>1, <1>2, <1>3, <1>4, OutsideMeans DEF Next

(* "Set-once": two annotate jobs of one game may both have read the row,   *)
(* and a deep pass may replace it meanwhile, but a note that is written    *)
(* stays as it is for as long as its row exists.                           *)
THEOREM SetOnce == Spec => AnnotationSetOnce
  <1>1. Shape /\ [Next]_vars =>
          [\A b \in blunders, c \in blunders' :
             b.note # NoNote /\ b.game = c.game /\ b.ply = c.ply /\ b.run = c.run
               => c.note = b.note]_vars
    BY NotesKept
  <1> QED
    BY <1>1, ShapeHolds, PTL DEF Spec, AnnotationSetOnce

-----------------------------------------------------------------------------
(* Every step of a handler is a step of RowsContract, or it leaves the     *)
(* rows alone.                                                             *)

Keys == GameId \X AllPlies
Here(q) == {c \in blunders : <<c.game, c.ply>> = q}
Told(q) == {[by |-> b.run, noted |-> b.note # NoNote] : b \in Here(q)}

LEMMA InitRows == Init => Rows!Init
  BY DEF Init, Rows!Init

LEMMA DeepCommitRows ==
  ASSUME Shape, NEW w \in Worker, DeepCommit(w)
  PROVE  [Rows!Next]_(Rows!vars)
  <1> DEFINE g == loc[w].game
             run == games[g].deeps + 1
             fresh == [by |-> run, noted |-> FALSE]
             A == {<<g, p>> : p \in Answered(w)}
             F == {<<g, p>> : p \in Flagged(w)}
  <1>1. /\ g \in GameId /\ games[g] \in GameRow /\ loc[w].plies \subseteq Plies(games[g].pgn)
        /\ moves' = [q \in Keys |-> IF q[1] = g /\ q[2] \in Answered(w) THEN run ELSE moves[q]]
        /\ blunders' = {b \in blunders : ~(b.game = g /\ b.ply \in Answered(w))}
                          \cup {FreshBlunder(w, p) : p \in Flagged(w)}
    BY DeepCommitMeans DEF Keys
  <1>2. run \in Nat \ {0}
    BY <1>1 DEF GameRow
  <1>3. /\ Answered(w) \subseteq AllPlies
        /\ Flagged(w) \subseteq Answered(w)
    BY <1>1 DEF Answered, Flagged, AllPlies, GameRow
  <1>4. A \in SUBSET Keys /\ F \in SUBSET A
    BY <1>1, <1>3 DEF Keys
  <1>5. \A p \in Flagged(w) : /\ FreshBlunder(w, p).game = g /\ FreshBlunder(w, p).ply = p
                             /\ FreshBlunder(w, p).run = run /\ FreshBlunder(w, p).note = NoNote
    BY DEF FreshBlunder
  <1>6. moves' = [q \in Keys |-> IF q \in A THEN run ELSE moves[q]]
    <2>1. \A q \in Keys : q \in A <=> q[1] = g /\ q[2] \in Answered(w)
      BY DEF Keys
    <2> HIDE DEF A, run
    <2> QED
      BY <1>1, <2>1
  <1>7. ASSUME NEW q \in Keys
        PROVE  Told(q)' = IF q \in F THEN {fresh} ELSE IF q \in A THEN {} ELSE Told(q)
    <2>1. CASE q \in F
      <3>1. PICK p \in Flagged(w) : q = <<g, p>>
        BY <2>1
      <3>2. Here(q)' = {FreshBlunder(w, p)}
        BY <1>1, <1>3, <1>5, <3>1 DEF Here
      <3>3. PICK c \in Here(q)' : Here(q)' = {c} /\ c.run = run /\ c.note = NoNote
        BY <1>5, <3>2
      <3>4. Told(q)' = {[by |-> c.run, noted |-> c.note # NoNote]}
        BY <3>3 DEF Told
      <3> HIDE DEF F, run
      <3> QED
        BY <2>1, <3>3, <3>4
    <2>2. CASE q \in A /\ q \notin F
      <3>1. PICK p \in Answered(w) : q = <<g, p>> /\ p \notin Flagged(w)
        BY <2>2
      <3>2. Here(q)' = {}
        BY <1>1, <1>5, <3>1 DEF Here
      <3> QED
        BY <2>2, <3>2 DEF Told
    <2>3. CASE q \notin A
      <3>1. Here(q)' = Here(q)
        BY <1>1, <1>3, <1>5, <2>3 DEF Here
      <3> QED
        BY <1>4, <2>3, <3>1 DEF Told
    <2> QED
      BY <2>1, <2>2, <2>3
  <1> HIDE DEF A, F, run
  <1>8. PICK B \in SUBSET Keys, G \in SUBSET A : B = A /\ G = F
    BY <1>4
  <1>9. Rows!Analyse(run, B, G)
    BY <1>6, <1>7, <1>8 DEF Rows!Analyse, Told, Here, Keys
  <1>10. CASE B # {}
    <2>1. PICK q \in B : moves'[q] = run
      BY <1>6, <1>8, <1>10
    <2>2. G \in SUBSET B
      BY <1>8
    <2> QED
      BY <1>2, <1>9, <2>1, <2>2 DEF Rows!Next, Keys
  <1>11. CASE B = {}
    <2>1. moves' = moves
      BY <1>6, <1>8, <1>11 DEF Shape, Types, Keys
    <2>2. \A q \in Keys : Told(q)' = Told(q)
      BY <1>7, <1>8, <1>11
    <2>3. [q \in Keys |-> Told(q)]' = [q \in Keys |-> Told(q)]
      BY <2>2 DEF Keys
    <2> QED
      BY <2>1, <2>3 DEF Rows!vars, Told, Here, Keys
  <1> QED
    BY <1>10, <1>11

LEMMA WriteNotesRows ==
  ASSUME Shape, NEW w \in Worker, WriteNotes(w)
  PROVE  Rows!Next
  <1> DEFINE Mine == {b \in blunders : b.note = NoNote /\ Noted(w, b).note # NoNote}
             A == {<<b.game, b.ply>> : b \in Mine}
  <1>1. /\ blunders' = {Noted(w, b) : b \in blunders} /\ moves' = moves
        /\ \A b \in blunders :
             /\ Noted(w, b).game = b.game /\ Noted(w, b).ply = b.ply
             /\ Noted(w, b).run = b.run
             /\ b \notin Mine => Noted(w, b) = b
    BY WriteNotesMeans
  <1>2. Types /\ BlunderRows
    BY DEF Shape
  <1>3. A \in SUBSET Keys
    <2> SUFFICES ASSUME NEW b \in blunders PROVE <<b.game, b.ply>> \in Keys
      OBVIOUS
    <2>1. b.game \in GameId /\ games[b.game] \in GameRow /\ b.ply \in Plies(games[b.game].pgn)
      BY <1>2 DEF Types, Blunder, BlunderRows, Stored
    <2> QED
      BY <2>1 DEF Keys, AllPlies, GameRow
  <1>4. ASSUME NEW q \in A
        PROVE  /\ \E r \in Told(q) : ~r.noted
               /\ Told(q)' = {[by |-> r.by, noted |-> TRUE] : r \in Told(q)}
    <2>1. PICK b \in Mine : q = <<b.game, b.ply>>
      OBVIOUS
    <2>2. Here(q) = {b}
      BY <1>2, <2>1 DEF Here, BlunderRows
    <2>3. Here(q)' = {Noted(w, b)}
      BY <1>1, <1>2, <2>1 DEF Here, BlunderRows
    <2>4. Told(q) = {[by |-> b.run, noted |-> FALSE]}
      BY <2>1, <2>2 DEF Told
    <2>5. Told(q)' = {[by |-> b.run, noted |-> TRUE]}
      <3>1. Noted(w, b).run = b.run /\ Noted(w, b).note # NoNote
        BY <1>1, <2>1
      <3>2. PICK c \in blunders' : c = Noted(w, b)
        BY <1>1, <2>1
      <3>3. Told(q)' = {[by |-> c.run, noted |-> c.note # NoNote]}
        BY <2>3, <3>2 DEF Told
      <3> QED
        BY <3>1, <3>2, <3>3
    <2> QED
      BY <2>4, <2>5
  <1>5. ASSUME NEW q \in Keys \ A
        PROVE  Told(q)' = Told(q)
    <2>1. \A b \in Here(q) : b \in blunders /\ b \notin Mine
      BY DEF Here
    <2>2. Here(q)' = Here(q)
      <3> HIDE DEF Mine
      <3> QED
        BY <1>1, <2>1 DEF Here
    <2> QED
      BY <2>2 DEF Told
  <1> HIDE DEF A
  <1>6. PICK B \in SUBSET Keys : B = A
    BY <1>3
  <1>7. Rows!Annotate(B)
    BY <1>1, <1>4, <1>5, <1>6 DEF Rows!Annotate, Told, Here, Keys
  <1> QED
    BY <1>7 DEF Rows!Next, Keys

(* Backfills, scans, retries, games that share a row, exceptions and kills:*)
(* all that ever happens to analyses and blunders is whole deep passes and *)
(* whole annotate jobs, as RowsContract has them and as GameRows, below    *)
(* the commits, implements them.                                           *)
THEOREM Implements == Spec => ImplementsRows
  <1>1. Shape /\ [Next]_vars => [Rows!Next]_(Rows!vars)
    <2> SUFFICES ASSUME Shape, [Next]_vars
                 PROVE  [Rows!Next]_(Rows!vars)
      OBVIOUS
    <2>1. moves' = moves /\ blunders' = blunders => UNCHANGED Rows!vars
      BY DEF Rows!vars
    <2>2. ASSUME NEW w \in Worker, Run(w) \/ Raise(w) \/ Crash(w), ~DeepCommit(w), ~WriteNotes(w)
          PROVE  moves' = moves /\ blunders' = blunders
      BY <2>2 DEF Run, Handle, Raise, Crash, Claim, Finish, Fetch, StoreGame, Sync, FanOut, ScanGame,
                  ScanCommit, StoreRequested, BookExit, DeepFails, QueueAnnotate, ReadRows, SaveIndex, store
    <2> QED
      BY <2>1, <2>2, DeepCommitRows, WriteNotesRows, OutsideMeans DEF Next
  <1> QED
    BY <1>1, InitRows, ShapeHolds, PTL DEF Spec, ImplementsRows, Rows!Spec

=============================================================================
