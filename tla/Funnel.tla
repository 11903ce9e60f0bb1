------------------------------- MODULE Funnel -------------------------------
(***************************************************************************)
(* The analysis funnel: the job handlers of core/blunder/handlers.py, the  *)
(* flows they run (flows.py, deep.py, annotate_flow.py), and the rows they *)
(* leave in games, move_analyses, blunders and jobs.  A request becomes    *)
(* jobs that make other jobs: backfill -> scan_chunk -> deep_analyze ->    *)
(* annotate; analyze_game scans and analyses one game by itself.           *)
(*                                                                         *)
(* A step is one committed transaction, or one uncommitted statement where *)
(* the flow goes on before it commits.  A handler may raise at any point,  *)
(* which rolls back what it did not commit and hands the job to the queue  *)
(* for another attempt; a worker may be killed at any point, which leaves  *)
(* the job running.  The queue is used as QueueContract promises: a claim  *)
(* takes the best-ranked pending job, and no two workers have one job.     *)
(*                                                                         *)
(* A ply of a game belongs to the player who moves there.  Which plies the *)
(* cheap pass picks and what the engine says of them is left open, but the *)
(* engine says the same each time (a fixed node count, a new game before   *)
(* every position).                                                        *)
(***************************************************************************)
EXTENDS Integers, FiniteSets, Sequences, SequencesExt

CONSTANTS
  User,         (* usernames                                                *)
  Worker,       (* worker processes                                         *)
  Source,       (* games as submitted or exported: a PGN each               *)
  GameId,       (* what games.lichess_id may hold                           *)
  IdOf,         (* IdOf[s]: the lichess_id parsed from source s             *)
  Player,       (* Player[s]: who moves at each ply of s, a sequence        *)
  Feed,         (* Feed[u]: u's rated games on Lichess, oldest first        *)
  Verdict,      (* Verdict[<<s, p>>]: what the deep engine says of that ply *)
  Submitted,    (* the sources users hand in for single-game analysis       *)
  ChunkSize,    (* settings.scan_chunk_size                                 *)
  MaxAttempts,  (* settings.worker_max_attempts                             *)
  AlreadyPlayed,(* how many games of each feed were played at the start     *)
  MaxBackfills, (* bound: backfill requests                                 *)
  MaxAnalyses,  (* bound: single-game requests                              *)
  MaxRaises,    (* bound: handlers that raise                               *)
  MaxCrashes,   (* bound: worker processes killed                           *)
  NoGame,       (* no row, or no game chosen yet                            *)
  NoNote        (* an annotation that IS NULL                               *)

(* The plies of a PGN, and those ParsedMove.is_user_move marks for u.      *)
Plies(s) == DOMAIN Player[s]
AllPlies == UNION {Plies(s) : s \in Source}
UserPlies(s, u) == {p \in Plies(s) : Player[s][p] = u}

Positions == UNION {{s} \X Plies(s) : s \in Source}

(* The rows of games.                                                      *)
GameRow ==
  [owner : User, pgn : Source, exit : BOOLEAN, analyzed : BOOLEAN, deeps : Nat]

ASSUME ConstantsAssumption ==
  /\ IdOf \in [Source -> GameId]
  /\ Player \in [Source -> Seq(User \cup {"somebody"})]
  /\ Feed \in [User -> Seq(Source)]
  /\ Verdict \in [Positions -> {"dropped", "clean", "flagged"}]
  /\ Submitted \subseteq Source
  /\ ChunkSize \in Nat \ {0}
  /\ MaxAttempts \in Nat \ {0}
  /\ AlreadyPlayed \in Nat
  /\ {MaxBackfills, MaxAnalyses, MaxRaises, MaxCrashes} \subseteq Nat
  /\ NoGame \notin GameId \cup GameRow
  /\ NoNote \notin Nat

VARIABLES
  jobs,         (* the jobs table, in the order of created_at               *)
  games,        (* games[id]: the games row with that lichess_id            *)
  moves,        (* moves[<<g, p>>]: which deep pass of game g wrote the     *)
                (* move_analyses row of its ply p, 0 when there is none     *)
  blunders,     (* the blunders rows                                        *)
  played,       (* played[u]: how much of u's feed exists: the time         *)
  synced,       (* synced[u]: users.last_synced_at, 0 when NULL             *)
  at,           (* at[w]: where worker w is                                 *)
  cur,          (* cur[w]: the index of the job w runs, 0 for none          *)
  loc,          (* loc[w]: the handler's local variables                    *)
  asked,        (* how many requests of each kind were made                 *)
  raises, crashes

store == <<games, moves, blunders>>
counts == <<asked, raises, crashes>>
vars == <<jobs, games, moves, blunders, played, synced, at, cur, loc,
          asked, raises, crashes>>

Kinds == {"backfill", "scan_chunk", "deep_analyze", "annotate", "analyze_game"}
Statuses == {"pending", "running", "done", "dead"}
Points == {"idle", "fetch", "store", "sync", "fanout", "scan", "request", "exit",
           "deep", "queue_annotate", "rows", "llm", "save", "returned"}

Locals == [todo |-> <<>>, fresh |-> <<>>, pend |-> {}, game |-> NoGame,
           plies |-> {}, ids |-> {}]

NewGame(u, s) == [owner |-> u, pgn |-> s, exit |-> FALSE, analyzed |-> FALSE, deeps |-> 0]

Init ==
  /\ jobs = <<>>
  /\ games = [g \in GameId |-> NoGame]
  /\ moves = [q \in GameId \X AllPlies |-> 0]
  /\ blunders = {}
  /\ played = [u \in User |-> IF AlreadyPlayed < Len(Feed[u]) THEN AlreadyPlayed
                                                              ELSE Len(Feed[u])]
  /\ synced = [u \in User |-> 0]
  /\ at = [w \in Worker |-> "idle"]
  /\ cur = [w \in Worker |-> 0]
  /\ loc = [w \in Worker |-> Locals]
  /\ asked = [backfill |-> 0, analyze_game |-> 0]
  /\ raises = 0
  /\ crashes = 0

----------------------------------------------------------------------------
(* The queue, as its contract has it.                                      *)

NewJob(k, u, about) ==
  [kind |-> k, user |-> u, about |-> about, status |-> "pending", attempts |-> 0]

Priority(i) == IF jobs[i].kind = "analyze_game" THEN 0 ELSE 10

Pending == {i \in DOMAIN jobs : jobs[i].status = "pending"}

Foremost(i) ==
  \A k \in Pending \ {i} :
    Priority(i) < Priority(k) \/ (Priority(i) = Priority(k) /\ i < k)

(* Where a handler starts, and what it takes from the payload.             *)
Entry == [backfill |-> "fetch", scan_chunk |-> "scan", deep_analyze |-> "deep",
          annotate |-> "rows", analyze_game |-> "request"]

Payload(job) ==
  CASE job.kind = "scan_chunk" -> [Locals EXCEPT !.todo = job.about.games]
    [] job.kind = "deep_analyze" ->
         [Locals EXCEPT !.game = job.about.game, !.plies = job.about.plies]
    [] job.kind = "annotate" -> [Locals EXCEPT !.game = job.about.game]
    [] OTHER -> Locals

(* Mutant: the claim is counted, but the row still says pending.           *)
ClaimUnmarked(w) ==
  /\ at[w] = "idle"
  /\ \E i \in Pending :
       /\ Foremost(i)
       /\ jobs[i].attempts < MaxAttempts
       /\ jobs' = [jobs EXCEPT ![i].attempts = @ + 1]
       /\ cur' = [cur EXCEPT ![w] = i]
       /\ at' = [at EXCEPT ![w] = Entry[jobs[i].kind]]
       /\ loc' = [loc EXCEPT ![w] = Payload(jobs[i])]
  /\ UNCHANGED <<store, played, synced, counts>>

Claim(w) ==
  /\ at[w] = "idle"
  /\ \E i \in Pending :
       /\ Foremost(i)
       /\ jobs' = [jobs EXCEPT ![i].status = "running", ![i].attempts = @ + 1]
       /\ cur' = [cur EXCEPT ![w] = i]
       /\ at' = [at EXCEPT ![w] = Entry[jobs[i].kind]]
       /\ loc' = [loc EXCEPT ![w] = Payload(jobs[i])]
  /\ UNCHANGED <<store, played, synced, counts>>

(* The session is closed, with whatever was not committed, and the worker  *)
(* is free again.                                                          *)
Leave(w) ==
  /\ at' = [at EXCEPT ![w] = "idle"]
  /\ cur' = [cur EXCEPT ![w] = 0]
  /\ loc' = [loc EXCEPT ![w] = Locals]

Finish(w) ==
  /\ at[w] = "returned"
  /\ jobs' = [jobs EXCEPT ![cur[w]].status = "done"]
  /\ Leave(w)
  /\ UNCHANGED <<store, played, synced, counts>>

(* Mutant: the session stays open, and the rows it updated locked.         *)
GiveUpOpen(w) ==
  /\ jobs' = [jobs EXCEPT ![cur[w]].status =
                IF jobs[cur[w]].attempts >= MaxAttempts THEN "dead" ELSE "pending"]
  /\ at' = [at EXCEPT ![w] = "idle"]
  /\ cur' = [cur EXCEPT ![w] = 0]
  /\ UNCHANGED loc

(* Another attempt, or the end of it.                                      *)
GiveUp(w) ==
  /\ jobs' = [jobs EXCEPT ![cur[w]].status =
                IF jobs[cur[w]].attempts >= MaxAttempts THEN "dead" ELSE "pending"]
  /\ Leave(w)

InHandler(w) == at[w] \notin {"idle", "returned"}

(* An exception: Lichess, the parser, the engine, the LLM, the database.   *)
Raise(w) ==
  /\ InHandler(w)
  /\ raises < MaxRaises
  /\ raises' = raises + 1
  /\ GiveUp(w)
  /\ UNCHANGED <<store, played, synced, asked, crashes>>

(* The process is killed and another one takes its place.                  *)
Crash(w) ==
  /\ at[w] # "idle"
  /\ crashes < MaxCrashes
  /\ crashes' = crashes + 1
  /\ Leave(w)
  /\ UNCHANGED <<jobs, store, played, synced, asked, raises>>

----------------------------------------------------------------------------
(* Requests, and the players.                                              *)

(* POST /users/{u}/backfill: since_ms is the last sync, or nothing.        *)
RequestBackfill(u) ==
  /\ asked.backfill < MaxBackfills
  /\ asked' = [asked EXCEPT !.backfill = @ + 1]
  /\ \E since \in {0, synced[u]} :
       jobs' = Append(jobs, NewJob("backfill", u, [since |-> since]))
  /\ UNCHANGED <<store, played, synced, at, cur, loc, raises, crashes>>

RequestAnalysis(u, s) ==
  /\ asked.analyze_game < MaxAnalyses
  /\ asked' = [asked EXCEPT !.analyze_game = @ + 1]
  /\ jobs' = Append(jobs, NewJob("analyze_game", u, [source |-> s]))
  /\ UNCHANGED <<store, played, synced, at, cur, loc, raises, crashes>>

Play(u) ==
  /\ played[u] < Len(Feed[u])
  /\ played' = [played EXCEPT ![u] = @ + 1]
  /\ UNCHANGED <<jobs, store, synced, at, cur, loc, counts>>

----------------------------------------------------------------------------
(* Handler steps.  me(w) is the job w runs.                                *)

me(w) == jobs[cur[w]]

Goto(w, from, to) ==
  /\ at[w] = from
  /\ at' = [at EXCEPT ![w] = to]

(* Rows of games that another worker updated and has not committed.        *)
Unlocked(w, g) == \A v \in Worker \ {w} : g \notin loc[v].pend

(* What a commit of w makes of the games rows it updated.                  *)
Committed(w) ==
  [g \in GameId |-> IF g \in loc[w].pend
                    THEN [games[g] EXCEPT !.exit = TRUE, !.analyzed = TRUE]
                    ELSE games[g]]

(* run_backfill: fetch the games after since_ms, newest first.             *)
Fetch(w) ==
  LET u == me(w).user IN
  /\ Goto(w, "fetch", "store")
  /\ loc' = [loc EXCEPT ![w].todo =
               Reverse(SubSeq(Feed[u], me(w).about.since + 1, played[u]))]
  /\ UNCHANGED <<jobs, store, played, synced, cur, counts>>

(* upsert_game: the row of that lichess_id, made now if there is none.     *)
Upsert(u, s) ==
  games' = IF games[IdOf[s]] = NoGame
           THEN [games EXCEPT ![IdOf[s]] = NewGame(u, s)]
           ELSE games

(* One record: only a game that was created is kept for the fan-out.       *)
StoreGame(w) ==
  LET s == Head(loc[w].todo)
      created == games[IdOf[s]] = NoGame
  IN
  /\ at[w] = "store" /\ loc[w].todo # <<>>
  /\ Upsert(me(w).user, s)
  /\ loc' = [loc EXCEPT ![w].todo = Tail(@),
                        ![w].fresh = IF created THEN Append(@, IdOf[s]) ELSE @]
  /\ UNCHANGED <<jobs, moves, blunders, played, synced, at, cur, counts>>

(* last_synced_at = now(), once every record is stored.                    *)
Sync(w) ==
  /\ at[w] = "store" /\ loc[w].todo = <<>>
  /\ Goto(w, "store", IF loc[w].fresh = <<>> THEN "returned" ELSE "fanout")
  /\ synced' = [synced EXCEPT ![me(w).user] = played[me(w).user]]
  /\ UNCHANGED <<jobs, store, played, cur, loc, counts>>

(* One scan_chunk job per ChunkSize new games, committed one at a time.    *)
FanOut(w) ==
  LET n == IF Len(loc[w].fresh) < ChunkSize THEN Len(loc[w].fresh) ELSE ChunkSize
      rest == SubSeq(loc[w].fresh, n + 1, Len(loc[w].fresh))
  IN
  /\ Goto(w, "fanout", IF rest = <<>> THEN "returned" ELSE "fanout")
  /\ jobs' = Append(jobs, NewJob("scan_chunk", me(w).user,
                                 [games |-> SubSeq(loc[w].fresh, 1, n)]))
  /\ loc' = [loc EXCEPT ![w].fresh = rest]
  /\ UNCHANGED <<store, played, synced, cur, counts>>

(* run_scan_chunk, one game: with candidates, the enqueue commits all that *)
(* is pending; without, the game is marked analyzed but not committed yet. *)
(* The opening explorer commits too, whenever it has to ask Lichess.       *)
ScanGame(w) ==
  LET g == Head(loc[w].todo) IN
  /\ at[w] = "scan" /\ loc[w].todo # <<>>
  /\ Unlocked(w, g)
  /\ \/ \E plies \in SUBSET UserPlies(games[g].pgn, me(w).user) \ {{}} :
          /\ games' = [Committed(w) EXCEPT ![g].exit = TRUE]
          /\ jobs' = Append(jobs, NewJob("deep_analyze", me(w).user,
                                         [game |-> g, plies |-> plies]))
          /\ loc' = [loc EXCEPT ![w].todo = Tail(@), ![w].pend = {}]
     \/ \E asks \in BOOLEAN :
          /\ games' = IF asks THEN Committed(w) ELSE games
          /\ loc' = [loc EXCEPT ![w].todo = Tail(@),
                                ![w].pend = IF asks THEN {g} ELSE @ \cup {g}]
          /\ UNCHANGED jobs
  /\ UNCHANGED <<moves, blunders, played, synced, at, cur, counts>>

(* Mutant: no commit after the last game.                                  *)
ScanCommitForgotten(w) ==
  /\ loc[w].todo = <<>>
  /\ Goto(w, "scan", "returned")
  /\ loc' = [loc EXCEPT ![w].pend = {}]
  /\ UNCHANGED <<jobs, store, played, synced, cur, counts>>

ScanCommit(w) ==
  /\ loc[w].todo = <<>>
  /\ Goto(w, "scan", "returned")
  /\ games' = Committed(w)
  /\ loc' = [loc EXCEPT ![w].pend = {}]
  /\ UNCHANGED <<jobs, moves, blunders, played, synced, cur, counts>>

(* run_analyze_game: the row of the submitted game, and the candidates of  *)
(* the PGN that was submitted.                                             *)
StoreRequested(w) ==
  LET s == me(w).about.source IN
  /\ Goto(w, "request", "exit")
  /\ Upsert(me(w).user, s)
  /\ \E plies \in SUBSET UserPlies(s, me(w).user) :
       loc' = [loc EXCEPT ![w].game = IdOf[s], ![w].plies = plies]
  /\ UNCHANGED <<jobs, moves, blunders, played, synced, cur, counts>>

BookExit(w) ==
  /\ Goto(w, "exit", "deep")
  /\ Unlocked(w, loc[w].game)
  /\ games' = [games EXCEPT ![loc[w].game].exit = TRUE]
  /\ UNCHANGED <<jobs, moves, blunders, played, synced, cur, loc, counts>>

(* Mutant: without the DELETE the old blunders of the plies stay.          *)
DeepCommitKeeps(w) ==
  LET g == loc[w].game
      answered == {p \in loc[w].plies : Verdict[<<games[g].pgn, p>>] # "dropped"}
      flagged == {p \in answered : Verdict[<<games[g].pgn, p>>] = "flagged"}
      run == games[g].deeps + 1
  IN
  /\ at[w] = "deep"
  /\ loc[w].plies \subseteq Plies(games[g].pgn)
  /\ Unlocked(w, g)
  /\ Goto(w, "deep", IF flagged = {} THEN "returned" ELSE "queue_annotate")
  /\ moves' = [q \in GameId \X AllPlies |->
       IF q[1] = g /\ q[2] \in answered THEN run ELSE moves[q]]
  /\ blunders' = blunders \cup
       {[game |-> g, ply |-> p, run |-> run, note |-> NoNote] : p \in flagged}
  /\ games' = [games EXCEPT ![g].analyzed = TRUE, ![g].deeps = run]
  /\ UNCHANGED <<jobs, played, synced, cur, loc, counts>>

(* deep_analyze: each ply the engine answers gets its row and loses its    *)
(* old blunder; a flagged one gets a new blunder, with no annotation.      *)
DeepCommit(w) ==
  LET g == loc[w].game
      answered == {p \in loc[w].plies : Verdict[<<games[g].pgn, p>>] # "dropped"}
      flagged == {p \in answered : Verdict[<<games[g].pgn, p>>] = "flagged"}
      run == games[g].deeps + 1
  IN
  /\ at[w] = "deep"
  /\ loc[w].plies \subseteq Plies(games[g].pgn)
  /\ Unlocked(w, g)
  /\ Goto(w, "deep", IF flagged = {} THEN "returned" ELSE "queue_annotate")
  /\ moves' = [q \in GameId \X AllPlies |->
       IF q[1] = g /\ q[2] \in answered THEN run ELSE moves[q]]
  /\ blunders' = {b \in blunders : ~(b.game = g /\ b.ply \in answered)}
       \cup {[game |-> g, ply |-> p, run |-> run, note |-> NoNote] : p \in flagged}
  /\ games' = [games EXCEPT ![g].analyzed = TRUE, ![g].deeps = run]
  /\ UNCHANGED <<jobs, played, synced, cur, loc, counts>>

(* A candidate ply the stored PGN does not have: IndexError.               *)
DeepFails(w) ==
  /\ at[w] = "deep"
  /\ ~(loc[w].plies \subseteq Plies(games[loc[w].game].pgn))
  /\ GiveUp(w)
  /\ UNCHANGED <<store, played, synced, counts>>

(* Mutant: a game that had an annotate job gets no other.                  *)
QueueAnnotateOnce(w) ==
  /\ Goto(w, "queue_annotate", "returned")
  /\ jobs' = IF \E i \in DOMAIN jobs : jobs[i].kind = "annotate"
                                      /\ jobs[i].about.game = loc[w].game
             THEN jobs
             ELSE Append(jobs, NewJob("annotate", me(w).user, [game |-> loc[w].game]))
  /\ UNCHANGED <<store, played, synced, cur, loc, counts>>

(* _enqueue_annotate, after the flow committed.                            *)
QueueAnnotate(w) ==
  /\ Goto(w, "queue_annotate", "returned")
  /\ jobs' = Append(jobs, NewJob("annotate", me(w).user, [game |-> loc[w].game]))
  /\ UNCHANGED <<store, played, synced, cur, loc, counts>>

(* run_annotate: the blunders of the game with no annotation yet.          *)
Bare(g) == {b \in blunders : b.game = g /\ b.note = NoNote}

ReadRows(w) ==
  LET g == loc[w].game IN
  /\ Goto(w, "rows", IF Bare(g) = {} THEN "returned" ELSE "llm")
  /\ loc' = [loc EXCEPT ![w].ids = {<<b.ply, b.run>> : b \in Bare(g)}]
  /\ UNCHANGED <<jobs, store, played, synced, cur, counts>>

(* Mutant: the UPDATE without "annotation IS NULL".                        *)
WriteNotesOver(w) ==
  LET mine(b) == b.game = loc[w].game /\ <<b.ply, b.run>> \in loc[w].ids IN
  /\ Goto(w, "llm", IF \E b \in blunders : mine(b) THEN "save" ELSE "returned")
  /\ blunders' = {IF mine(b) THEN [b EXCEPT !.note = cur[w]] ELSE b : b \in blunders}
  /\ UNCHANGED <<jobs, games, moves, played, synced, cur, loc, counts>>

(* After the LLM and the embedder: the rows that are still there and still *)
(* without annotation get one.                                             *)
WriteNotes(w) ==
  LET mine(b) == b \in Bare(loc[w].game) /\ <<b.ply, b.run>> \in loc[w].ids IN
  /\ Goto(w, "llm", IF \E b \in blunders : mine(b) THEN "save" ELSE "returned")
  /\ blunders' = {IF mine(b) THEN [b EXCEPT !.note = cur[w]] ELSE b : b \in blunders}
  /\ UNCHANGED <<jobs, games, moves, played, synced, cur, loc, counts>>

(* The index file of the user, after the commit (see IndexCache).          *)
SaveIndex(w) ==
  /\ Goto(w, "save", "returned")
  /\ UNCHANGED <<jobs, store, played, synced, cur, loc, counts>>

----------------------------------------------------------------------------

Handle(w) ==
  \/ Fetch(w) \/ StoreGame(w) \/ Sync(w) \/ FanOut(w)
  \/ ScanGame(w) \/ ScanCommit(w)
  \/ StoreRequested(w) \/ BookExit(w)
  \/ DeepCommit(w) \/ DeepFails(w) \/ QueueAnnotate(w)
  \/ ReadRows(w) \/ WriteNotes(w) \/ SaveIndex(w)

Run(w) == Claim(w) \/ Handle(w) \/ Finish(w)

Next ==
  \/ \E w \in Worker : Run(w) \/ Raise(w) \/ Crash(w)
  \/ \E u \in User : RequestBackfill(u) \/ Play(u)
  \/ \E u \in User, s \in Submitted : RequestAnalysis(u, s)

Spec == Init /\ [][Next]_vars

(* Workers keep running; nothing makes a request, an exception, a kill or  *)
(* a new game happen.                                                      *)
FairSpec == Spec /\ \A w \in Worker : WF_vars(Run(w))

----------------------------------------------------------------------------
(* Invariants.                                                             *)

TypeOK ==
  /\ \A i \in DOMAIN jobs :
       /\ jobs[i].kind \in Kinds /\ jobs[i].user \in User
       /\ jobs[i].status \in Statuses /\ jobs[i].attempts \in 0..MaxAttempts
  /\ \A g \in GameId :
       games[g] = NoGame \/ (games[g].pgn \in Source /\ games[g].owner \in User)
  /\ moves \in [GameId \X AllPlies -> Nat]
  /\ \A b \in blunders : b.run > 0 /\ moves[<<b.game, b.ply>>] = b.run
  /\ \A u \in User : synced[u] <= played[u] /\ played[u] <= Len(Feed[u])
  /\ at \in [Worker -> Points]
  /\ \A w \in Worker :
       IF at[w] = "idle" THEN cur[w] = 0 /\ loc[w] = Locals
                         ELSE cur[w] \in DOMAIN jobs /\ me(w).status = "running"

(* A job that will not run again although it is not done: dead, or left    *)
(* running by a worker that was killed.                                    *)
Lost(i) ==
  \/ jobs[i].status = "dead"
  \/ jobs[i].status = "running" /\ \A w \in Worker : cur[w] # i

(* An attempt at job i ended in an exception or a kill.                    *)
AttemptFailed(i) ==
  Lost(i) \/ jobs[i].attempts > (IF i \in Pending THEN 0 ELSE 1)

(* The games a job names.                                                  *)
Concerns(i) ==
  CASE jobs[i].kind = "backfill" -> {}
    [] jobs[i].kind = "scan_chunk" -> ToSet(jobs[i].about.games)
    [] jobs[i].kind = "analyze_game" -> {IdOf[jobs[i].about.source]}
    [] OTHER -> {jobs[i].about.game}

Analyses == {"scan_chunk", "deep_analyze", "analyze_game"}

(* Somebody still has to analyse game g, and knows it.                     *)
InFlight(g) ==
  \/ \E i \in Pending : jobs[i].kind \in Analyses /\ g \in Concerns(i)
  \/ \E w \in Worker :
       \/ at[w] = "scan" /\ g \in ToSet(loc[w].todo)
       \/ g \in loc[w].pend \cup ToSet(loc[w].fresh)
       \/ at[w] \in {"request", "exit", "deep"} /\ g \in Concerns(cur[w])

(* Why game g may be left without analysis: a backfill of its owner failed *)
(* after it had stored g and before it queued it, or a job of g was lost.  *)
ExcusedGame(g) ==
  \E i \in DOMAIN jobs :
    \/ /\ jobs[i].kind = "backfill" /\ AttemptFailed(i)
       /\ jobs[i].user = games[g].owner /\ games[g].pgn \in ToSet(Feed[jobs[i].user])
    \/ jobs[i].kind \in Analyses /\ g \in Concerns(i) /\ Lost(i)

(* A stored game is analyzed, or on its way, unless a failure explains it. *)
(* In particular a retry of scan_chunk, deep_analyze or analyze_game takes *)
(* up what the failed attempt left, with several workers at it; a retry of *)
(* backfill does not.                                                      *)
GamesForgottenOnlyByFailure ==
  \A g \in GameId :
    games[g] # NoGame /\ ~games[g].analyzed => InFlight(g) \/ ExcusedGame(g)

(* Who will annotate blunder b: an annotate job that has not read the rows *)
(* yet or read this one, a deep pass of its ply that is still to queue one.*)
ToBeAnnotated(b) ==
  \/ \E i \in Pending :
       \/ jobs[i].kind = "annotate" /\ b.game \in Concerns(i)
       \/ jobs[i].kind = "deep_analyze" /\ b.game \in Concerns(i) /\ b.ply \in jobs[i].about.plies
  \/ \E w \in Worker : loc[w].game = b.game /\
       \/ at[w] \in {"queue_annotate", "rows"}
       \/ at[w] = "llm" /\ <<b.ply, b.run>> \in loc[w].ids
       \/ at[w] = "deep" /\ me(w).kind = "deep_analyze" /\ b.ply \in loc[w].plies

ExcusedBlunder(b) ==
  \E i \in DOMAIN jobs : b.game \in Concerns(i) /\
    \/ jobs[i].kind \in {"deep_analyze", "annotate"} /\ Lost(i)
    \/ jobs[i].kind = "analyze_game" /\ AttemptFailed(i)

(* No blunder is left without annotation and without anybody to write it,  *)
(* unless a job of its game was lost or a single-game analysis failed on   *)
(* the way: the deep pass commits before it queues the annotation, and its *)
(* retry closes the gap.                                                   *)
BlundersForgottenOnlyByFailure ==
  \A b \in blunders :
    b.note = NoNote => ToBeAnnotated(b) \/ ExcusedBlunder(b)

----------------------------------------------------------------------------
(* Action and liveness properties.                                         *)

(* Two annotate jobs of one game may read the same row: whichever writes   *)
(* second leaves the annotation of the first ("set-once").                 *)
AnnotationSetOnce ==
  [][\A b \in blunders, c \in blunders' :
       b.note # NoNote /\ b.game = c.game /\ b.ply = c.ply /\ b.run = c.run
         => c.note = b.note]_vars

Rows ==
  INSTANCE RowsContract WITH
    Ply <- GameId \X AllPlies, Pass <- Nat \ {0}, NoPass <- 0,
    analysis <- moves,
    blunder <- [q \in GameId \X AllPlies |->
      {[by |-> b.run, noted |-> b.note # NoNote] : b \in {c \in blunders : <<c.game, c.ply>> = q}}]

(* Re-runs "don't duplicate" (deep_analyze): whatever the handlers do      *)
(* between them, retries, games that share a row and annotate jobs         *)
(* included, analyses and blunders change only as whole deep passes and    *)
(* whole annotate jobs change them, the effects GameRows shows of the      *)
(* statements below the commits.                                           *)
ImplementsRows == Rows!Spec

(* The requests made are worked off: in the end every job is done or lost. *)
Drains == <>[](\A i \in DOMAIN jobs : jobs[i].status = "done" \/ Lost(i))

(* Every stored game is analyzed in the end, failures aside.               *)
EveryGameAnalysed ==
  \A g \in GameId :
    games[g] # NoGame ~> games[g] # NoGame /\ (games[g].analyzed \/ ExcusedGame(g))

(* Every blunder of a move is annotated in the end, or gone, or excused.   *)
EveryBlunderAnnotated ==
  \A g \in GameId, p \in AllPlies :
    (\E b \in Bare(g) : b.ply = p) ~>
      (\A b \in Bare(g) : b.ply = p => ExcusedBlunder(b))

----------------------------------------------------------------------------
(* What the documentation says.                                            *)

(* "Fetch + sample a user's games, persist them, fan out scan_chunk jobs   *)
(* over the new ones": a backfill that is done has left none of the games  *)
(* it persisted without a job.                                             *)
BackfillFansOut ==
  \A i \in DOMAIN jobs, g \in GameId :
    /\ jobs[i].kind = "backfill" /\ jobs[i].status = "done"
    /\ games[g] # NoGame /\ games[g].owner = jobs[i].user
    => \E k \in DOMAIN jobs : jobs[k].kind \in Analyses /\ g \in Concerns(k)

(* "Only user-side candidate moves are stored as move_analyses / blunders. *)
(* Opponent positions are [...] never persisted."                          *)
OnlyUserMoves ==
  \A g \in GameId, p \in AllPlies :
    moves[<<g, p>>] # 0 => p \in UserPlies(games[g].pgn, games[g].owner)

=============================================================================
