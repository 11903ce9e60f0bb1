# Blunder Psychologist: specifications

TLA+ models of the repository's backend (`src/core/blunder`) and of its engine
(`src/engine`), the TLC configurations that check them on small instances, and TLAPS
proofs of what holds for any number of jobs, workers, threads and games. File and line
references are to the repository.

## The system

A user gives a Lichess name or a PGN. The API (or the CLI, `manage.py`) writes a
row in a `jobs` table in Postgres. Worker processes drain that table; a handler may
put further jobs in it. Games go through a funnel: fetch and sample, a cheap pass
that picks candidate moves, a deep engine pass that stores blunders, an LLM pass
that annotates them, and a vector index that makes them searchable. The processes
share nothing but the database and the directory of index files.

| Part | Source | State it keeps | Operations |
|---|---|---|---|
| Job queue | `queue.py` | `jobs` rows: status, attempts, priority, created_at | `enqueue`, `claim_one`, `mark_done`, `mark_failed` |
| Worker | `worker.py` | the `ClaimedJob` in hand, `_shutdown` | the loop of `run`, the signal handler |
| Handlers | `handlers.py`, `jobs.py` | none between jobs | one per job type; `_enqueue_annotate` |
| Ingest and scan flows | `flows.py`, `ingest.py`, `sampler.py`, `funnel.py`, `book.py` | `users.last_synced_at`, `games`, `opening_cache` | `run_backfill`, `run_scan_chunk`, `run_deep_analyze`, `run_analyze_game`, `upsert_game` |
| Deep pass | `deep.py` | `move_analyses`, `blunders` | `deep_analyze`, `scan_user_moves` |
| Annotation | `annotate_flow.py`, `annotation.py`, `llm.py`, `embed.py` | `blunders.annotation`, `embeddings` | `run_annotate`, `annotate_batch` |
| Retrieval | `retrieval.py` | one FAISS file per user | `load_user_index`, `add`, `save`, `search`, `find_similar_blunders` |
| HTTP API and CLI | `api.py`, `manage.py` | none | requests that enqueue; queries |
| Lichess client | `lichess.py` | back-off between attempts | `export_games`, `opening_explorer` |
| Engine pool | `engine/src/engine_pool.cpp`, `uci_engine.cpp` | child processes, a shared cursor, a failure flag | `analyze`, the UCI dialogue |
| Engine arithmetic | `score.hpp`, `severity.hpp`, `annotate.cpp`, `pawns.cpp`, `features.cpp`, `archetype.cpp` | none | pure functions |
| Motifs | `motifs/*`, `featurediff.py` | none | pure functions of a board |

`PROJECT.json` lists every part with what is modelled of it.

### What is hard

* **Interleaving.** Workers claim at the same time; jobs of one game or one user
  run at the same time and write the same rows and the same file.
* **Commits in the middle.** A claim is committed before the handler runs. A
  backfill commits each game; a scan commits with each job it queues, and the
  explorer cache commits the caller's session (`book.py:83`); the deep pass commits
  before the annotate job exists; the index file is written after the commit.
* **Retries.** A handler that raises runs again from its first line over whatever
  it had committed. Idempotence is claimed in several docstrings.
* **Kills.** Nothing looks for rows left `running`.
* **Inherited pipes.** A thread that forks its engine between another thread's `pipe()`
  and `FD_CLOEXEC` gives it that thread's pipe ends; the end of file the other thread
  may wait for then depends on this engine.
* **Time.** Games end on Lichess while a backfill fetches, positions gain games while
  scans look them up, and the next request trusts a time read before or after.
* **Arithmetic and matching.** Two score bands on one scale, thresholds computed in
  doubles, answers matched by move, batches that merge positions.
* **Stale reads.** `mark_failed` trusts the attempts read at claim time; `annotate`
  writes to rows it read before a call to an LLM.

### What makes it correct

* Queue: one owner per job, claims in rank order, at most `worker_max_attempts`
  runs, verdicts that stay, a verdict for every job, a prompt stop.
* Funnel: no stored game without its analysis and no blunder without its
  annotation, unless a failure explains it; annotations set once; a request is
  worked off in the end; only the user's moves under the user's games.
* Row writes and index: one blunder per move however deep passes overlap, no
  deadlock of row locks, no vector twice in an index, search returns only the
  user's live blunders, a committed annotation can be found.
* Engine pool: each position evaluated once or an exception, no engine left behind,
  every batch comes to an end.
* Lichess: a game is lost to incremental backfills only while they fetch; book exits do
  not depend on when a game is scanned.
* Pure functions: batches, caps, matching, thresholds and features mean what their
  callers assume, for White and Black alike.

## The modules

### `QueueContract` - what the queue promises

Jobs with a phase, a rank and a count of runs; no worker, no transaction, no row.
A waiting job is reserved only when no waiting job precedes it; it starts at most
`MaxRuns` times; finished and buried jobs stay so. It is the abstract
specification `JobQueue` implements, and what `Funnel` assumes of the queue.

### `JobQueue` - `queue.py` and `worker.py`, to the transaction

| Model | Code |
|---|---|
| `InsertBegin`, `InsertCommit` | `enqueue`: `created_at` defaults to `now()`, the begin of the transaction (`models.py`), and the row is visible from the commit on |
| `Claimable`, `ClaimOrder` | the sub-select of `_CLAIM_SQL`: pending, `ORDER BY priority, created_at`, `FOR UPDATE SKIP LOCKED` |
| `ClaimLock`, `ClaimCommit`, `ClaimNothing` | `claim_one`: the UPDATE that locks, the commit, the empty result |
| `LoopTest`, `Wake` | `while not _shutdown`, the sleep |
| `NoHandler` | an unregistered type: `mark_failed` with `attempts = max_attempts` |
| `HandlerReturns`, `HandlerRaises`, `MarkDone`, `MarkFailed` | the `try` around the handler and the marks after it |
| `Signal` | `_handle_signal` |
| `Crash`, `Restart` | the process dies, or is started by its supervisor |

`held[w]` is both the row locked by an open claim and the `ClaimedJob` after it;
`seen[w]` is the attempts that `ClaimedJob` carries. A kill rolls an open claim back
and leaves a committed one as it is. An exception of the database in `mark_done` or
`mark_failed` leaves `run()` and ends the process: it is a `Crash` at `returned` or
`raised`. Whatever a handler does is in `Funnel`.

### `Funnel` - handlers and flows over the tables

A step is one committed transaction, or one uncommitted statement where the flow
goes on before it commits. `at[w]` is where a worker is, `loc[w]` the local
variables of its handler, of which `pend` is the games rows updated and not yet
committed.

| Model | Code |
|---|---|
| `Claim`, `Finish`, `GiveUp`, `Raise`, `Crash` | the worker, as `QueueContract` has it; a handler that raises is rolled back and its job tried again or dead |
| `RequestBackfill`, `RequestAnalysis` | the API's two POSTs |
| `Fetch`, `StoreGame`, `Sync`, `FanOut` | `run_backfill` |
| `ScanGame`, `ScanCommit` | `run_scan_chunk` |
| `StoreRequested`, `BookExit`, `DeepCommit`, `QueueAnnotate` | `run_analyze_game` and `h_analyze_game` |
| `DeepCommit`, `DeepFails`, `QueueAnnotate` | `run_deep_analyze`, `deep_analyze`, `h_deep_analyze` |
| `ReadRows`, `WriteNotes`, `SaveIndex` | `run_annotate`: the read, the write and commit after the LLM, the save of the index (what it saves is in `IndexCache`) |

Left open (`\E`): which plies the cheap pass picks, and whether the explorer has to
ask Lichess (then it commits). Fixed by a constant: what the deep engine says of a
position, the same each time. `Priority` and the order of `jobs` stand for
`ORDER BY priority, created_at`. A row of `moves` is the number of the deep pass that
wrote it, a blunder carries that of its own.

### `IndexCache` - the index file of one user beside the `embeddings` table

| Model | Code |
|---|---|
| `born`, `live`, `noted` | `blunders.id` given out, rows there now, ids committed with annotation and embedding |
| `file` | `{user}.faiss`: how many vectors under each id, or `Missing`, or `Torn` (opened for writing and not finished) |
| `Begin`, `Load`, `LoadFails`, `Commit`, `SaveBegin`, `SaveEnd` | `run_annotate`: read the rows, LLM and embedder, `load_user_index`, the writes, the commit, `idx.add` and `idx.save` |
| `Deep` | a deep pass replaces blunders of a game and has an annotate job queued |
| `SeekLoad`, `SeekFilter`, `SeekHits`, `SeekDetails` | `find_similar_blunders` |
| `Fail` | an exception or a kill in the middle of `run_annotate` |

Vectors are left out: any `K` of the allowed ids may be the nearest; the filters of a
search allow any of the user's rows. Two saves that
overlap may leave what either wrote, or a file that does not load. `overlap`,
`mixed` and `found[r].known` are history: they record what the properties speak of
and no guard of the code reads them.

### `RowsContract` and `GameRows` - rows of games, statement by statement

`Funnel` takes a deep pass and the writes of an annotate job as single steps.
`GameRows` says why it may: it interleaves their SQL statements under Postgres' rules
(READ COMMITTED, row locks until the end of the transaction, one transaction of a
circle aborted) and implements `RowsContract`, in which each is one step. `Funnel`
implements it too, over the plies of all games (`ImplementsRows`): between the two,
what the flows rely on is what the statements provide.

| Model | Code |
|---|---|
| `StartDeep`, `Upsert`, `Replace`, `DeepCommit` | `deep_analyze`: plies in order; `_UPSERT_MOVE`, then DELETE and INSERT, for each; commit |
| `StartAnnotate`, `Update`, `AnnotateCommit` | `run_annotate`: the rows it reads; `UPDATE ... AND annotation IS NULL` by id; commit |
| `MoveLocked`, `RowLocked`, `WaitsFor`, `Circle`, `Victim` | Postgres |
| `Fail` | an exception or a kill: rollback |

Left out: the lock of the `games` row, taken by a deep pass in its last statement
before the commit, when it no longer waits for anything else of these two jobs.

### `PoolContract` and `EnginePool` - `engine_pool.cpp` over `uci_engine.cpp`

`PoolContract` is what a caller sees: a batch that returns with every position
evaluated once, or throws. `EnginePool` has the threads, and below each its process.

| Model | Code |
|---|---|
| `Begin`, `Finish` | `runEnginePool`: as many threads as engines and positions allow; after the last join |
| `Draw`, `Check`, `Store` | the loop: `cursor.fetch_add`, the test of `failed`, the evaluation |
| `Catch` | the handler: `failed.exchange`, `first_error` |
| `Pipe`, `CloseOnExec`, `Fork`, `Hear` | `UciEngine::start` |
| `PipeFails`, `ForkFails`, `StartFails`, `AnalyseFails` | its exceptions, and those of `send` and `readLine` |
| `Destroy`, `Reap` | `UciEngine::stop`: quit and close both ends; `waitpid` |
| `Answer`, `Quit`, `Breaks`, `Killed` | the engine process, external |

`ends[t]` counts the pipe ends this process holds of the engine of `t`; `foreign` has
the pairs of an engine and a thread whose ends it inherited. A read ends, or a write
fails, only when nobody holds the other end. One question and one answer stand for the
UCI dialogue; a thread that waits in `waitpid` and one that waits for an answer are
both in the hands of an engine. An exception in `start()` skips the destructor: it goes
to `throw` directly and leaves `ends` as they are.

### `Explorer` - `book.py` over the retry loop of `lichess.py`

A scan walks over the positions of its game: `Lookup` in `opening_cache`, and after a
miss the answer of Lichess (`Counted`, `TooMany`, `Rejected`), the sleep (`Wake`), and
the upsert with its commit (`Keep`). `Raises` is what is no `LichessError`, exceptions of
the database and kills included: it ends the scan at any point, and between the answer and
the commit it loses the answer. Positions gain games at any time (`Grows`). `answered`,
`kept`, `lost` and `exits` are history: the successful calls, those whose count was
committed, those whose count was not.

### `Sync` - incremental backfills

`Request` reads `last_synced_at` into the payload, `Take`, `Fetch`, `Store` and `Stamp`
are `run_backfill`, `Fails` its exceptions, after which the same payload is tried
again. Games begin and end at any time (`Starts`, `Ends`); the export has the finished
ones that began at `since` or later, the newest `max_games` of them. Every event has a
tick of its own. `cut` and `stamps` are history.

### Pure functions

| Module | Code | Abstraction |
|---|---|---|
| `Scores` | `score.hpp`, `severity.hpp`, `annotate.cpp` | a score is its value; the double product is the exact one less one at the spreads in `Rounding`, computed in IEEE doubles for every spread |
| `Analysis` | `engine_pool.cpp` from PGNs to moves, `engine.py`, `funnel.py`, `scan_user_moves`, `_find_candidates` | a PGN is the FENs it passes and its tokens; the engine is a function of the FEN, which `ucinewgame` before each search is for |
| `Sampler` | `sampler.py` | the set of samples random draws can give |
| `Annotation` | `annotation.py` and its loop in `annotate_flow.py` | a reply by kind and items, a text by whether it is one |
| `Exchange` | `tactical.py` to `_detect_hanging` | a board by the pieces aimed at the square, what stands in whose way, and the lines to the kings that captures open or close: who attacks and who is pinned is found anew after each capture, as `board.attackers` and `is_legal` do; the recursion of `_gain` as a recursive function of exchanges |
| `Pawns` | `pawns.cpp`, `archetype.cpp`, the pawn part of `features.cpp` and `positional.py` | squares as pairs, bitboards as sets |

`Calls` has one variable, the call of one of these functions. `LegalCall` is what its
callers see to, for arguments of any size: in a PGN the sides take turns and there is a
FEN for each move and one more, the engine's first line is on the scale of `Scores`, the
positions of a game follow from each other, fetched games are finitely many, a batch has
room for a blunder. It asks nothing else; replies of the language model are anything, and
boards need not be reachable. `AnyCalls` makes legal calls one after the other, and the
invariants say what the results mean. `MCOperators` draws calls from small sets and stops
with an error on one that is not legal.

## The runs

Every run of workers has two: every race of this code is between two processes that
hold a job each, or a producer and a worker; a third would repeat one of their roles.
The pool has three threads: one whose engine breaks, one whose pipe it inherited, and
one that draws the last position meanwhile. `Explorer` and `Sync` share no state;
`MCLichess` puts one of them into each behaviour. Their type invariants are
proved and not repeated by the run.

| Run | What it asks | Bounds |
|---|---|---|
| `queue` | one owner, fresh marks, orphans at most kills, the contract; every pending job gets a verdict, a signalled worker ends | 2 jobs, 2 attempts, 1 kill, 1 signal, 2 priorities, a registered and an unknown type |
| `queue_verdict` | *violated*: claimed jobs are marked | the same, under a supervisor that restarts workers |
| `funnel_safety` | no game and no blunder forgotten without a failure that explains it; set-once | a rated game and two pasted games whose rows collide, one with a ply the stored PGN does not have; 1 backfill, 2 analyses, 2 attempts, 1 exception |
| `funnel_liveness` | requests are worked off; games analysed and blunders annotated in the end; the rows change as `RowsContract` has it | 1 game, 1 backfill, 1 analysis, 1 exception, 1 kill |
| `index_safety` | no vector twice, nothing found before it is committed, nothing lost without a failure or an overlap, searches miss nothing | 3 blunders in 2 games, 3 deep passes, 1 failure, 1 search for 1 result, with any filter |
| `index_retrievable` | *violated*: an annotated blunder is retrievable | the same without failures and searches |
| `rows_safety` | the contract; no circle of one kind; transactions end | 2 plies, 3 deep passes, 2 annotate jobs, 1 failure |
| `pool` | each position evaluated once or an exception; nothing outlives a batch; no circle of inherited ends; batches end | 3 threads, 3 positions, 2 faults in a batch, any number of batches |
| `lichess` | calls per position, whatever fails, settled book exits, scans end; which games incremental backfills lose | 2 workers; 2 positions, 2 games that share one, 3 scans, 2 attempts, popularity to 2 over a threshold of 1; or 2 games, caps 1 and 2, 3 backfills, 1 of them waiting |
| `operators` | the pure functions, see below | 164,297 calls |
| `funnel_fanout`, `funnel_shared` | *violated*: see below | two games; a game of two users |

`operators` asks of every call: a batch gives each game what it would get alone
(`BatchesAsIfAlone`); each move asked about has an answer about itself, unless an
earlier one with the same UCI could not be read (`AnswersAlwaysMatch`); what the deep
pass calls a mistake is a candidate of the cheap pass when their evaluations agree
(`MistakesAreCandidates`); samples respect cap and recency (`SamplesWithinCaps`);
annotations are those of their blunder or there are none (`AnnotationsStayAligned`);
features and archetypes do not depend on the colour (`BoardsColourBlind`); an exchange is
worth between nothing and the piece, `hanging_piece` reports what wins 200 by it, one more
attacker that stands in nobody's way never costs its side anything, and where captures
open and close nothing the search of all orders is the textbook swap
(`ExchangesAreSound`). Elsewhere it is not: with a rook to take on d5, a pawn on c4 and a
knight that can, and an enemy bishop on b3 and queen on a2 behind the pawn, `_gain` takes
with the knight and wins 500, where the cheapest piece first wins 410. The run has this
position, with each of its pieces there or not.

Why the bounds are enough. Two jobs and two workers give a claim that skips a
locked row while a better-ranked one arrives; the proofs below are for any number. Two attempts give a first failure that
is retried and a last one that is not. One kill together with one exception (in
`funnel_liveness`) gives every pair of a failed attempt and a repeated one; a second
kill only adds orphans, and that their number is bounded by the kills is proved for any
number. In `funnel_safety` one exception of the environment meets those the rows
themselves provoke (a ply the stored PGN does not have), so that jobs fail for good. `MaxCrashes`,
`MaxSignals`, `MaxRaises`, `MaxBackfills`, `MaxAnalyses`, `MaxPasses`, `MaxNotes`,
`MaxFailures`, `MaxSearches`, `MaxFaults`, `MaxWork`, `MaxScans`, `MaxCount`,
`MaxTries`, `MaxWaiting` are bounds of the model, not of the code. Two plies are
the fewest on which two transactions can hold one lock each; three passes give two
that overlap on rows a third has left. Three blunders in two games let two annotate
jobs of one user overlap while a pass deletes a blunder that is already indexed; a
search for one result makes the cut at `k` matter. Two faults in a batch let one engine
die and another fall silent or fail to start; more of them break more engines in the
same ways, and the safety properties of the pool are proved for any number. Three scans
let two meet at a position and a third come after both. Symmetry among workers (and jobs) is used only in runs without
liveness properties.

TLC's deadlock check is on in the queue's runs and in `pool`, where it says that
threads and engines never all wait for each other. The others turn it off: when every
bounded request has been worked off the workers poll for ever, which these models
leave out, so they really stop, and `operators` ends with each call. Circles of row locks are not a stop: they are states
with a `Victim`, and `DeadlockNeedsBothKinds` speaks of them.

### Fairness

`WF_vars(Run(w))`, weak fairness on the steps of each worker's loop as a whole: the
loop has no blocking call but the sleep and the handler. A handler is taken to return
or raise. The code does not guarantee that when an engine stays silent
(`uci_engine.cpp:185` waits with no timeout). `EveryBatchEnds` says that this is all:
with each thread's loop weakly fair, and engines that answer, quit or die, a batch ends
unless an engine is alive and silent, inherited pipe ends or not. In `Explorer` the steps
of each scan are weakly fair: Lichess answers or the client's timeout raises, and a sleep
ends. That a 429 or a count is given is left open; only their number is bounded.
Jobs are finitely many: `Settles` does not say that a job of priority 10 gets its turn when
jobs of priority 0 never stop arriving, and `ORDER BY priority` (`queue.py:50`) lets them
starve it. Nothing is assumed of producers, signals, exceptions,
kills and, except in `SupervisedSpec`, restarts; which of two enabled branches a
handler takes is never assumed fair. In `GameRows` each transaction is weakly fair:
a statement that need not wait is executed, and Postgres breaks a circle after
`deadlock_timeout`. That a row lock is granted to one of its waiters is part of it,
that it is granted to a given one is not assumed: a pass holds each lock until it
ends, and there are finitely many.

### What the runs found

* `queue_verdict`. `worker.py:1` and README.md:195 say a claimed job is marked done,
  retried or dead. A job whose worker is killed, or whose `mark_*` raises, stays
  `running` for ever, restarts or not. `OrphansBoundedByCrashes` says exactly how far
  this goes: no more such jobs than kills.
* `funnel_fanout`. A backfill that fails after storing a game and before queueing its
  chunk is retried; the retry finds the game already there and does not queue it.
  The job ends `done`, the game stays `pending` for ever.
  `GamesForgottenOnlyByFailure` says this is the only way apart from lost jobs.
* `funnel_shared`. A game of two users has one row, of whoever came first; the other
  one's analysis stores the opponent's moves under it, against `deep.py:7-8`.
* `index_retrievable`. Two annotate jobs of one user load the same file, and the one
  that saves last drops what the other added, for ever: any file that exists is
  believed (`retrieval.py:100`). A kill between the commit and the save does the
  same. `RetrievableUnlessDisturbed` says there is no other way.

`GameRows` confirms a property no constraint of the schema states
(`OneBlunderPerMove`: `blunders.move_analysis_id` is not unique) and narrows the row
lock circles to those of a deep pass with an annotate job (`DeadlockNeedsBothKinds`):
ids follow the order of the plies within one pass, not across passes. The victim
raises and is tried again, as any exception.

Comments the models contradict, or qualify, without a run of their own:

* README.md:94 and `annotation.py:10` call annotations immutable; a second deep pass
  of a game deletes annotated blunders (`deep.py:112-114`). Within one row they are set
  once (`AnnotationSetOnce`), and the new rows are annotated (`EveryBlunderAnnotated`).
* `uci_engine.cpp:82-84`: parent-held ends "must not leak into a later engine's child".
  They may, between `pipe()` and `fcntl`. `NoCircleOfEnds` says why this delays an end
  of file and never blocks for good.
* `book.py:54-55`: repeated positions "cost one HTTP call each". One for each worker
  that missed the cache before the first committed, and one more for each scan that failed
  between the answer and the commit (`CallsBoundedByOverlap`); when two were kept, a game's exit may depend on which was kept last (`BookExitSettled`).
* `lichess.py:26` caps the back-off; `Retry-After` is slept for without the cap
  (`lichess.py:155`). The attempts are bounded (`EveryScanEnds`), their length is not.
* `engine.py:107-108` calls the UCI of a move unique in its call; two games, or two
  plies of one, may ask for the same UCI. It only matters when one of them cannot be
  read (`AnswersAlwaysMatch`).
* `severity.hpp:38` says "at or beyond" 600, the code is silent only beyond it, as
  `funnel.py:62` is: the two agree with each other, which is what
  `MistakesAreCandidates` needs.
* `sampler.py` takes `recent_n` before it looks at the cap, and exceeds the cap when
  `recent_n` does (`SamplesWithinCaps`); `run_backfill` never gets there, its cap being
  what it fetched.
* `flows.py:72-75` stamps after storing: a game still played during the fetch is never
  asked for again by incremental backfills. `LostOnlyWhileFetching` says this and the
  cut at `max_games` are the only ways to lose one.

## What is proved

`JobQueueProofs`, for any sets of jobs, workers and types and any bounds, from
`ConstantsAssumption` (the constants have their types, `NoJob` is no job) and
`NoRowAssumption`. Every obligation is checked.

The invariants the runs check are not inductive by themselves: that a mark finds its
row still running needs that no other worker has it, and that needs that a locked
row is still pending and that only workers at certain points of the loop have a job.
`IInv` is the conjunction of `TypeOK`, `HoldsWhenItShould` (a worker has a job
exactly between lock and mark), `LockedUnchanged` (under an open claim the row is as
the claim found it), `SnapshotFresh`, `OneOwner`, `RetryBudget` and `RowsWritten`
(columns from the INSERT on, no attempts before the commit). One lemma per group of
actions shows it preserved; `StepIInv` and `Invariance` put them together.

| Theorem | States |
|---|---|
| `TypeCorrect`, `Exclusive`, `MarksAreFresh`, `WithinBudget` | `Spec => []` of `TypeOK`, `OneOwner`, `SnapshotFresh`, `RetryBudget` |
| `TerminalIsFinal` | `TerminalStaysTerminal`: which rows a step writes (`RowWrites`), under `IInv` |
| `OrphansBounded` | `OrphansBoundedByCrashes`: a step adds an orphan only if it is a kill, and one at most (`OrphanStep`), by cardinalities of finite sets |
| `Implements` | `JobQueue` implements `QueueContract`: a lemma per group of actions, `Stutter` for the steps the contract does not see, `SameLocks` for those that leave `Locked` alone |

`RetryBudget` and `TerminalStaysTerminal` are proved only; no run repeats them.

`IndexCacheProofs`, for any ids, games, workers, readers, `K` and bounds, from
`ConstantsAssumption` and `FileAssumption` (`Missing` and `Torn` are no indexes). Two
invariants carry it.

* `Inv`, always: `StateOK` and `Clean`, which says what a worker's index may hold at
  each point of its job: only annotated ids, each once, and none of `new`, which it is
  about to add. The last holds because a commit takes only ids that were not annotated,
  and the index it loaded before that has annotated ones only. `NoDouble` and
  `AnswersCommitted` follow.
* `QInv`, `Inv` with `Quiet => Complete`: as long as no job failed and no two were
  between load and save at once, whatever is annotated is in the file or in the hands of
  the one worker that will save it. `Undisturbed` and `SearchComplete` follow.

| Theorem | States |
|---|---|
| `TypeCorrect`, `NoDouble`, `AnswersCommitted`, `Undisturbed`, `SearchComplete` | `Spec => []` of `TypeOK` (with it that only a job that wrote something opens the file), `NoDoubleVectors`, `AnswersAreAnnotated`, `RetrievableUnlessDisturbed`, `SearchMissesNothing` |

`GameRowsProofs`, for any workers, bounds and finite set of plies, from
`ConstantsAssumption`. `IInv` is `TypeOK`, `OneBlunderPerMove` and four parts:
`IdsUnique` (an id is of one blunder, and nobody touches another's uncommitted one),
`LocksHold` (a ply is in `put` of one worker; a row an annotate job wrote is in nobody
else's `cut` or `noted`), `JobsApart` (which job holds which locks) and
`PassesReplace` (a pass has in `cut` exactly the committed blunders of the plies it is
through with, and in `made` one at most for each). The last is why no constraint on
`move_analysis_id` is needed: after the DELETE nobody but the holder of the move can
add a blunder to it. For the circles, `Ordered` says each job holds what is below its
next lock; in a circle of one kind the one waiting for the highest ply (or id) waits for
somebody who waits for a higher one. `Greatest` gets that highest from
well-foundedness of the naturals, without an induction.

| Theorem | States |
|---|---|
| `TypeCorrect`, `OneBlunder`, `Circles` | `Spec => []` of `TypeOK`, `OneBlunderPerMove`, `DeadlockNeedsBothKinds` |
| `Implements` | `GameRows` implements `RowsContract`: a deep commit is one `Analyse`, an annotate commit one `Annotate`, everything else a stutter |

`EnginePoolProofs`, for any number of threads, positions and faults. `IInv` adds to
`TypeOK` which positions are in whose hands (`Hands`), that nobody stops early (`Work`),
who reports (`Reported`), what a thread's place says about its process and its pipes
(`Lifetimes`), and that only running engines hold ends of others (`Inherited`). For the
circles: an engine inherits ends only of threads between `pipe()` and `fcntl`, which have
not forked, so the newest engine of any set is held by none of the older ones.

| Theorem | States |
|---|---|
| `TypeCorrect`, `NoCircles`, `NothingOutlives` | `Spec => []` of `TypeOK`, `NoCircleOfEnds`, `NothingOutlivesTheBatch` |
| `Accounted` | `DrawnWorkIsAccounted`: what was drawn and not evaluated is in a thread's hands or a thread failed |
| `Implements` | `EnginePool` implements `PoolContract` |

`FunnelProofs`, for any users, sources, games, workers, requests, exceptions and kills,
from `ConstantsAssumption` (types; `NoGame` is no game, `NoNote` no note). `Shape`
carries it: `Types`, `Ledger` (what a job of each kind carries, and that the games it
names are stored), `Owners` (a worker in a handler has a running job, alone), `KindAt`
and `LocalsAt` (the handler is that of the job's kind and its locals name stored games
of that job), `Clocks`, and `BlunderRows` (a blunder is of a stored game, of the pass
its move is of, alone at its ply). On it rest two accounts of work.

* Each game without analysis, and each blunder without annotation, is in the charge of
  a pending job or of a worker, or a failure excuses it. `GamesForgottenOnlyByFailure`
  is inductive together with `Shape`; the blunders need the stronger `BlundersCharged`,
  in which a worker that is about to queue an annotate job answers only for the plies of
  its deep pass: those are what a retry of its job would take up again.
* A charge only passes on. A claim turns the job's into the worker's, an
  exception turns it back into the job's or, at the last attempt, into an excuse, a
  kill into an excuse; a handler that ends has put a new job into the queue or settled
  what it was in charge of. No excuse is ever withdrawn (`ExcusesStay`): the jobs that
  failed for good, the kills and the failed backfills are never forgotten.

| Theorem | States |
|---|---|
| `TypeCorrect`, `Games`, `Blunders` | `Spec => []` of `TypeOK`, `GamesForgottenOnlyByFailure`, `BlundersForgottenOnlyByFailure` |
| `SetOnce` | `AnnotationSetOnce`: no step changes a note that is written |
| `Implements` | `ImplementsRows`: a `DeepCommit` is one `Analyse` of `RowsContract`, or nothing when the engine answered no ply, a `WriteNotes` is one `Annotate`, every other step leaves the rows alone |

`ExplorerProofs`, for any finite set of workers, any walks and counts: `TypeCorrect`;
`CallsBounded` from `Bounded` (the calls kept and the calls pending for a position are at
most the workers, because it is asked for only while it is not cached) and `Accounted`
(every answer is kept, in the hands of a scan that has yet to keep it, or lost);
`ExitSettled`
from `OnPath` and `Left` (a scan has come where it is through what is cached, and what is
cached for a settled game stays).

`SyncProofs`, for any workers, games and backfills: `TypeCorrect`, whose `SyncTypeOK` needs
`Finished` (what a window holds has ended, and what has ended stays so); `Lost` from
`Owed` (what a fetch saw is cut, still to store or stored) and `Stamped` (the last pair of
fetch and stamp is `last_synced_at`), with `Sinces`: every `since` was `last_synced_at`
once, so the invariant has already said what became of the older games.

`OperatorProofs`, the pure functions, for every argument. Seven theorems are about
`AnyCalls`, whatever is called; each rests on one about the function.

| Theorem | States |
|---|---|
| `Batches` (`AsIfAlone`) | `BatchesAsIfAlone` |
| `Answers` (`AnswersFit`) | `AnswersAlwaysMatch` |
| `Candidates` (`CandidatesHoldAll`) | `MistakesAreCandidates` |
| `Samples` (`SampleFits`) | `SamplesWithinCaps` |
| `Annotations` (`AllOrNothing`) | `AnnotationsStayAligned` |
| `Boards` (`AlikeForBoth`) | `BoardsColourBlind` |
| `Exchanges` (`GainSound`) | `ExchangesAreSound` |
| `MatesApart`, `Costs` | the two bands of one scale; a mistake cost 100 centipawns |
| `Milder` | a sharper position is never judged more severely; the truncation takes one off only where the exact threshold is an integer, so never enough to fall below the threshold of a calmer position |
| `CheapPassMissesNone` | a mistake of the deep pass is a candidate of the cheap one when their evaluations agree |
| `FirstReplyThatParses` | an annotation is of the first reply that parses, or the batch raises after `retries + 1` |
| `ChunksKeepPlaces` | chunks hold every blunder at its place, none is empty, none too long |
| `PassedIsFree` | passed pawns are those nobody can stop by advancing |

What these functions do to sequences of any length needs induction, and the library's
induction theorems take an operator the prover cannot instantiate. `LeastOf` gets the
least element of a set of numbers from their well-foundedness; `CountingUp` and
`CountingOn` make of it an induction over the *set* of the numbers that are good, which
is an ordinary parameter. On these rest the lemmas the arguments need:

* `Picked(seq, places)`, the elements of a sequence at some places, in order, is what
  dropping illegible games, repeated FENs, tokens and unanswered questions have in
  common. `PickedByPlace`: the element at place `i` of the sequence is at place
  `Upto(places, i)` of what is picked, and everything picked comes from such a place.
* `FlattenChain`, `FlattenElements`: a flattened sequence is the last of a chain of
  concatenations, and has the elements of its parts.
* Batches: the merged FENs have no repetition and lack none (`DistinctHasAll`), so the
  index of a FEN finds its own evaluation, and a game is judged by its own positions
  (`BatchJudged`), alone or not.
* Answers: an answer goes to the first question with its UCI that has none yet; the
  `n`-th question with a UCI and the `n`-th answer to it are in step up to the first
  question that could not be read.
* Candidates: the verdict of the deep pass on a move is that of `CheapPassMissesNone`
  where Lichess gave the evaluations, and the scan's own where it did not (`ScanFinds`).
* Samples: ranks by recency are a bijection onto `1 .. n`, so the recent ones are
  exactly as many as asked for, and the rest is filled to the cap.
* Annotations: division and remainder put blunder `i` at its chunk and its place in it
  (`ChunkPlaces`), and pairs of chunks and replies of equal lengths stay in line when they
  are flattened (`PairsInPlace`).
* Boards: set by set, a feature of the exchanged board is the mirror image, and
  mirroring is a bijection.
* Exchanges: `TradesEnd` shows that the recursion has a solution, as each capture takes a
  piece away, so that `Gains` and `Swaps` are what their definitions say. `MoreAttackers`
  is an induction over both sides at once: a piece in whose way nothing stands and that no
  line to a king depends on (`Loose`) is one more choice for its side and takes none from
  it (`LooseLegal`, `Extra`), whatever else opens and closes. For layouts in which nothing
  does (`Still`), `Trading` is the heart of it: let two sides differ in one piece, the cheap
  `a` for the dear `b`. Having `a` is worth at most `Price(b) - Price(a)` more to the side
  that captures something other than a king, and to the side that is captured from.
  `AttackStep` and `DefendStep` each make one capture and leave the rest to the other; where
  the dear piece is a king, which may not take what is defended, what the cheap one alone
  can take is worth less than the king's price. Hence the cheapest capture leaves the other
  side least (`CheaperFirst`), and to search every order is to take with the cheapest.

Only model-checked: `Settles`, `GracefulStop`, `Drains`, `EveryGameAnalysed`,
`EveryBlunderAnnotated`, `TransactionsEnd`, `EveryBatchEnds`, `EveryScanEnds`, which are
liveness under fairness, out of the prover's reach. Every other property the passing runs
check is proved. That `Funnel`'s use of jobs refines `QueueContract` is not stated: one
transaction of a handler takes several of the contract's steps (it inserts jobs and
ends), so a step of one is not a step of the other.

## Plan

Done: the queue, the funnel, the index, the rows of a game, the engine pool, the Lichess
client, incremental sync and the pure functions. What is left, in this order:

1. Composition of `Funnel` with `Explorer`: the exit ply decides which candidates a
   retried scan finds, which `Funnel` leaves open.
2. The other features (mobility, attackers of the king's zone) and the detectors of
   forks, pins and back rank mates, on a model of how pieces move.

## Not modelled, and why

* Web front end, containers, CI: a placeholder page and deployment files; no state.
* Schema and migrations: declarations. The constraints that matter (unique
  `lichess_id`, unique game and ply, cascades, the sequence of ids) are part of the
  actions that meet them.
* The rest of board geometry: mobility and king zone attackers (`features.cpp`), forks,
  pins, back rank mates and x-rays as motifs (`tactical.py`), the JSON of features. They
  are pure functions over the move generators of external libraries, and nothing but
  tags and columns depends on them.
* The text of prompts and signatures, code fences, the parsing of UCI `info` lines,
  headers and clocks: formats, of which the models keep whether they could be read.
* A thread of the pool that cannot be started (`engine_pool.cpp:177`) after others were:
  the exception destroys joinable threads, which ends the process. `Begin` starts them all.
* How long a back-off sleeps; `export_game`, which has the loop of the explorer.
* LLM and embedding providers, `services.py`: thin wrappers of external services. That
  they raise is in `Raise` and `Fail`; what they say is data.
* Read-only endpoints other than the search: they change nothing and relate nothing.
* The parts of the plan above, until they are built.
