------------------------------ MODULE JobQueue ------------------------------
(***************************************************************************)
(* The jobs table (core/blunder/queue.py) and the worker processes that    *)
(* drain it (core/blunder/worker.py), down to the transactions: a claim is *)
(* one UPDATE that locks its row and a commit after it, an enqueue is an   *)
(* INSERT whose timestamp is taken when its transaction begins and that    *)
(* nobody sees before it commits, and a worker keeps the attempts it read  *)
(* at claim time until it marks the job.                                   *)
(*                                                                         *)
(* A worker process may be killed between any two of its steps.  What a    *)
(* handler does is left to module Funnel; here it returns or raises.       *)
(***************************************************************************)
EXTENDS Integers, FiniteSets

CONSTANTS
  Job,          (* the rows the jobs table may ever hold                    *)
  Worker,       (* the worker processes                                     *)
  Kind,         (* job types                                                *)
  Registered,   (* the types REGISTRY has a handler for                     *)
  Priority,     (* the priorities clients enqueue with                      *)
  MaxAttempts,  (* settings.worker_max_attempts                             *)
  MaxCrashes,   (* bound: how many times worker processes are killed        *)
  MaxSignals,   (* bound: how many SIGINT or SIGTERM are delivered          *)
  NoJob,        (* the job of a worker that has none                        *)
  NoRow         (* the row of a job that was never enqueued                 *)

ASSUME ConstantsAssumption ==
  /\ Registered \subseteq Kind
  /\ Priority \subseteq Int
  /\ MaxAttempts \in Nat \ {0}
  /\ MaxCrashes \in Nat
  /\ MaxSignals \in Nat
  /\ NoJob \notin Job

(* The columns of a row that are written once, by the INSERT.              *)
Row == [kind : Kind, prio : Priority, created : Nat]

ASSUME NoRowAssumption == NoRow \notin Row

VARIABLES
  status,       (* status[j]: committed value, "absent" before the INSERT   *)
  attempts,     (* attempts[j]: committed value                             *)
  row,          (* row[j]: the other columns                                *)
  clock,        (* the database clock that now() reads                      *)
  pc,           (* pc[w]: where worker w is in run()                        *)
  held,         (* held[w]: the job of w's claim transaction or ClaimedJob  *)
  seen,         (* seen[w]: ClaimedJob.attempts                             *)
  stopping,     (* stopping[w]: w's _shutdown                               *)
  crashes,      (* kills so far                                             *)
  signals       (* signals so far                                           *)

table == <<status, attempts, row, clock>>
faults == <<crashes, signals>>
vars == <<status, attempts, row, clock, pc, held, seen, stopping, crashes, signals>>

Statuses == {"absent", "inserting", "pending", "running", "done", "dead"}

(* loop: the test of the while; claiming: before the UPDATE; locked: the   *)
(* UPDATE ran, not committed; poll: sleeping; dispatch: a ClaimedJob in    *)
(* hand; returned, raised: out of the handler; stopped: run() returned;    *)
(* down: the process was killed.                                           *)
Points == {"loop", "claiming", "locked", "poll", "dispatch", "returned",
           "raised", "stopped", "down"}

Alive(w) == pc[w] \notin {"stopped", "down"}

(* r is claimed strictly before s: ORDER BY priority ASC, created_at ASC.  *)
Before(r, s) ==
  \/ r.prio < s.prio
  \/ r.prio = s.prio /\ r.created < s.created

(* Rows under the lock of an open claim transaction.                       *)
Locked == {held[w] : w \in {v \in Worker : pc[v] = "locked"}}

(* Mutant: a claim that waits for no lock and skips none.                  *)
ClaimableNoSkip == {j \in Job : status[j] = "pending"}

(* What the sub-select of _CLAIM_SQL may return: pending rows, without the *)
(* locked ones, in claim order; rows of equal rank come in any order.      *)
Claimable == {j \in Job : status[j] = "pending"} \ Locked
ClaimOrderNewest(j) == \A k \in Claimable : ~Before(row[j], row[k])
ClaimOrder(j) == \A k \in Claimable : ~Before(row[k], row[j])

Init ==
  /\ status = [j \in Job |-> "absent"]
  /\ attempts = [j \in Job |-> 0]
  /\ row = [j \in Job |-> NoRow]
  /\ clock = 0
  /\ pc = [w \in Worker |-> "loop"]
  /\ held = [w \in Worker |-> NoJob]
  /\ seen = [w \in Worker |-> 0]
  /\ stopping = [w \in Worker |-> FALSE]
  /\ crashes = 0
  /\ signals = 0

----------------------------------------------------------------------------
(* Producers: the API, the CLI and the handlers that enqueue.              *)

(* enqueue, INSERT: created_at is the time the transaction began.  Two     *)
(* transactions may begin at the same time.  A producer that dies here     *)
(* never commits, which is a job that stays "inserting".                   *)
InsertBegin(j, k, p) ==
  /\ status[j] = "absent"
  /\ status' = [status EXCEPT ![j] = "inserting"]
  /\ row' = [row EXCEPT ![j] = [kind |-> k, prio |-> p, created |-> clock]]
  /\ clock' \in {clock, clock + 1}
  /\ UNCHANGED <<attempts, pc, held, seen, stopping, faults>>

InsertCommit(j) ==
  /\ status[j] = "inserting"
  /\ status' = [status EXCEPT ![j] = "pending"]
  /\ UNCHANGED <<attempts, row, clock, pc, held, seen, stopping, faults>>

----------------------------------------------------------------------------
(* A worker.                                                               *)

(* Worker w goes from one point of run() to another.                       *)
Goto(w, from, to) ==
  /\ pc[w] = from
  /\ pc' = [pc EXCEPT ![w] = to]

(* w is back at the top of its loop with no job.                           *)
Drop(w) ==
  /\ held' = [held EXCEPT ![w] = NoJob]
  /\ seen' = [seen EXCEPT ![w] = 0]

LoopTest(w) ==
  /\ Goto(w, "loop", IF stopping[w] THEN "stopped" ELSE "claiming")
  /\ UNCHANGED <<table, held, seen, stopping, faults>>

(* Mutant: the attempts of before the UPDATE.                              *)
ClaimLockOldCount(w) ==
  /\ Goto(w, "claiming", "locked")
  /\ \E j \in Claimable :
       /\ ClaimOrder(j)
       /\ held' = [held EXCEPT ![w] = j]
       /\ seen' = [seen EXCEPT ![w] = attempts[j]]
  /\ UNCHANGED <<table, stopping, faults>>

(* claim_one, the UPDATE: RETURNING gives the attempts it will commit.     *)
ClaimLock(w) ==
  /\ Goto(w, "claiming", "locked")
  /\ \E j \in Claimable :
       /\ ClaimOrder(j)
       /\ held' = [held EXCEPT ![w] = j]
       /\ seen' = [seen EXCEPT ![w] = attempts[j] + 1]
  /\ UNCHANGED <<table, stopping, faults>>

ClaimNothing(w) ==
  /\ Goto(w, "claiming", "poll")
  /\ Claimable = {}
  /\ UNCHANGED <<table, held, seen, stopping, faults>>

(* Mutant: the claim does not count the attempt.                           *)
ClaimCommitUncounted(w) ==
  /\ Goto(w, "locked", "dispatch")
  /\ status' = [status EXCEPT ![held[w]] = "running"]
  /\ UNCHANGED <<attempts, row, clock, held, seen, stopping, faults>>

ClaimCommit(w) ==
  /\ Goto(w, "locked", "dispatch")
  /\ status' = [status EXCEPT ![held[w]] = "running"]
  /\ attempts' = [attempts EXCEPT ![held[w]] = @ + 1]
  /\ UNCHANGED <<row, clock, held, seen, stopping, faults>>

(* Mutant: the sleep is inside a loop of its own.                          *)
WakeToClaim(w) ==
  /\ Goto(w, "poll", "claiming")
  /\ UNCHANGED <<table, held, seen, stopping, faults>>

Wake(w) ==
  /\ Goto(w, "poll", "loop")
  /\ UNCHANGED <<table, held, seen, stopping, faults>>

(* Mutant: one retry too many.                                             *)
FailedStatusLate(n) == IF n > MaxAttempts THEN "dead" ELSE "pending"

(* mark_failed's choice: the caller gives the attempts, it reads none.     *)
FailedStatus(n) == IF n >= MaxAttempts THEN "dead" ELSE "pending"

(* The UPDATEs of mark_done and mark_failed: by id, whatever the status.   *)
Mark(j, s) == status' = [status EXCEPT ![j] = s]

(* Mutant: an unknown type is left as it is.                               *)
NoHandlerSkips(w) ==
  /\ Goto(w, "dispatch", "loop")
  /\ row[held[w]].kind \notin Registered
  /\ Drop(w)
  /\ UNCHANGED <<table, stopping, faults>>

NoHandler(w) ==
  /\ Goto(w, "dispatch", "loop")
  /\ row[held[w]].kind \notin Registered
  /\ Mark(held[w], FailedStatus(MaxAttempts))
  /\ Drop(w)
  /\ UNCHANGED <<attempts, row, clock, stopping, faults>>

(* The handler returns, or an Exception comes out of it.                   *)
HandlerReturns(w) ==
  /\ Goto(w, "dispatch", "returned")
  /\ row[held[w]].kind \in Registered
  /\ UNCHANGED <<table, held, seen, stopping, faults>>

HandlerRaises(w) ==
  /\ Goto(w, "dispatch", "raised")
  /\ row[held[w]].kind \in Registered
  /\ UNCHANGED <<table, held, seen, stopping, faults>>

MarkDone(w) ==
  /\ Goto(w, "returned", "loop")
  /\ Mark(held[w], "done")
  /\ Drop(w)
  /\ UNCHANGED <<attempts, row, clock, stopping, faults>>

MarkFailed(w) ==
  /\ Goto(w, "raised", "loop")
  /\ Mark(held[w], FailedStatus(seen[w]))
  /\ Drop(w)
  /\ UNCHANGED <<attempts, row, clock, stopping, faults>>

----------------------------------------------------------------------------
(* What happens to worker processes.                                       *)

(* SIGINT or SIGTERM: the handler sets _shutdown and returns.              *)
Signal(w) ==
  /\ Alive(w) /\ ~stopping[w]
  /\ signals < MaxSignals
  /\ signals' = signals + 1
  /\ stopping' = [stopping EXCEPT ![w] = TRUE]
  /\ UNCHANGED <<table, pc, held, seen, crashes>>

(* The process dies: SIGKILL, an exception of the database outside the     *)
(* try, the machine.  An open transaction is rolled back and its lock is   *)
(* released; a job already committed as running stays so.                  *)
Crash(w) ==
  /\ Alive(w)
  /\ crashes < MaxCrashes
  /\ crashes' = crashes + 1
  /\ pc' = [pc EXCEPT ![w] = "down"]
  /\ stopping' = [stopping EXCEPT ![w] = FALSE]
  /\ Drop(w)
  /\ UNCHANGED <<table, signals>>

(* Somebody starts the worker again.                                       *)
Restart(w) ==
  /\ ~Alive(w)
  /\ pc' = [pc EXCEPT ![w] = "loop"]
  /\ stopping' = [stopping EXCEPT ![w] = FALSE]
  /\ UNCHANGED <<table, held, seen, faults>>

----------------------------------------------------------------------------

Produce(j) ==
  \/ \E k \in Kind, p \in Priority : InsertBegin(j, k, p)
  \/ InsertCommit(j)

(* The steps of run(), one at a time.                                      *)
Run(w) ==
  \/ LoopTest(w)
  \/ ClaimLock(w) \/ ClaimNothing(w) \/ ClaimCommit(w)
  \/ Wake(w)
  \/ NoHandler(w)
  \/ HandlerReturns(w) \/ HandlerRaises(w)
  \/ MarkDone(w) \/ MarkFailed(w)

Next ==
  \/ \E j \in Job : Produce(j)
  \/ \E w \in Worker : Run(w) \/ Signal(w) \/ Crash(w) \/ Restart(w)

Spec == Init /\ [][Next]_vars

(* A live worker keeps running: its loop has no blocking call but the      *)
(* sleep and the handler, and a handler is taken to return or raise.       *)
(* Nothing makes a producer, a signal, a kill or a restart happen.         *)
Fairness == \A w \in Worker : WF_vars(Run(w))

FairSpec == Spec /\ Fairness

(* The same, under something that starts killed workers again.             *)
SupervisedSpec == FairSpec /\ \A w \in Worker : WF_vars(Restart(w))

----------------------------------------------------------------------------
(* Invariants.                                                             *)

TypeOK ==
  /\ status \in [Job -> Statuses]
  /\ attempts \in [Job -> 0..MaxAttempts]
  /\ row \in [Job -> Row \cup {NoRow}]
  /\ clock \in Nat
  /\ pc \in [Worker -> Points]
  /\ held \in [Worker -> Job \cup {NoJob}]
  /\ seen \in [Worker -> 0..MaxAttempts]
  /\ stopping \in [Worker -> BOOLEAN]
  /\ crashes \in 0..MaxCrashes
  /\ signals \in 0..MaxSignals

(* Worker w has a ClaimedJob it has not marked yet.                        *)
Executing(w) == pc[w] \in {"dispatch", "returned", "raised"}

(* No job is in the hands of two workers, from the moment the claim locks  *)
(* its row to the moment it is marked, however the claims interleave with  *)
(* failures, kills and restarts ("two workers never grab the same row").   *)
OneOwner ==
  \A w, v \in Worker : held[w] # NoJob /\ held[w] = held[v] => w = v

(* mark_done and mark_failed write by id and trust the attempts read at    *)
(* claim time: when they do, the row is still running and still has those  *)
(* attempts, so no retry is granted on a stale count.                      *)
SnapshotFresh ==
  \A w \in Worker :
    Executing(w) => status[held[w]] = "running" /\ seen[w] = attempts[held[w]]

(* A job that waits has a run left, a job that runs is within its budget,  *)
(* and a dead one spent it all or has a type nobody handles.               *)
RetryBudget ==
  \A j \in Job :
    /\ status[j] = "pending" => attempts[j] < MaxAttempts
    /\ status[j] = "running" => attempts[j] \in 1..MaxAttempts
    /\ status[j] = "dead" =>
         attempts[j] = MaxAttempts \/ row[j].kind \notin Registered

(* A row that says running while no worker has the job: nothing in the     *)
(* code looks for these.                                                   *)
Orphan(j) ==
  status[j] = "running" /\ \A w \in Worker : held[w] # j

(* Only a killed worker strands a job, and each kill strands at most one:  *)
(* signals, failures and unknown types never do.                           *)
OrphansBoundedByCrashes ==
  Cardinality({j \in Job : Orphan(j)}) <= crashes

----------------------------------------------------------------------------
(* Action and liveness properties.                                         *)

(* A done or dead job is never touched again, although the marking UPDATEs *)
(* have no condition on the status: no late mark, no second claim.         *)
TerminalStaysTerminal ==
  [][\A j \in Job : status[j] \in {"done", "dead"} =>
       status'[j] = status[j] /\ attempts'[j] = attempts[j]]_vars

Settled(j) == status[j] \in {"done", "dead"}

(* A committed job reaches a verdict, through whatever retries and behind  *)
(* the better-ranked jobs that arrive meanwhile, unless a kill strands it  *)
(* or every worker is gone.  The arrivals are finitely many, as Job is:    *)
(* the order of claims lets jobs of priority 0 that never stop arriving    *)
(* starve those of priority 10 (queue.py:50).                              *)
Settles ==
  \A j \in Job :
    status[j] = "pending" ~>
      Settled(j) \/ Orphan(j) \/ \A w \in Worker : ~Alive(w)

(* A signalled worker gets to the end of run(), whatever it was doing.     *)
GracefulStop ==
  \A w \in Worker : stopping[w] ~> ~Alive(w)

(* "claim a job, dispatch to its handler, mark done or retry/dead": every  *)
(* claimed job is marked one way or the other.                             *)
ClaimedJobsAreMarked ==
  \A j \in Job : status[j] = "running" ~> status[j] # "running"

----------------------------------------------------------------------------
(* The queue implements its contract.                                      *)

Phase(j) ==
  CASE status[j] \in {"absent", "inserting"} -> "unborn"
    [] status[j] = "pending" -> IF j \in Locked THEN "reserved" ELSE "waiting"
    [] status[j] = "running" -> "active"
    [] status[j] = "done" -> "finished"
    [] status[j] = "dead" -> "buried"

Contract ==
  INSTANCE QueueContract WITH
    Rank <- Row, NoRank <- NoRow, MaxRuns <- MaxAttempts,
    phase <- [j \in Job |-> Phase(j)], rank <- row, runs <- attempts

(* Every step of the queue and its workers is a step of the contract or    *)
(* none: jobs are reserved in rank order, run within their budget, one run *)
(* at a time, and finished or buried for good.                             *)
ImplementsContract == Contract!Spec

=============================================================================
