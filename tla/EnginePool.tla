----------------------------- MODULE EnginePool -----------------------------
(* The pool that evaluates the positions of a batch (engine_pool.cpp):      *)
(* worker threads that draw from one cursor, each driving an engine process *)
(* of its own over two pipes (uci_engine.cpp).  Modelled are the threads'   *)
(* steps, the life of each process, who holds the ends of whose pipes, and  *)
(* the ways a start or a search fails.  An engine may die or fall silent at *)
(* any moment; what it writes before it dies can still be read.             *)
EXTENDS Naturals

CONSTANTS
  Threads,     \* AnalyzeParams::engines: the threads 1 .. Threads
  MaxWork,     \* Bound: the most positions a batch has
  MaxFaults    \* Bound: faults in a batch (no pipe, no fork, a death, a silence)

ASSUME ThreadsAssumption == Threads \in Nat \ {0}
ASSUME WorkAssumption == MaxWork \in Nat
ASSUME FaultsAssumption == MaxFaults \in Nat

Thread == 1 .. Threads
Slots == 1 .. MaxWork

(* Where a thread is.  "greet" and "ask" wait for the engine's answer,      *)
(* "reap" (after the loop) and "bury" (on the way of an exception) for the  *)
(* end of its process; "throw" is the handler.                              *)
Points == {"out", "pipe", "seal", "fork", "greet", "draw", "check", "ask",
           "reap", "bury", "throw", "end"}

(* Life of a thread's engine process: "gone" is before its fork and after   *)
(* waitpid; a "dead" one has not been waited for; "mute" it runs but will   *)
(* neither answer nor quit.                                                 *)
Lives == {"gone", "live", "mute", "dead"}

VARIABLES
  status,   \* of the batch: "idle", "running", "returned", "threw"
  size,     \* work.size()
  cursor,   \* positions drawn so far, at most one too many per thread
  evals,    \* position -> how often it was written
  failed,   \* the atomic flag
  error,    \* first_error: the thread whose exception is reported, or 0
  pc,       \* thread -> where it is
  item,     \* thread -> the position it drew last
  engine,   \* thread -> life of its process
  said,     \* thread -> an answer of its engine is in the pipe
  ends,     \* thread -> how many pipe ends of its engine this process holds
  foreign,  \* pairs <<u, t>>: the engine of u inherited the ends of t's pipes
  faults    \* faults so far in this batch

batch == <<status, size>>
shared == <<cursor, evals, failed, error>>
procs == <<engine, said, ends, foreign, faults>>
vars == <<batch, shared, pc, item, procs>>

Go(t, p) == pc' = [pc EXCEPT ![t] = p]
Running(t) == engine[t] \in {"live", "mute"}

(* The process of thread t ends: what it held of other pipes is closed.     *)
Exit(t) == /\ engine' = [engine EXCEPT ![t] = "dead"]
           /\ foreign' = {p \in foreign : p[1] # t}

Init ==
  /\ status = "idle" /\ size = 0
  /\ cursor = 0 /\ evals = [i \in Slots |-> 0] /\ failed = FALSE /\ error = 0
  /\ pc = [t \in Thread |-> "out"]
  /\ item = [t \in Thread |-> 0]
  /\ engine = [t \in Thread |-> "gone"]
  /\ said = [t \in Thread |-> FALSE]
  /\ ends = [t \in Thread |-> 0]
  /\ foreign = {}
  /\ faults = 0

(* runEnginePool: clamp(engines, 1, work.size()) threads; none if there is  *)
(* no work.                                                                 *)
Begin ==
  /\ status # "running"
  /\ status' = "running"
  /\ \E n \in 0 .. MaxWork :
       /\ size' = n
       /\ pc' = [t \in Thread |-> IF t <= n THEN "pipe" ELSE "out"]
  /\ cursor' = 0 /\ evals' = [i \in Slots |-> 0]
  /\ failed' = FALSE /\ error' = 0
  /\ item' = [t \in Thread |-> 0]
  /\ engine' = [t \in Thread |-> "gone"]
  /\ said' = [t \in Thread |-> FALSE]
  /\ ends' = [t \in Thread |-> 0]
  /\ foreign' = {}
  /\ faults' = 0

(* UciEngine::start, step by step.  Until the constructor has returned      *)
(* there is no destructor: an exception leaves pipe ends, and a process     *)
(* that nobody waits for, behind.                                           *)
Pipe(t) ==
  /\ pc[t] = "pipe"
  /\ Go(t, "seal")
  /\ ends' = [ends EXCEPT ![t] = 4]
  /\ UNCHANGED <<batch, shared, item, engine, said, foreign, faults>>

PipeFails(t) ==
  /\ pc[t] = "pipe"
  /\ faults < MaxFaults /\ faults' = faults + 1
  /\ \E n \in {0, 2} : ends' = [ends EXCEPT ![t] = n]
  /\ Go(t, "throw")
  /\ UNCHANGED <<batch, shared, item, engine, said, foreign>>

CloseOnExec(t) ==
  /\ pc[t] = "seal"
  /\ Go(t, "fork")
  /\ UNCHANGED <<batch, shared, item, procs>>

(* Mutants: the parent keeps an end of the child; nothing is close-on-exec. *)
ForkKeepsEnd(t) ==
  /\ pc[t] = "fork"
  /\ Go(t, "greet")
  /\ engine' = [engine EXCEPT ![t] = "live"]
  /\ ends' = [ends EXCEPT ![t] = 3]
  /\ UNCHANGED <<batch, shared, item, said, foreign, faults>>

ForkInheritsAll(t) ==
  /\ pc[t] = "fork"
  /\ Go(t, "greet")
  /\ engine' = [engine EXCEPT ![t] = "live"]
  /\ ends' = [ends EXCEPT ![t] = 2]
  /\ foreign' = foreign \cup {<<t, u>> : u \in {v \in Thread \ {t} : ends[v] > 0}}
  /\ UNCHANGED <<batch, shared, item, said, faults>>

(* The new process inherits the ends of every thread that has made its      *)
(* pipes and has not yet marked them close-on-exec.                         *)
Fork(t) ==
  /\ pc[t] = "fork"
  /\ Go(t, "greet")
  /\ engine' = [engine EXCEPT ![t] = "live"]
  /\ ends' = [ends EXCEPT ![t] = 2]
  /\ foreign' = foreign \cup {<<t, u>> : u \in {v \in Thread : pc[v] = "seal"}}
  /\ UNCHANGED <<batch, shared, item, said, faults>>

ForkFails(t) ==
  /\ pc[t] = "fork"
  /\ faults < MaxFaults /\ faults' = faults + 1
  /\ Go(t, "throw")
  /\ UNCHANGED <<batch, shared, item, engine, said, ends, foreign>>

(* The engine's side: it answers what it was asked, dies (also by a failed  *)
(* exec) or falls silent, and quits when its thread has told it to.         *)
Answer(t) ==
  /\ engine[t] = "live" /\ ~said[t]
  /\ pc[t] \in {"greet", "ask"}
  /\ said' = [said EXCEPT ![t] = TRUE]
  /\ UNCHANGED <<batch, shared, pc, item, engine, ends, foreign, faults>>

Breaks(t) ==
  /\ engine[t] = "live"
  /\ faults < MaxFaults /\ faults' = faults + 1
  /\ \/ Exit(t)
     \/ engine' = [engine EXCEPT ![t] = "mute"] /\ UNCHANGED foreign
  /\ UNCHANGED <<batch, shared, pc, item, said, ends>>

(* Somebody ends a silent engine from outside; nothing in the code does.    *)
Killed(t) ==
  /\ engine[t] = "mute"
  /\ Exit(t)
  /\ UNCHANGED <<batch, shared, pc, item, said, ends, faults>>

Quit(t) ==
  /\ engine[t] = "live"
  /\ pc[t] \in {"reap", "bury"}
  /\ Exit(t)
  /\ UNCHANGED <<batch, shared, pc, item, said, ends, faults>>

(* waitForToken and the loop of analyse: the awaited line arrives, or the   *)
(* pipe breaks.  A read ends, and a write fails, only when no process at    *)
(* all holds the other end: an engine that inherited it keeps it open.      *)
Broken(t) ==
  /\ engine[t] = "dead" /\ ~said[t]
  /\ \A u \in Thread : <<u, t>> \notin foreign

(* Mutant: waits for a token that no line begins with.                      *)
HearOnAndOn(t) ==
  /\ pc[t] = "greet" /\ said[t]
  /\ said' = [said EXCEPT ![t] = FALSE]
  /\ UNCHANGED <<batch, shared, pc, item, engine, ends, foreign, faults>>

Hear(t) ==
  /\ pc[t] = "greet" /\ said[t]
  /\ said' = [said EXCEPT ![t] = FALSE]
  /\ Go(t, "draw")
  /\ UNCHANGED <<batch, shared, item, engine, ends, foreign, faults>>

StartFails(t) ==
  /\ pc[t] = "greet" /\ Broken(t)
  /\ Go(t, "throw")
  /\ UNCHANGED <<batch, shared, item, procs>>

(* ~UciEngine says quit, closes both ends and waits for the process.        *)
Destroy(t, p) == ends' = [ends EXCEPT ![t] = 0] /\ Go(t, p)

(* The loop of the worker: draw, look whether to stop, analyse.             *)
Draw(t) ==
  /\ pc[t] = "draw"
  /\ cursor' = cursor + 1
  /\ item' = [item EXCEPT ![t] = cursor + 1]
  /\ Go(t, "check")
  /\ UNCHANGED <<batch, evals, failed, error, procs>>

Check(t) ==
  /\ pc[t] = "check"
  /\ IF item[t] > size \/ failed THEN Destroy(t, "reap")
                                 ELSE Go(t, "ask") /\ UNCHANGED ends
  /\ UNCHANGED <<batch, shared, item, engine, said, foreign, faults>>

Store(t) ==
  /\ pc[t] = "ask" /\ said[t]
  /\ said' = [said EXCEPT ![t] = FALSE]
  /\ evals' = [evals EXCEPT ![item[t]] = @ + 1]
  /\ item' = [item EXCEPT ![t] = 0]
  /\ Go(t, "draw")
  /\ UNCHANGED <<batch, cursor, failed, error, engine, ends, foreign, faults>>

AnalyseFails(t) ==
  /\ pc[t] = "ask" /\ Broken(t)
  /\ Destroy(t, "bury")
  /\ UNCHANGED <<batch, shared, item, engine, said, foreign, faults>>

(* Mutant: the process is not waited for.                                   *)
ReapNothing(t) ==
  /\ pc[t] \in {"reap", "bury"}
  /\ Go(t, IF pc[t] = "reap" THEN "end" ELSE "throw")
  /\ UNCHANGED <<batch, shared, item, procs>>

Reap(t) ==
  /\ pc[t] \in {"reap", "bury"} /\ engine[t] = "dead"
  /\ engine' = [engine EXCEPT ![t] = "gone"]
  /\ Go(t, IF pc[t] = "reap" THEN "end" ELSE "throw")
  /\ UNCHANGED <<batch, shared, item, said, ends, foreign, faults>>

(* The handler, under err_mutex: the first exception is the one reported.   *)
Catch(t) ==
  /\ pc[t] = "throw"
  /\ failed' = TRUE
  /\ error' = IF failed THEN error ELSE t
  /\ Go(t, "end")
  /\ UNCHANGED <<batch, cursor, evals, item, procs>>

(* Mutant: the flag is not looked at.                                       *)
FinishWell ==
  /\ status = "running"
  /\ \A t \in Thread : pc[t] \in {"out", "end"}
  /\ status' = "returned"
  /\ UNCHANGED <<size, shared, pc, item, procs>>

(* After the last join.                                                     *)
Finish ==
  /\ status = "running"
  /\ \A t \in Thread : pc[t] \in {"out", "end"}
  /\ status' = IF failed THEN "threw" ELSE "returned"
  /\ UNCHANGED <<size, shared, pc, item, procs>>

Step(t) ==
  \/ Pipe(t) \/ PipeFails(t) \/ CloseOnExec(t) \/ Fork(t) \/ ForkFails(t)
  \/ Hear(t) \/ StartFails(t) \/ Draw(t) \/ Check(t) \/ Store(t)
  \/ AnalyseFails(t) \/ Reap(t) \/ Catch(t)

Respond(t) == Answer(t) \/ Quit(t)

Next ==
  \/ Begin \/ Finish
  \/ \E t \in Thread : Step(t) \/ Respond(t) \/ Breaks(t) \/ Killed(t)

Spec == Init /\ [][Next]_vars

(* The system schedules every thread; an engine that neither died nor fell  *)
(* silent answers what it is asked and quits when it is told to.  Nothing   *)
(* makes a caller begin a batch or an engine break.                         *)
FairSpec ==
  /\ Spec
  /\ WF_vars(Finish)
  /\ \A t \in Thread : WF_vars(Step(t)) /\ WF_vars(Respond(t))

-----------------------------------------------------------------------------

TypeOK ==
  /\ status \in {"idle", "running", "returned", "threw"}
  /\ size \in 0 .. MaxWork
  /\ cursor \in Nat
  /\ evals \in [Slots -> Nat]
  /\ failed \in BOOLEAN
  /\ error \in {0} \cup Thread
  /\ pc \in [Thread -> Points]
  /\ item \in [Thread -> Nat]
  /\ engine \in [Thread -> Lives]
  /\ said \in [Thread -> BOOLEAN]
  /\ ends \in [Thread -> {0, 2, 4}]
  /\ foreign \subseteq Thread \X Thread
  /\ faults \in 0 .. MaxFaults

(* engine_pool.hpp: however the threads interleave and whichever engines    *)
(* break, the batch throws or ends with each position evaluated once.       *)
Contract == INSTANCE PoolContract
ImplementsContract == Contract!Spec

(* When a batch is over, the engines the destructor saw are gone and their  *)
(* pipes closed; what is left behind is of constructors that failed, and    *)
(* is at most a process that has ended: no engine outlives its batch.       *)
NothingOutlivesTheBatch ==
  status \in {"returned", "threw"} =>
    \A t \in Thread :
      /\ ~Running(t)
      /\ status = "returned" => ends[t] = 0 /\ engine[t] = "gone"
      /\ engine[t] = "dead" => ends[t] = 2

(* The exception that is reported is of a thread that has one, and work     *)
(* that was drawn and not evaluated is never lost without an exception:     *)
(* it is in a thread's hands, or some thread fails.                         *)
DrawnWorkIsAccounted ==
  /\ failed <=> error # 0
  /\ failed => pc[error] = "end"
  /\ \A i \in Slots :
       status = "running" /\ i <= cursor /\ i <= size /\ evals[i] = 0 =>
         \/ failed
         \/ \E t \in Thread :
              item[t] = i /\ pc[t] \in {"check", "ask", "bury", "throw"}

(* An engine that inherited the ends of another thread's pipes delays the   *)
(* end of file that thread waits for.  However the pipes, marks and forks   *)
(* of uci_engine.cpp:79-89 interleave, the delays form no circle: of any    *)
(* threads, one has an engine that holds the ends of none of the others.    *)
NoCircleOfEnds ==
  \A S \in SUBSET Thread :
    S # {} => \E t \in S : \A u \in S : <<t, u>> \notin foreign

(* With nothing but a scheduler and engines that answer, quit or die, every *)
(* batch comes to its end, broken engines and inherited pipes included.     *)
(* The one exception is an engine that is alive and silent: no read in      *)
(* uci_engine.cpp has a time limit.                                         *)
EveryBatchEnds ==
  status = "running" ~>
    status # "running" \/ \E t \in Thread : engine[t] = "mute"

=============================================================================
