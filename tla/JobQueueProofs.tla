--------------------------- MODULE JobQueueProofs ---------------------------
(***************************************************************************)
(* Proofs about JobQueue, for any number of jobs, workers, types, crashes  *)
(* and signals.                                                            *)
(*                                                                         *)
(* The safety properties rest on one inductive invariant, IInv: a worker   *)
(* has a job exactly at the points of run() where it should, the row of    *)
(* that job is what the claim left there, and no other worker has it.      *)
(***************************************************************************)
EXTENDS JobQueue, FiniteSetTheorems, TLAPS

Holding(w) == pc[w] = "locked" \/ Executing(w)

(* A worker has a job exactly between the claim's lock and the mark.       *)
HoldsWhenItShould ==
  \A w \in Worker : (held[w] # NoJob) <=> Holding(w)

(* Under the lock of an open claim the row is still as the claim found it. *)
LockedUnchanged ==
  \A w \in Worker :
    pc[w] = "locked" =>
      status[held[w]] = "pending" /\ seen[w] = attempts[held[w]] + 1

(* A row has its columns from the INSERT on, and no attempts before it is  *)
(* committed.                                                              *)
RowsWritten ==
  \A j \in Job :
    /\ status[j] = "absent" <=> row[j] = NoRow
    /\ status[j] \in {"absent", "inserting"} => attempts[j] = 0

IInv ==
  /\ TypeOK
  /\ HoldsWhenItShould
  /\ LockedUnchanged
  /\ SnapshotFresh
  /\ OneOwner
  /\ RetryBudget
  /\ RowsWritten

----------------------------------------------------------------------------

LEMMA InitIInv == Init => IInv
  <1> USE ConstantsAssumption, NoRowAssumption
  <1> QED
    BY DEF Init, IInv, TypeOK, HoldsWhenItShould, LockedUnchanged, SnapshotFresh,
           OneOwner, RetryBudget, RowsWritten, Holding, Executing, Statuses, Points

(* The steps of a producer.                                                *)
LEMMA ProduceIInv ==
  ASSUME IInv, NEW j \in Job, Produce(j)
  PROVE  IInv'
  <1> USE ConstantsAssumption, NoRowAssumption
  <1>1. ASSUME NEW k \in Kind, NEW p \in Priority, InsertBegin(j, k, p)
        PROVE  IInv'
    <2>1. row'[j] \in Row /\ row'[j] # NoRow
      BY <1>1 DEF InsertBegin, IInv, TypeOK, Row
    <2>2. TypeOK'
      BY <1>1, <2>1 DEF InsertBegin, IInv, TypeOK, Statuses, faults
    <2>3. (HoldsWhenItShould /\ LockedUnchanged /\ SnapshotFresh /\ OneOwner)'
      BY <1>1 DEF InsertBegin, IInv, TypeOK, HoldsWhenItShould, LockedUnchanged,
                  SnapshotFresh, OneOwner, Holding, Executing, Statuses, faults
    <2>4. (RetryBudget /\ RowsWritten)'
      BY <1>1, <2>1 DEF InsertBegin, IInv, TypeOK, RetryBudget, RowsWritten,
                  Statuses, faults
    <2> QED
      BY <2>2, <2>3, <2>4 DEF IInv
  <1>2. ASSUME InsertCommit(j)
        PROVE  IInv'
    BY <1>2 DEF InsertCommit, IInv, TypeOK, HoldsWhenItShould, LockedUnchanged,
                SnapshotFresh, OneOwner, RetryBudget, RowsWritten, Holding,
                Executing, Statuses, faults
  <1> QED
    BY <1>1, <1>2 DEF Produce

(* The steps of run() that leave the table alone.                          *)
LEMMA WalkIInv ==
  ASSUME IInv, NEW w \in Worker,
         LoopTest(w) \/ ClaimNothing(w) \/ Wake(w) \/ HandlerReturns(w) \/ HandlerRaises(w)
  PROVE  IInv'
  <1>1. CASE LoopTest(w)
    BY <1>1 DEF LoopTest, Goto, IInv, TypeOK, HoldsWhenItShould, LockedUnchanged, SnapshotFresh,
                OneOwner, RetryBudget, RowsWritten, Holding, Executing, Statuses,
                Points, table, faults
  <1>2. CASE ClaimNothing(w)
    BY <1>2 DEF ClaimNothing, Goto, IInv, TypeOK, HoldsWhenItShould, LockedUnchanged, SnapshotFresh,
                OneOwner, RetryBudget, RowsWritten, Holding, Executing, Statuses,
                Points, table, faults
  <1>3. CASE Wake(w)
    BY <1>3 DEF Wake, Goto, IInv, TypeOK, HoldsWhenItShould, LockedUnchanged, SnapshotFresh,
                OneOwner, RetryBudget, RowsWritten, Holding, Executing, Statuses,
                Points, table, faults
  <1>4. CASE HandlerReturns(w)
    BY <1>4 DEF HandlerReturns, Goto, IInv, TypeOK, HoldsWhenItShould, LockedUnchanged, SnapshotFresh,
                OneOwner, RetryBudget, RowsWritten, Holding, Executing, Statuses,
                Points, table, faults
  <1>5. CASE HandlerRaises(w)
    BY <1>5 DEF HandlerRaises, Goto, IInv, TypeOK, HoldsWhenItShould, LockedUnchanged, SnapshotFresh,
                OneOwner, RetryBudget, RowsWritten, Holding, Executing, Statuses,
                Points, table, faults
  <1> QED
    BY <1>1, <1>2, <1>3, <1>4, <1>5

(* The claim takes a pending row nobody has under lock: no other worker    *)
(* can have it, because a job that is executed is running.                 *)
LEMMA ClaimLockIInv ==
  ASSUME IInv, NEW w \in Worker, ClaimLock(w)
  PROVE  IInv'
  <1> USE ConstantsAssumption
  <1>1. PICK j \in Claimable :
          /\ held' = [held EXCEPT ![w] = j]
          /\ seen' = [seen EXCEPT ![w] = attempts[j] + 1]
    BY DEF ClaimLock
  <1>2. j \in Job /\ j # NoJob /\ status[j] = "pending" /\ j \notin Locked
    BY DEF Claimable
  <1>3. \A v \in Worker : held[v] # j
    <2> SUFFICES ASSUME NEW v \in Worker, held[v] = j
                 PROVE  FALSE
      OBVIOUS
    <2>1. Holding(v)
      BY <1>2 DEF IInv, HoldsWhenItShould
    <2>2. pc[v] # "locked"
      BY <1>2 DEF Locked
    <2> QED
      BY <1>2, <2>1, <2>2 DEF Holding, IInv, SnapshotFresh
  <1>4. attempts[j] < MaxAttempts
    BY <1>2 DEF IInv, RetryBudget
  <1>5. TypeOK'
    BY <1>1, <1>2, <1>4 DEF ClaimLock, Goto, IInv, TypeOK, Points, table, faults
  <1>6. (HoldsWhenItShould /\ LockedUnchanged /\ SnapshotFresh)'
    BY <1>1, <1>2 DEF ClaimLock, Goto, IInv, TypeOK, HoldsWhenItShould, LockedUnchanged,
                      SnapshotFresh, Holding, Executing, table
  <1>7. OneOwner'
    BY <1>1, <1>3 DEF IInv, TypeOK, OneOwner
  <1>8. (RetryBudget /\ RowsWritten)'
    BY DEF ClaimLock, IInv, RetryBudget, RowsWritten, table
  <1> QED
    BY <1>5, <1>6, <1>7, <1>8 DEF IInv

LEMMA ClaimCommitIInv ==
  ASSUME IInv, NEW w \in Worker, ClaimCommit(w)
  PROVE  IInv'
  <1> USE ConstantsAssumption
  <1>1. pc[w] = "locked" /\ held[w] \in Job /\ held[w] # NoJob
    BY DEF ClaimCommit, Goto, IInv, TypeOK, HoldsWhenItShould, Holding
  <1>2. status[held[w]] = "pending" /\ seen[w] = attempts[held[w]] + 1
    BY <1>1 DEF IInv, LockedUnchanged
  <1>3. attempts[held[w]] + 1 \in 1..MaxAttempts
    BY <1>1, <1>2 DEF IInv, TypeOK, RetryBudget
  <1>4. \A v \in Worker : v # w => held[v] # held[w]
    BY <1>1 DEF IInv, OneOwner
  <1>5. TypeOK'
    BY <1>1, <1>3 DEF ClaimCommit, Goto, IInv, TypeOK, Points, Statuses, faults
  <1>6. (HoldsWhenItShould /\ OneOwner)'
    BY <1>1 DEF ClaimCommit, Goto, IInv, TypeOK, HoldsWhenItShould, OneOwner,
                Holding, Executing
  <1>7. (LockedUnchanged /\ SnapshotFresh)'
    BY <1>1, <1>2, <1>4 DEF ClaimCommit, Goto, IInv, TypeOK, LockedUnchanged,
                            SnapshotFresh, Executing
  <1>8. (RetryBudget /\ RowsWritten)'
    BY <1>1, <1>2, <1>3 DEF ClaimCommit, IInv, TypeOK, RetryBudget, RowsWritten
  <1> QED
    BY <1>5, <1>6, <1>7, <1>8 DEF IInv

(* A mark is written on a running row of the worker's own, and it is one   *)
(* that fits the attempts of the row.                                      *)
LEMMA MarkIInv ==
  ASSUME IInv, NEW w \in Worker, NEW m \in {"done", "dead", "pending"},
         Executing(w), Mark(held[w], m), Drop(w), pc' = [pc EXCEPT ![w] = "loop"],
         m = "pending" => attempts[held[w]] < MaxAttempts,
         m = "dead" => \/ attempts[held[w]] = MaxAttempts
                       \/ row[held[w]].kind \notin Registered,
         UNCHANGED <<attempts, row, clock, stopping, faults>>
  PROVE  IInv'
  <1> USE ConstantsAssumption
  <1>1. held[w] \in Job /\ held[w] # NoJob /\ status[held[w]] = "running"
    BY DEF IInv, TypeOK, HoldsWhenItShould, Holding, SnapshotFresh
  <1>2. \A v \in Worker : v # w => held[v] # held[w]
    BY <1>1 DEF IInv, OneOwner
  <1>3. TypeOK'
    BY <1>1 DEF Mark, Drop, IInv, TypeOK, Points, Statuses, faults
  <1>4. (HoldsWhenItShould /\ OneOwner)'
    BY DEF Drop, IInv, TypeOK, HoldsWhenItShould, OneOwner, Holding, Executing
  <1>5. (LockedUnchanged /\ SnapshotFresh)'
    BY <1>1, <1>2 DEF Mark, Drop, IInv, TypeOK, LockedUnchanged, SnapshotFresh, Executing
  <1>6. (RetryBudget /\ RowsWritten)'
    BY <1>1 DEF Mark, IInv, TypeOK, RetryBudget, RowsWritten
  <1> QED
    BY <1>3, <1>4, <1>5, <1>6 DEF IInv

LEMMA VerdictIInv ==
  ASSUME IInv, NEW w \in Worker, NoHandler(w) \/ MarkDone(w) \/ MarkFailed(w)
  PROVE  IInv'
  <1> USE ConstantsAssumption
  <1>1. CASE NoHandler(w)
    <2>1. FailedStatus(MaxAttempts) = "dead"
      BY DEF FailedStatus
    <2> QED
      BY <1>1, <2>1, MarkIInv DEF NoHandler, Goto, Executing
  <1>2. CASE MarkDone(w)
    BY <1>2, MarkIInv DEF MarkDone, Goto, Executing
  <1>3. CASE MarkFailed(w)
    <2>1. Executing(w) /\ seen[w] = attempts[held[w]]
      BY <1>3 DEF MarkFailed, Goto, Executing, IInv, SnapshotFresh
    <2>2. held[w] \in Job
      BY <2>1 DEF IInv, TypeOK, HoldsWhenItShould, Holding
    <2>3. attempts[held[w]] \in 0..MaxAttempts
      BY <2>2 DEF IInv, TypeOK
    <2>4. CASE attempts[held[w]] = MaxAttempts
      <3>1. FailedStatus(seen[w]) = "dead"
        BY <2>1, <2>4 DEF FailedStatus
      <3> QED
        BY <1>3, <2>1, <2>4, <3>1, MarkIInv DEF MarkFailed, Goto
    <2>5. CASE attempts[held[w]] < MaxAttempts
      <3>1. FailedStatus(seen[w]) = "pending"
        BY <2>1, <2>3, <2>5 DEF FailedStatus
      <3> QED
        BY <1>3, <2>1, <2>5, <3>1, MarkIInv DEF MarkFailed, Goto
    <2> QED
      BY <2>3, <2>4, <2>5
  <1> QED
    BY <1>1, <1>2, <1>3

(* Signals, kills and restarts.                                            *)
LEMMA ProcessIInv ==
  ASSUME IInv, NEW w \in Worker, Signal(w) \/ Crash(w) \/ Restart(w)
  PROVE  IInv'
  <1> USE ConstantsAssumption
  <1>1. CASE Signal(w)
    BY <1>1 DEF Signal, Alive, IInv, TypeOK, HoldsWhenItShould, LockedUnchanged, SnapshotFresh,
                OneOwner, RetryBudget, RowsWritten, Holding, Executing, Statuses,
                Points, table, faults
  <1>2. CASE Crash(w)
    BY <1>2 DEF Crash, Alive, Drop, IInv, TypeOK, HoldsWhenItShould, LockedUnchanged, SnapshotFresh,
                OneOwner, RetryBudget, RowsWritten, Holding, Executing, Statuses,
                Points, table, faults
  <1>3. CASE Restart(w)
    BY <1>3 DEF Restart, Alive, IInv, TypeOK, HoldsWhenItShould, LockedUnchanged, SnapshotFresh,
                OneOwner, RetryBudget, RowsWritten, Holding, Executing, Statuses,
                Points, table, faults
  <1> QED
    BY <1>1, <1>2, <1>3

LEMMA StepIInv == IInv /\ [Next]_vars => IInv'
  <1> SUFFICES ASSUME IInv, [Next]_vars
               PROVE  IInv'
    OBVIOUS
  <1>1. ASSUME NEW j \in Job, Produce(j)
        PROVE  IInv'
    BY <1>1, ProduceIInv
  <1>2. ASSUME NEW w \in Worker, Run(w)
        PROVE  IInv'
    BY <1>2, WalkIInv, ClaimLockIInv, ClaimCommitIInv, VerdictIInv DEF Run
  <1>3. ASSUME NEW w \in Worker, Signal(w) \/ Crash(w) \/ Restart(w)
        PROVE  IInv'
    BY <1>3, ProcessIInv
  <1>4. CASE UNCHANGED vars
    BY <1>4 DEF vars, IInv, TypeOK, HoldsWhenItShould, LockedUnchanged, SnapshotFresh,
                OneOwner, RetryBudget, RowsWritten, Holding, Executing, Statuses,
                Points, table, faults
  <1> QED
    BY <1>1, <1>2, <1>3, <1>4 DEF Next

LEMMA Invariance == Spec => []IInv
  BY InitIInv, StepIInv, PTL DEF Spec

----------------------------------------------------------------------------

(* Every variable of the queue and of its workers keeps its type.          *)
THEOREM TypeCorrect == Spec => []TypeOK
  BY Invariance, PTL DEF IInv

(* No job is ever in the hands of two workers: claims with SKIP LOCKED     *)
(* exclude each other, whatever is killed or retried in between.           *)
THEOREM Exclusive == Spec => []OneOwner
  BY Invariance, PTL DEF IInv

(* A worker that marks a job marks a row that is still running with the    *)
(* attempts the worker read when it claimed it.                            *)
THEOREM MarksAreFresh == Spec => []SnapshotFresh
  BY Invariance, PTL DEF IInv

(* No job is retried beyond worker_max_attempts, and none is dead-lettered *)
(* with attempts left unless its type has no handler.                      *)
THEOREM WithinBudget == Spec => []RetryBudget
  BY Invariance, PTL DEF IInv

----------------------------------------------------------------------------

(* The steps that write to a row, and what state they find it in.          *)
LEMMA RowWrites ==
  ASSUME IInv, [Next]_vars, NEW j \in Job,
         ~(status'[j] = status[j] /\ attempts'[j] = attempts[j])
  PROVE  status[j] \in {"absent", "inserting", "pending", "running"}
  <1>1. CASE \E i \in Job : Produce(i)
    BY <1>1 DEF Produce, InsertBegin, InsertCommit, IInv, TypeOK
  <1>2. ASSUME NEW w \in Worker, Run(w)
        PROVE  status[j] \in {"pending", "running"}
    <2>1. CASE ClaimCommit(w)
      <3>1. pc[w] = "locked" /\ held[w] \in Job
        BY <2>1 DEF ClaimCommit, Goto, IInv, TypeOK, HoldsWhenItShould, Holding
      <3>2. held[w] = j
        BY <2>1, <3>1 DEF ClaimCommit, IInv, TypeOK
      <3> QED
        BY <3>1, <3>2 DEF IInv, LockedUnchanged
    <2>2. CASE NoHandler(w) \/ MarkDone(w) \/ MarkFailed(w)
      <3>1. Executing(w) /\ held[w] \in Job
        BY <2>2 DEF NoHandler, MarkDone, MarkFailed, Goto, Executing, IInv, TypeOK,
                    HoldsWhenItShould, Holding
      <3>2. held[w] = j
        BY <2>2, <3>1 DEF NoHandler, MarkDone, MarkFailed, Mark, IInv, TypeOK
      <3> QED
        BY <3>1, <3>2 DEF IInv, SnapshotFresh
    <2>3. CASE \/ LoopTest(w) \/ ClaimLock(w) \/ ClaimNothing(w) \/ Wake(w)
               \/ HandlerReturns(w) \/ HandlerRaises(w)
      BY <2>3 DEF LoopTest, ClaimLock, ClaimNothing, Wake, HandlerReturns,
                  HandlerRaises, table
    <2> QED
      BY <1>2, <2>1, <2>2, <2>3 DEF Run
  <1>3. CASE \E w \in Worker : Signal(w) \/ Crash(w) \/ Restart(w)
    BY <1>3 DEF Signal, Crash, Restart, table
  <1>4. CASE UNCHANGED vars
    BY <1>4 DEF vars
  <1> QED
    BY <1>1, <1>2, <1>3, <1>4 DEF Next

(* A done or dead job is never written again: whoever marks a job marks a  *)
(* running one, whoever claims a job claims a pending one.                 *)
THEOREM TerminalIsFinal == Spec => TerminalStaysTerminal
  <1> DEFINE Final == \A j \in Job : status[j] \in {"done", "dead"} =>
                        status'[j] = status[j] /\ attempts'[j] = attempts[j]
  <1>1. IInv /\ [Next]_vars => [Final]_vars
    BY RowWrites
  <1> QED
    BY <1>1, Invariance, PTL DEF Spec, TerminalStaysTerminal

----------------------------------------------------------------------------
(* Orphans.                                                                *)

Orphans == {j \in Job : Orphan(j)}

(* Only Crash makes an orphan, and it makes at most one: the job that the  *)
(* killed worker had.                                                      *)
LEMMA OrphanStep ==
  ASSUME IInv, [Next]_vars
  PROVE  \/ Orphans' \subseteq Orphans /\ crashes' = crashes
         \/ \E x : Orphans' \subseteq Orphans \cup {x} /\ crashes' = crashes + 1
  <1>1. CASE \E i \in Job : Produce(i)
    BY <1>1 DEF Produce, InsertBegin, InsertCommit, IInv, TypeOK, Orphans, Orphan, faults
  <1>2. ASSUME NEW w \in Worker, Run(w)
        PROVE  Orphans' \subseteq Orphans /\ crashes' = crashes
    <2>1. CASE ClaimLock(w)
      <3>1. pc[w] = "claiming" /\ held[w] = NoJob
        BY <2>1 DEF ClaimLock, Goto, IInv, TypeOK, HoldsWhenItShould, Holding, Executing
      <3>2. PICK i \in Claimable : held' = [held EXCEPT ![w] = i]
        BY <2>1 DEF ClaimLock
      <3> QED
        BY <2>1, <3>1, <3>2, ConstantsAssumption
        DEF ClaimLock, IInv, TypeOK, Orphans, Orphan, table, faults
    <2>2. CASE ClaimCommit(w)
      BY <2>2, ConstantsAssumption
      DEF ClaimCommit, Goto, IInv, TypeOK, HoldsWhenItShould, Holding, Orphans,
          Orphan, faults
    <2>3. ASSUME NEW m \in {"done", "dead", "pending"}, Executing(w), Mark(held[w], m),
                 Drop(w), UNCHANGED faults
          PROVE  Orphans' \subseteq Orphans /\ crashes' = crashes
      BY <2>3, ConstantsAssumption
      DEF Mark, Drop, IInv, TypeOK, HoldsWhenItShould, Holding, Orphans, Orphan, faults
    <2>4. CASE NoHandler(w) \/ MarkDone(w) \/ MarkFailed(w)
      BY <2>3, <2>4 DEF NoHandler, MarkDone, MarkFailed, Goto, Executing, FailedStatus
    <2>5. CASE \/ LoopTest(w) \/ ClaimNothing(w) \/ Wake(w)
               \/ HandlerReturns(w) \/ HandlerRaises(w)
      BY <2>5 DEF LoopTest, ClaimNothing, Wake, HandlerReturns, HandlerRaises, table,
                  Orphans, Orphan, faults
    <2> QED
      BY <1>2, <2>1, <2>2, <2>4, <2>5 DEF Run
  <1>3. ASSUME NEW w \in Worker, Crash(w)
        PROVE  Orphans' \subseteq Orphans \cup {held[w]} /\ crashes' = crashes + 1
    BY <1>3 DEF Crash, Drop, table, IInv, TypeOK, Orphans, Orphan
  <1>4. CASE \E w \in Worker : Signal(w) \/ Restart(w)
    BY <1>4 DEF Signal, Restart, table, Orphans, Orphan, faults
  <1>5. CASE UNCHANGED vars
    BY <1>5 DEF vars, Orphans, Orphan
  <1> QED
    BY <1>1, <1>2, <1>3, <1>4, <1>5 DEF Next

(* Each kill strands at most one job, and nothing else strands any.        *)
THEOREM OrphansBounded == Spec => []OrphansBoundedByCrashes
  <1> DEFINE Bounded == IsFiniteSet(Orphans) /\ Cardinality(Orphans) <= crashes
  <1>1. Init => Bounded
    <2> SUFFICES ASSUME Init
                 PROVE  Bounded
      OBVIOUS
    <2>1. Orphans = {}
      BY DEF Init, Orphans, Orphan
    <2> QED
      BY <2>1, FS_EmptySet DEF Init
  <1>2. Bounded /\ IInv /\ [Next]_vars => Bounded'
    <2> SUFFICES ASSUME Bounded, IInv, [Next]_vars
                 PROVE  Bounded'
      OBVIOUS
    <2>1. Cardinality(Orphans) \in Nat /\ crashes \in Nat
      BY FS_CardinalityType, ConstantsAssumption DEF IInv, TypeOK
    <2>2. CASE Orphans' \subseteq Orphans /\ crashes' = crashes
      <3>1. IsFiniteSet(Orphans') /\ Cardinality(Orphans') <= Cardinality(Orphans)
        BY <2>2, FS_Subset
      <3>2. Cardinality(Orphans') \in Nat
        BY <3>1, FS_CardinalityType
      <3> QED
        BY <2>1, <2>2, <3>1, <3>2
    <2>3. ASSUME NEW x, Orphans' \subseteq Orphans \cup {x}, crashes' = crashes + 1
          PROVE  Bounded'
      <3>1. /\ IsFiniteSet(Orphans \cup {x})
            /\ Cardinality(Orphans \cup {x}) <= Cardinality(Orphans) + 1
            /\ Cardinality(Orphans \cup {x}) \in Nat
        <4>1. /\ IsFiniteSet(Orphans \cup {x})
              /\ Cardinality(Orphans \cup {x}) =
                   IF x \in Orphans THEN Cardinality(Orphans) ELSE Cardinality(Orphans) + 1
          BY FS_AddElement
        <4> HIDE DEF Bounded
        <4> QED
          BY <2>1, <4>1
      <3>2. /\ IsFiniteSet(Orphans')
            /\ Cardinality(Orphans') <= Cardinality(Orphans \cup {x})
            /\ Cardinality(Orphans') \in Nat
        BY <2>3, <3>1, FS_Subset, FS_CardinalityType
      <3> QED
        BY <2>1, <2>3, <3>1, <3>2
    <2> QED
      BY <2>2, <2>3, OrphanStep
  <1>3. Bounded => OrphansBoundedByCrashes
    BY DEF OrphansBoundedByCrashes, Orphans
  <1> QED
    BY <1>1, <1>2, <1>3, Invariance, PTL DEF Spec

----------------------------------------------------------------------------
(* Refinement of QueueContract.                                            *)

phaseBar == [j \in Job |-> Phase(j)]

(* A job is reserved when it is pending under a claim's lock.              *)
LEMMA WaitingIsClaimable ==
  ASSUME TypeOK
  PROVE  Contract!Waiting = Claimable
  BY DEF Contract!Waiting, Claimable, Phase, TypeOK, Statuses

(* Steps that leave the phases, the rows and the attempts alone stutter.   *)
LEMMA Stutter ==
  ASSUME status' = status, Locked' = Locked, row' = row, attempts' = attempts
  PROVE  UNCHANGED Contract!vars
  BY DEF Contract!vars, Phase

(* A worker that neither enters nor leaves the point "locked" leaves the   *)
(* locks as they are.                                                      *)
LEMMA SameLocks ==
  ASSUME TypeOK, NEW w \in Worker, pc[w] # "locked", pc'[w] # "locked",
         \A v \in Worker : v # w => pc'[v] = pc[v] /\ held'[v] = held[v]
  PROVE  Locked' = Locked
  BY DEF Locked

LEMMA ContractProduce ==
  ASSUME IInv, NEW j \in Job, Produce(j)
  PROVE  [Contract!Next]_(Contract!vars)
  <1>0. Locked' = Locked
    BY DEF Produce, InsertBegin, InsertCommit, Locked
  <1>1. ASSUME NEW k \in Kind, NEW p \in Priority, InsertBegin(j, k, p)
        PROVE  Contract!Draw(j)
    <2>1. phaseBar' = phaseBar
      BY <1>0, <1>1 DEF InsertBegin, phaseBar, Phase, IInv, TypeOK, Statuses
    <2>2. phaseBar[j] = "unborn"
      BY <1>1 DEF InsertBegin, phaseBar, Phase
    <2>3. row[j] = NoRow
      BY <1>1 DEF InsertBegin, IInv, RowsWritten
    <2>4. row'[j] \in Row /\ row' = [row EXCEPT ![j] = row'[j]]
      BY <1>1 DEF InsertBegin, IInv, TypeOK, Row
    <2> QED
      BY <1>1, <2>1, <2>2, <2>3, <2>4 DEF InsertBegin, Contract!Draw, phaseBar
  <1>2. ASSUME InsertCommit(j)
        PROVE  Contract!Put(j)
    <2>1. phaseBar[j] = "unborn"
      BY <1>2 DEF InsertCommit, phaseBar, Phase
    <2>2. row[j] # NoRow
      BY <1>2 DEF InsertCommit, IInv, RowsWritten
    <2>3. j \notin Locked'
      BY <1>0, <1>2 DEF InsertCommit, Locked, IInv, LockedUnchanged
    <2>4. phaseBar' = [phaseBar EXCEPT ![j] = "waiting"]
      BY <1>0, <1>2, <2>3 DEF InsertCommit, phaseBar, Phase, IInv, TypeOK, Statuses
    <2> QED
      BY <1>2, <2>1, <2>2, <2>4 DEF InsertCommit, Contract!Put, phaseBar
  <1> QED
    BY <1>1, <1>2 DEF Produce, Contract!Next

LEMMA ContractReserve ==
  ASSUME IInv, NEW w \in Worker, ClaimLock(w)
  PROVE  [Contract!Next]_(Contract!vars)
  <1>1. PICK j \in Claimable :
          /\ ClaimOrder(j)
          /\ held' = [held EXCEPT ![w] = j]
    BY DEF ClaimLock
  <1>2. j \in Job /\ status[j] = "pending" /\ j \notin Locked
    BY DEF Claimable
  <1>3. pc[w] = "claiming" /\ pc' = [pc EXCEPT ![w] = "locked"]
    BY DEF ClaimLock, Goto
  <1>4. Locked' = Locked \cup {j}
    BY <1>1, <1>3 DEF Locked, IInv, TypeOK
  <1>5. phaseBar' = [phaseBar EXCEPT ![j] = "reserved"]
    BY <1>2, <1>4 DEF ClaimLock, table, phaseBar, Phase, IInv, TypeOK, Statuses
  <1>6. j \in Contract!Foremost
    BY <1>1, WaitingIsClaimable
    DEF IInv, Contract!Foremost, ClaimOrder, Contract!Before, Before
  <1>7. Contract!Reserve(j)
    BY <1>5, <1>6 DEF ClaimLock, table, Contract!Reserve, phaseBar
  <1> QED
    BY <1>2, <1>7 DEF Contract!Next

LEMMA ContractStart ==
  ASSUME IInv, NEW w \in Worker, ClaimCommit(w)
  PROVE  [Contract!Next]_(Contract!vars)
  <1> DEFINE j == held[w]
  <1>1. pc[w] = "locked" /\ pc' = [pc EXCEPT ![w] = "dispatch"]
    BY DEF ClaimCommit, Goto
  <1>2. j \in Job /\ j # NoJob /\ status[j] = "pending" /\ j \in Locked
    BY <1>1 DEF IInv, TypeOK, HoldsWhenItShould, Holding, LockedUnchanged, Locked
  <1>3. Locked' = Locked \ {j}
    BY <1>1, <1>2 DEF ClaimCommit, Locked, IInv, TypeOK, OneOwner
  <1>4. status' = [status EXCEPT ![j] = "running"]
    BY DEF ClaimCommit
  <1>5. phaseBar' = [phaseBar EXCEPT ![j] = "active"]
    BY <1>2, <1>3, <1>4 DEF phaseBar, Phase, IInv, TypeOK, Statuses
  <1>6. phaseBar[j] = "reserved" /\ attempts[j] < MaxAttempts
    BY <1>2 DEF phaseBar, Phase, IInv, RetryBudget
  <1>7. Contract!Start(j)
    BY <1>5, <1>6 DEF ClaimCommit, Contract!Start, phaseBar
  <1> QED
    BY <1>2, <1>7 DEF Contract!Next

(* A mark ends the active phase of the worker's job.                       *)
LEMMA ContractVerdict ==
  ASSUME IInv, NEW w \in Worker, NoHandler(w) \/ MarkDone(w) \/ MarkFailed(w)
  PROVE  [Contract!Next]_(Contract!vars)
  <1> USE ConstantsAssumption
  <1> DEFINE j == held[w]
  <1>1. Executing(w) /\ pc' = [pc EXCEPT ![w] = "loop"]
    BY DEF NoHandler, MarkDone, MarkFailed, Goto, Executing
  <1>2. j \in Job /\ j # NoJob /\ status[j] = "running"
    BY <1>1 DEF IInv, TypeOK, HoldsWhenItShould, Holding, SnapshotFresh
  <1>3. Locked' = Locked
    <2>1. pc[w] # "locked" /\ pc'[w] # "locked"
      BY <1>1 DEF Executing, IInv, TypeOK
    <2>2. \A v \in Worker : v # w => pc'[v] = pc[v] /\ held'[v] = held[v]
      BY <1>1 DEF NoHandler, MarkDone, MarkFailed, Drop, IInv, TypeOK
    <2> QED
      BY <2>1, <2>2, SameLocks DEF IInv
  <1>4. j \notin Locked
    BY <1>2 DEF Locked, IInv, LockedUnchanged
  <1>5. row' = row /\ attempts' = attempts
    BY DEF NoHandler, MarkDone, MarkFailed
  <1>6. phaseBar[j] = "active"
    BY <1>2 DEF phaseBar, Phase
  <1>7. CASE NoHandler(w)
    <2>1. status' = [status EXCEPT ![j] = "dead"]
      BY <1>7 DEF NoHandler, Mark, FailedStatus
    <2>2. phaseBar' = [phaseBar EXCEPT ![j] = "buried"]
      BY <1>2, <1>3, <2>1 DEF phaseBar, Phase, IInv, TypeOK, Statuses
    <2>3. Contract!Bury(j)
      BY <1>5, <1>6, <2>2 DEF Contract!Bury, phaseBar
    <2> QED
      BY <1>2, <2>3 DEF Contract!Next
  <1>8. CASE MarkDone(w)
    <2>1. status' = [status EXCEPT ![j] = "done"]
      BY <1>8 DEF MarkDone, Mark
    <2>2. phaseBar' = [phaseBar EXCEPT ![j] = "finished"]
      BY <1>2, <1>3, <2>1 DEF phaseBar, Phase, IInv, TypeOK, Statuses
    <2>3. Contract!Finish(j)
      BY <1>5, <1>6, <2>2 DEF Contract!Finish, phaseBar
    <2> QED
      BY <1>2, <2>3 DEF Contract!Next
  <1>9. CASE MarkFailed(w)
    <2>1. seen[w] = attempts[j] /\ attempts[j] \in 0..MaxAttempts
      BY <1>1, <1>2 DEF IInv, TypeOK, SnapshotFresh
    <2>2. CASE attempts[j] = MaxAttempts
      <3>1. status' = [status EXCEPT ![j] = "dead"]
        BY <1>9, <2>1, <2>2 DEF MarkFailed, Mark, FailedStatus
      <3>2. phaseBar' = [phaseBar EXCEPT ![j] = "buried"]
        BY <1>2, <1>3, <3>1 DEF phaseBar, Phase, IInv, TypeOK, Statuses
      <3>3. Contract!Bury(j)
        BY <1>5, <1>6, <3>2 DEF Contract!Bury, phaseBar
      <3> QED
        BY <1>2, <3>3 DEF Contract!Next
    <2>3. CASE attempts[j] < MaxAttempts
      <3>1. status' = [status EXCEPT ![j] = "pending"]
        <4>1. FailedStatus(seen[w]) = "pending"
          BY <2>1, <2>3 DEF FailedStatus
        <4> QED
          BY <1>9, <4>1 DEF MarkFailed, Mark
      <3>2. phaseBar' = [phaseBar EXCEPT ![j] = "waiting"]
        BY <1>2, <1>3, <1>4, <3>1 DEF phaseBar, Phase, IInv, TypeOK, Statuses
      <3>3. Contract!GiveBack(j)
        BY <1>5, <1>6, <2>3, <3>2 DEF Contract!GiveBack, phaseBar
      <3> QED
        BY <1>2, <3>3 DEF Contract!Next
    <2> QED
      BY <2>1, <2>2, <2>3
  <1> QED
    BY <1>7, <1>8, <1>9

(* A kill in the middle of a claim gives the job back; any other kill is   *)
(* not seen by the contract, the job of a dead worker stays active.        *)
LEMMA ContractCrash ==
  ASSUME IInv, NEW w \in Worker, Crash(w)
  PROVE  [Contract!Next]_(Contract!vars)
  <1>1. status' = status /\ row' = row /\ attempts' = attempts
    BY DEF Crash, table
  <1>2. pc' = [pc EXCEPT ![w] = "down"] /\ held' = [held EXCEPT ![w] = NoJob]
    BY DEF Crash, Drop
  <1>3. CASE pc[w] = "locked"
    <2> DEFINE j == held[w]
    <2>1. j \in Job /\ j # NoJob /\ status[j] = "pending" /\ j \in Locked
      BY <1>3 DEF IInv, TypeOK, HoldsWhenItShould, Holding, LockedUnchanged, Locked
    <2>2. Locked' = Locked \ {j}
      BY <1>2, <1>3, <2>1 DEF Locked, IInv, TypeOK, OneOwner
    <2>3. phaseBar' = [phaseBar EXCEPT ![j] = "waiting"]
      BY <1>1, <2>1, <2>2 DEF phaseBar, Phase, IInv, TypeOK, Statuses
    <2>4. phaseBar[j] = "reserved"
      BY <2>1 DEF phaseBar, Phase
    <2>5. Contract!Unreserve(j)
      BY <1>1, <2>3, <2>4 DEF Contract!Unreserve, phaseBar
    <2> QED
      BY <2>1, <2>5 DEF Contract!Next
  <1>4. CASE pc[w] # "locked"
    <2>1. Locked' = Locked
      BY <1>2, <1>4, SameLocks DEF IInv, TypeOK
    <2> QED
      BY <1>1, <2>1, Stutter
  <1> QED
    BY <1>3, <1>4

(* The other steps of a worker are its own business.                       *)
LEMMA ContractStutter ==
  ASSUME IInv, NEW w \in Worker,
         \/ LoopTest(w) \/ ClaimNothing(w) \/ Wake(w)
         \/ HandlerReturns(w) \/ HandlerRaises(w)
         \/ Signal(w) \/ Restart(w)
  PROVE  UNCHANGED Contract!vars
  <1>1. status' = status /\ row' = row /\ attempts' = attempts /\ held' = held
    BY DEF LoopTest, ClaimNothing, Wake, HandlerReturns, HandlerRaises, Signal,
           Restart, table
  <1>2. CASE Signal(w)
    BY <1>1, <1>2, Stutter DEF Signal, Locked
  <1>3. CASE ~Signal(w)
    <2>1. pc[w] # "locked" /\ pc'[w] # "locked"
      BY <1>3 DEF LoopTest, ClaimNothing, Wake, HandlerReturns, HandlerRaises,
                  Restart, Goto, Alive, IInv, TypeOK
    <2>2. \A v \in Worker : v # w => pc'[v] = pc[v]
      BY <1>3 DEF LoopTest, ClaimNothing, Wake, HandlerReturns, HandlerRaises,
                  Restart, Goto, IInv, TypeOK
    <2> QED
      BY <1>1, <2>1, <2>2, SameLocks, Stutter DEF IInv
  <1> QED
    BY <1>2, <1>3

(* The queue and its workers implement the contract.                       *)
THEOREM Implements == Spec => ImplementsContract
  <1>1. Init => Contract!Init
    BY DEF Init, Contract!Init, Phase
  <1>2. IInv /\ [Next]_vars => [Contract!Next]_(Contract!vars)
    <2> SUFFICES ASSUME IInv, [Next]_vars
                 PROVE  [Contract!Next]_(Contract!vars)
      OBVIOUS
    <2>1. CASE UNCHANGED vars
      BY <2>1, Stutter DEF vars, Locked
    <2> QED
      BY <2>1, ContractProduce, ContractReserve, ContractStart, ContractVerdict,
         ContractCrash, ContractStutter
      DEF Next, Run
  <1> QED
    BY <1>1, <1>2, Invariance, PTL DEF Spec, ImplementsContract, Contract!Spec

=============================================================================
