-------------------------- MODULE EnginePoolProofs --------------------------
(* Proofs about EnginePool, for any number of threads, any batch and any    *)
(* number of faults.                                                        *)
(*                                                                          *)
(* The argument has three parts.  Work: a position is drawn by one thread,  *)
(* and until it is written that thread has it, or the batch has failed.     *)
(* Lives: where a thread is tells what its process is and which pipe ends   *)
(* it has.  Ends: an engine inherits ends only of threads that have not     *)
(* forked yet, and such threads have no engine that could hold any.         *)
EXTENDS EnginePool, TLAPS

(* Which positions are in whose hands.                                      *)
Hands ==
  /\ \A t \in Thread :
       /\ item[t] <= cursor
       /\ pc[t] \in {"check", "ask", "bury"} => item[t] > 0
       /\ pc[t] \in {"ask", "bury"} => item[t] <= size
       /\ item[t] \in Slots => evals[item[t]] = 0
  /\ \A t, u \in Thread : t # u /\ item[t] = item[u] => item[t] = 0
  /\ \A i \in Slots : evals[i] \in {0, 1} /\ (i > cursor => evals[i] = 0)

(* What was drawn is not forgotten, and nobody stops early.                 *)
Work ==
  /\ \A i \in Slots : i <= cursor /\ i <= size /\ evals[i] = 0 =>
       \/ failed
       \/ \E t \in Thread : item[t] = i /\ pc[t] \in {"check", "ask", "bury", "throw"}
  /\ \A t \in Thread :
       /\ pc[t] = "out" <=> t > size
       /\ pc[t] \in {"reap", "end"} => failed \/ cursor > size
       /\ status # "running" => pc[t] \in {"out", "end"}
  /\ status = "returned" => ~failed

(* The error is of the thread that failed first, which has ended.           *)
Reported == (failed <=> error # 0) /\ (failed => pc[error] = "end")

(* A process and its pipes, by the place of the thread.                     *)
Lifetimes ==
  \A t \in Thread :
    /\ pc[t] \in {"out", "pipe"} => ends[t] = 0
    /\ pc[t] \in {"out", "pipe", "seal", "fork"} => engine[t] = "gone"
    /\ pc[t] \in {"greet", "draw", "check", "ask"} => ends[t] = 2
    /\ pc[t] \in {"reap", "bury"} => ends[t] = 0
    /\ pc[t] \in {"throw", "end"} => engine[t] \in {"gone", "dead"}
    /\ pc[t] \in {"throw", "end"} /\ engine[t] = "dead" => ends[t] = 2
    /\ pc[t] = "end" => failed \/ (ends[t] = 0 /\ engine[t] = "gone")

(* Only a running engine holds the ends of others.                          *)
Inherited == \A t, u \in Thread : <<t, u>> \in foreign => Running(t)

IInv == TypeOK /\ Hands /\ Work /\ Reported /\ Lifetimes /\ Inherited /\ NoCircleOfEnds

-----------------------------------------------------------------------------

LEMMA InitIInv == Init => IInv
  <1> USE ThreadsAssumption, WorkAssumption, FaultsAssumption
  <1> SUFFICES ASSUME Init PROVE IInv
    OBVIOUS
  <1>1. TypeOK
    <2>1. status \in {"idle", "running", "returned", "threw"} /\ error \in {0} \cup Thread
      BY DEF Init
    <2>2. size \in 0 .. MaxWork /\ cursor \in Nat /\ faults \in 0 .. MaxFaults
      BY DEF Init
    <2>3. failed \in BOOLEAN
      BY DEF Init
    <2>4. evals \in [Slots -> Nat] /\ item \in [Thread -> Nat]
      BY DEF Init
    <2>5. pc \in [Thread -> Points] /\ engine \in [Thread -> Lives]
      BY DEF Init, Points, Lives
    <2>6. said \in [Thread -> BOOLEAN] /\ ends \in [Thread -> {0, 2, 4}]
      BY DEF Init
    <2>7. foreign \subseteq Thread \X Thread
      BY DEF Init
    <2> QED
      BY <2>1, <2>2, <2>3, <2>4, <2>5, <2>6, <2>7 DEF TypeOK
  <1>2. Hands
    BY DEF Init, Hands, Slots, Thread
  <1>3. Work
    BY DEF Init, Work, Slots, Thread
  <1>4. Reported /\ Lifetimes /\ Inherited /\ NoCircleOfEnds
    BY DEF Init, Reported, Lifetimes, Inherited, NoCircleOfEnds
  <1> QED
    BY <1>1, <1>2, <1>3, <1>4 DEF IInv

LEMMA BeginIInv == IInv /\ Begin => IInv'
  <1> USE ThreadsAssumption, WorkAssumption, FaultsAssumption
  <1> SUFFICES ASSUME IInv, Begin PROVE IInv'
    OBVIOUS
  <1>1. PICK n \in 0 .. MaxWork :
          size' = n /\ pc' = [t \in Thread |-> IF t <= n THEN "pipe" ELSE "out"]
    BY DEF Begin
  <1>2. TypeOK'
    <2>1. (status \in {"idle", "running", "returned", "threw"} /\ error \in {0} \cup Thread)'
      BY DEF Begin
    <2>2. (size \in 0 .. MaxWork /\ cursor \in Nat /\ faults \in 0 .. MaxFaults)'
      BY <1>1 DEF Begin
    <2>3. (failed \in BOOLEAN)'
      BY DEF Begin
    <2>4. (evals \in [Slots -> Nat] /\ item \in [Thread -> Nat])'
      BY DEF Begin
    <2>5. (pc \in [Thread -> Points] /\ engine \in [Thread -> Lives])'
      BY <1>1 DEF Begin, Points, Lives
    <2>6. (said \in [Thread -> BOOLEAN] /\ ends \in [Thread -> {0, 2, 4}])'
      BY DEF Begin
    <2>7. (foreign \subseteq Thread \X Thread)'
      BY DEF Begin
    <2> QED
      BY <2>1, <2>2, <2>3, <2>4, <2>5, <2>6, <2>7 DEF TypeOK
  <1>3. Hands'
    BY <1>1 DEF Begin, Hands, Slots, Thread
  <1>4. Work'
    BY <1>1 DEF Begin, Work, Slots, Thread
  <1>5. Reported' /\ Lifetimes' /\ Inherited' /\ NoCircleOfEnds'
    BY <1>1 DEF Begin, Reported, Lifetimes, Inherited, NoCircleOfEnds
  <1> QED
    BY <1>2, <1>3, <1>4, <1>5 DEF IInv

LEMMA FinishIInv == IInv /\ Finish => IInv'
  BY DEF IInv, TypeOK, Hands, Work, Reported, Lifetimes, Inherited, NoCircleOfEnds, Finish,
         shared, procs, Running

(* Any step but the beginning and the end of a batch.                       *)
Act(t) == Step(t) \/ Respond(t) \/ Breaks(t) \/ Killed(t)

LEMMA TypeStep ==
  ASSUME IInv, NEW t \in Thread, Act(t)
  PROVE  TypeOK'
  <1> USE FaultsAssumption DEF IInv, TypeOK, Points, Lives, Go, batch, shared, procs
  <1>1. CASE Pipe(t)
    BY <1>1 DEF Pipe
  <1>2. CASE PipeFails(t)
    BY <1>2 DEF PipeFails
  <1>3. CASE CloseOnExec(t)
    BY <1>3 DEF CloseOnExec
  <1>4. CASE Fork(t)
    BY <1>4 DEF Fork
  <1>5. CASE ForkFails(t)
    BY <1>5 DEF ForkFails
  <1>6. CASE Hear(t)
    BY <1>6 DEF Hear
  <1>7. CASE StartFails(t)
    BY <1>7 DEF StartFails, Broken
  <1>8. CASE Draw(t)
    BY <1>8 DEF Draw
  <1>9. CASE Check(t)
    BY <1>9 DEF Check, Destroy
  <1>10. CASE Store(t)
    <2>1. item[t] \in Slots
      BY <1>10, WorkAssumption DEF Store, Hands, Slots
    <2>2. evals' \in [Slots -> Nat]
      BY <1>10, <2>1 DEF Store
    <2> QED
      BY <1>10, <2>2 DEF Store
  <1>11. CASE AnalyseFails(t)
    BY <1>11 DEF AnalyseFails, Destroy, Broken
  <1>12. CASE Reap(t)
    BY <1>12 DEF Reap
  <1>13. CASE Catch(t)
    BY <1>13 DEF Catch
  <1>14. CASE Answer(t)
    BY <1>14 DEF Answer
  <1>15. CASE Quit(t)
    BY <1>15 DEF Quit, Exit
  <1>16. CASE Breaks(t)
    BY <1>16 DEF Breaks, Exit
  <1>17. CASE Killed(t)
    BY <1>17 DEF Killed, Exit
  <1> QED
    BY <1>1, <1>2, <1>3, <1>4, <1>5, <1>6, <1>7, <1>8, <1>9,
       <1>10, <1>11, <1>12, <1>13, <1>14, <1>15, <1>16, <1>17
    DEF Act, Step, Respond

(* A position leaves the cursor for one hand, and that hand writes it once. *)
LEMMA HandsStep ==
  ASSUME IInv, NEW t \in Thread, Act(t)
  PROVE  Hands'
  <1> USE WorkAssumption DEF IInv, TypeOK, Hands, Slots, Thread, Go, batch, shared, procs
  <1>1. CASE Pipe(t)
    BY <1>1 DEF Pipe
  <1>2. CASE PipeFails(t)
    BY <1>2 DEF PipeFails
  <1>3. CASE CloseOnExec(t)
    BY <1>3 DEF CloseOnExec
  <1>4. CASE Fork(t)
    BY <1>4 DEF Fork
  <1>5. CASE ForkFails(t)
    BY <1>5 DEF ForkFails
  <1>6. CASE Hear(t)
    BY <1>6 DEF Hear
  <1>7. CASE StartFails(t)
    BY <1>7 DEF StartFails, Broken
  <1>8. CASE Draw(t)
    BY <1>8 DEF Draw
  <1>9. CASE Check(t)
    <2>1. CASE item[t] > size \/ failed
      <3>1. pc' = [pc EXCEPT ![t] = "reap"]
        BY <1>9, <2>1 DEF Check, Destroy
      <3> QED
        BY <1>9, <2>1, <3>1 DEF Check
    <2>2. CASE ~(item[t] > size \/ failed)
      <3>1. pc' = [pc EXCEPT ![t] = "ask"]
        BY <1>9, <2>2 DEF Check
      <3> QED
        BY <1>9, <2>2, <3>1 DEF Check
    <2> QED
      BY <2>1, <2>2
  <1>10. CASE Store(t)
    BY <1>10 DEF Store
  <1>11. CASE AnalyseFails(t)
    BY <1>11 DEF AnalyseFails, Destroy, Broken
  <1>12. CASE Reap(t)
    BY <1>12 DEF Reap
  <1>13. CASE Catch(t)
    BY <1>13 DEF Catch
  <1>14. CASE Answer(t)
    BY <1>14 DEF Answer
  <1>15. CASE Quit(t)
    BY <1>15 DEF Quit, Exit
  <1>16. CASE Breaks(t)
    BY <1>16 DEF Breaks, Exit
  <1>17. CASE Killed(t)
    BY <1>17 DEF Killed, Exit
  <1> QED
    BY <1>1, <1>2, <1>3, <1>4, <1>5, <1>6, <1>7, <1>8, <1>9,
       <1>10, <1>11, <1>12, <1>13, <1>14, <1>15, <1>16, <1>17
    DEF Act, Step, Respond

LEMMA WorkStep ==
  ASSUME IInv, NEW t \in Thread, Act(t)
  PROVE  Work'
  <1> USE WorkAssumption DEF IInv, TypeOK, Hands, Work, Slots, Go, batch, shared, procs
  <1>1. CASE Pipe(t)
    BY <1>1 DEF Pipe
  <1>2. CASE PipeFails(t)
    BY <1>2 DEF PipeFails
  <1>3. CASE CloseOnExec(t)
    BY <1>3 DEF CloseOnExec
  <1>4. CASE Fork(t)
    BY <1>4 DEF Fork
  <1>5. CASE ForkFails(t)
    BY <1>5 DEF ForkFails
  <1>6. CASE Hear(t)
    BY <1>6 DEF Hear
  <1>7. CASE StartFails(t)
    BY <1>7 DEF StartFails, Broken
  <1>8. CASE Draw(t)
    <2>1. ASSUME NEW i \in Slots, i <= cursor', i <= size', evals'[i] = 0, ~failed'
          PROVE  \E u \in Thread : item'[u] = i /\ pc'[u] \in {"check", "ask", "bury", "throw"}
      <3>1. CASE i = cursor + 1
        BY <1>8, <3>1 DEF Draw
      <3>2. CASE i # cursor + 1
        <4>1. PICK u \in Thread : item[u] = i /\ pc[u] \in {"check", "ask", "bury", "throw"}
          BY <1>8, <2>1, <3>2 DEF Draw
        <4>2. item'[u] = item[u] /\ pc'[u] = pc[u]
          BY <1>8, <4>1 DEF Draw
        <4> QED
          BY <4>1, <4>2
      <3> QED
        BY <3>1, <3>2
    <2>2. \A u \in Thread :
            /\ pc'[u] = "out" <=> u > size'
            /\ pc'[u] \in {"reap", "end"} => failed' \/ cursor' > size'
            /\ status' # "running" => pc'[u] \in {"out", "end"}
      BY <1>8 DEF Draw
    <2>3. status' = "returned" => ~failed'
      BY <1>8 DEF Draw
    <2> QED
      BY <2>1, <2>2, <2>3
  <1>9. CASE Check(t)
    <2>1. CASE item[t] > size \/ failed
      <3>1. pc' = [pc EXCEPT ![t] = "reap"]
        BY <1>9, <2>1 DEF Check, Destroy
      <3> QED
        BY <1>9, <2>1, <3>1 DEF Check
    <2>2. CASE ~(item[t] > size \/ failed)
      <3>1. pc' = [pc EXCEPT ![t] = "ask"]
        BY <1>9, <2>2 DEF Check
      <3> QED
        BY <1>9, <2>2, <3>1 DEF Check
    <2> QED
      BY <2>1, <2>2
  <1>10. CASE Store(t)
    BY <1>10 DEF Store
  <1>11. CASE AnalyseFails(t)
    BY <1>11 DEF AnalyseFails, Destroy, Broken
  <1>12. CASE Reap(t)
    <2>1. CASE pc[t] = "reap"
      BY <1>12, <2>1 DEF Reap
    <2>2. CASE pc[t] = "bury"
      BY <1>12, <2>2 DEF Reap
    <2> QED
      BY <1>12, <2>1, <2>2 DEF Reap
  <1>13. CASE Catch(t)
    BY <1>13 DEF Catch
  <1>14. CASE Answer(t)
    BY <1>14 DEF Answer
  <1>15. CASE Quit(t)
    BY <1>15 DEF Quit, Exit
  <1>16. CASE Breaks(t)
    BY <1>16 DEF Breaks, Exit
  <1>17. CASE Killed(t)
    BY <1>17 DEF Killed, Exit
  <1> QED
    BY <1>1, <1>2, <1>3, <1>4, <1>5, <1>6, <1>7, <1>8, <1>9,
       <1>10, <1>11, <1>12, <1>13, <1>14, <1>15, <1>16, <1>17
    DEF Act, Step, Respond

LEMMA ReportedStep ==
  ASSUME IInv, NEW t \in Thread, Act(t)
  PROVE  Reported'
  <1> USE DEF IInv, TypeOK, Reported, Go, batch, shared, procs
  <1>1. CASE Pipe(t)
    BY <1>1 DEF Pipe
  <1>2. CASE PipeFails(t)
    BY <1>2 DEF PipeFails
  <1>3. CASE CloseOnExec(t)
    BY <1>3 DEF CloseOnExec
  <1>4. CASE Fork(t)
    BY <1>4 DEF Fork
  <1>5. CASE ForkFails(t)
    BY <1>5 DEF ForkFails
  <1>6. CASE Hear(t)
    BY <1>6 DEF Hear
  <1>7. CASE StartFails(t)
    BY <1>7 DEF StartFails, Broken
  <1>8. CASE Draw(t)
    BY <1>8 DEF Draw
  <1>9. CASE Check(t)
    BY <1>9 DEF Check, Destroy
  <1>10. CASE Store(t)
    BY <1>10 DEF Store
  <1>11. CASE AnalyseFails(t)
    BY <1>11 DEF AnalyseFails, Destroy, Broken
  <1>12. CASE Reap(t)
    <2>1. pc[t] # "end" /\ \A u \in Thread \ {t} : pc'[u] = pc[u]
      BY <1>12 DEF Reap
    <2> QED
      BY <1>12, <2>1 DEF Reap
  <1>13. CASE Catch(t)
    <2>1. t # 0 /\ pc[t] # "end"
      BY <1>13 DEF Catch, Thread
    <2>2. CASE failed
      BY <1>13, <2>1, <2>2 DEF Catch
    <2>3. CASE ~failed
      BY <1>13, <2>1, <2>3 DEF Catch
    <2> QED
      BY <2>2, <2>3
  <1>14. CASE Answer(t)
    BY <1>14 DEF Answer
  <1>15. CASE Quit(t)
    BY <1>15 DEF Quit, Exit
  <1>16. CASE Breaks(t)
    BY <1>16 DEF Breaks, Exit
  <1>17. CASE Killed(t)
    BY <1>17 DEF Killed, Exit
  <1> QED
    BY <1>1, <1>2, <1>3, <1>4, <1>5, <1>6, <1>7, <1>8, <1>9,
       <1>10, <1>11, <1>12, <1>13, <1>14, <1>15, <1>16, <1>17
    DEF Act, Step, Respond

LEMMA LifetimesStep ==
  ASSUME IInv, NEW t \in Thread, Act(t)
  PROVE  Lifetimes'
  <1> USE DEF IInv, TypeOK, Work, Lifetimes, Go, batch, shared, procs
  <1>1. CASE Pipe(t)
    BY <1>1 DEF Pipe
  <1>2. CASE PipeFails(t)
    BY <1>2 DEF PipeFails
  <1>3. CASE CloseOnExec(t)
    BY <1>3 DEF CloseOnExec
  <1>4. CASE Fork(t)
    BY <1>4 DEF Fork
  <1>5. CASE ForkFails(t)
    BY <1>5 DEF ForkFails
  <1>6. CASE Hear(t)
    BY <1>6 DEF Hear
  <1>7. CASE StartFails(t)
    BY <1>7 DEF StartFails, Broken
  <1>8. CASE Draw(t)
    BY <1>8 DEF Draw
  <1>9. CASE Check(t)
    BY <1>9 DEF Check, Destroy
  <1>10. CASE Store(t)
    BY <1>10 DEF Store
  <1>11. CASE AnalyseFails(t)
    BY <1>11 DEF AnalyseFails, Destroy, Broken
  <1>12. CASE Reap(t)
    BY <1>12 DEF Reap
  <1>13. CASE Catch(t)
    BY <1>13 DEF Catch
  <1>14. CASE Answer(t)
    BY <1>14 DEF Answer
  <1>15. CASE Quit(t)
    BY <1>15 DEF Quit, Exit
  <1>16. CASE Breaks(t)
    BY <1>16 DEF Breaks, Exit
  <1>17. CASE Killed(t)
    BY <1>17 DEF Killed, Exit
  <1> QED
    BY <1>1, <1>2, <1>3, <1>4, <1>5, <1>6, <1>7, <1>8, <1>9,
       <1>10, <1>11, <1>12, <1>13, <1>14, <1>15, <1>16, <1>17
    DEF Act, Step, Respond

LEMMA InheritedStep ==
  ASSUME IInv, NEW t \in Thread, Act(t)
  PROVE  Inherited'
  <1> USE DEF IInv, TypeOK, Lifetimes, Inherited, Running, Go, batch, shared, procs
  <1>1. CASE Pipe(t)
    BY <1>1 DEF Pipe
  <1>2. CASE PipeFails(t)
    BY <1>2 DEF PipeFails
  <1>3. CASE CloseOnExec(t)
    BY <1>3 DEF CloseOnExec
  <1>4. CASE Fork(t)
    BY <1>4 DEF Fork
  <1>5. CASE ForkFails(t)
    BY <1>5 DEF ForkFails
  <1>6. CASE Hear(t)
    BY <1>6 DEF Hear
  <1>7. CASE StartFails(t)
    BY <1>7 DEF StartFails, Broken
  <1>8. CASE Draw(t)
    BY <1>8 DEF Draw
  <1>9. CASE Check(t)
    BY <1>9 DEF Check, Destroy
  <1>10. CASE Store(t)
    BY <1>10 DEF Store
  <1>11. CASE AnalyseFails(t)
    BY <1>11 DEF AnalyseFails, Destroy, Broken
  <1>12. CASE Reap(t)
    BY <1>12 DEF Reap
  <1>13. CASE Catch(t)
    BY <1>13 DEF Catch
  <1>14. CASE Answer(t)
    BY <1>14 DEF Answer
  <1>15. CASE Quit(t)
    BY <1>15 DEF Quit, Exit
  <1>16. CASE Breaks(t)
    BY <1>16 DEF Breaks, Exit
  <1>17. CASE Killed(t)
    BY <1>17 DEF Killed, Exit
  <1> QED
    BY <1>1, <1>2, <1>3, <1>4, <1>5, <1>6, <1>7, <1>8, <1>9,
       <1>10, <1>11, <1>12, <1>13, <1>14, <1>15, <1>16, <1>17
    DEF Act, Step, Respond

(* Only a fork adds to foreign, and only ends of threads that have not      *)
(* forked: one of those, if the set has any, holds nothing; if it has none, *)
(* the new engine holds nothing of the set.                                 *)
LEMMA EndsStep ==
  ASSUME IInv, NEW t \in Thread, Act(t)
  PROVE  NoCircleOfEnds'
  <1>1. CASE Fork(t)
    <2> SUFFICES ASSUME NEW S \in SUBSET Thread, S # {}
                 PROVE  \E v \in S : \A u \in S : <<v, u>> \notin foreign'
      BY DEF NoCircleOfEnds
    <2>1. /\ pc[t] = "fork"
          /\ foreign' = foreign \cup {<<t, u>> : u \in {v \in Thread : pc[v] = "seal"}}
      BY <1>1 DEF Fork
    <2>2. \A v \in Thread : pc[v] \in {"seal", "fork"} => \A u \in Thread : <<v, u>> \notin foreign
      BY DEF IInv, Lifetimes, Inherited, Running
    <2>3. CASE \E v \in S : pc[v] = "seal"
      <3>1. PICK v \in S : pc[v] = "seal"
        BY <2>3
      <3>2. v # t
        BY <2>1, <3>1
      <3>3. \A u \in S : <<v, u>> \notin foreign'
        BY <2>1, <2>2, <3>1, <3>2
      <3> QED
        BY <3>3
    <2>4. CASE t \in S /\ \A v \in S : pc[v] # "seal"
      <3>1. \A u \in S : <<t, u>> \notin foreign'
        BY <2>1, <2>2, <2>4
      <3> QED
        BY <2>4, <3>1
    <2>5. CASE t \notin S
      <3>1. PICK v \in S : \A u \in S : <<v, u>> \notin foreign
        BY DEF IInv, NoCircleOfEnds
      <3>2. \A u \in S : <<v, u>> \notin foreign'
        BY <2>1, <2>5, <3>1
      <3> QED
        BY <3>2
    <2> QED
      BY <2>3, <2>4, <2>5
  <1>2. CASE ~Fork(t)
    <2>1. foreign' \subseteq foreign
      BY <1>2
      DEF Act, Step, Respond, Pipe, PipeFails, CloseOnExec, ForkFails, Hear, StartFails, Draw,
          Check, Store, AnalyseFails, Reap, Catch, Answer, Quit, Breaks, Killed, Exit, procs
    <2> QED
      BY <2>1 DEF IInv, NoCircleOfEnds
  <1> QED
    BY <1>1, <1>2

LEMMA Invariance == Spec => []IInv
  <1>1. IInv /\ [Next]_vars => IInv'
    <2> SUFFICES ASSUME IInv, [Next]_vars PROVE IInv'
      OBVIOUS
    <2>1. CASE UNCHANGED vars
      BY <2>1
      DEF vars, batch, shared, procs, IInv, TypeOK, Hands, Work, Reported, Lifetimes, Inherited,
          NoCircleOfEnds, Running
    <2>2. ASSUME NEW t \in Thread, Act(t)
          PROVE  IInv'
      BY <2>2, TypeStep, HandsStep, WorkStep, ReportedStep, LifetimesStep, InheritedStep, EndsStep
      DEF IInv
    <2> QED
      BY <2>1, <2>2, BeginIInv, FinishIInv DEF Next, Act
  <1> QED
    BY <1>1, InitIInv, PTL DEF Spec

-----------------------------------------------------------------------------

(* The variables keep their types, for any number of threads and faults.    *)
THEOREM TypeCorrect == Spec => []TypeOK
  BY Invariance, PTL DEF IInv

(* However pipes, close-on-exec marks and forks interleave, engines never   *)
(* hold each other's pipes open in a circle (UciEngine::start).             *)
THEOREM NoCircles == Spec => []NoCircleOfEnds
  BY Invariance, PTL DEF IInv

(* No engine outlives the batch it was started for (~UciEngine, start).     *)
THEOREM NothingOutlives == Spec => []NothingOutlivesTheBatch
  <1>1. IInv => NothingOutlivesTheBatch
    BY DEF IInv, TypeOK, Work, Lifetimes, NothingOutlivesTheBatch, Running
  <1> QED
    BY <1>1, Invariance, PTL

(* Work that was drawn is evaluated, in a thread's hands, or the batch has  *)
(* failed and reports the error of a thread that did (runEnginePool).       *)
THEOREM Accounted == Spec => []DrawnWorkIsAccounted
  <1>1. IInv => DrawnWorkIsAccounted
    BY DEF IInv, Work, Reported, DrawnWorkIsAccounted
  <1> QED
    BY <1>1, Invariance, PTL

LEMMA Refines ==
  ASSUME IInv, [Next]_vars
  PROVE  [Contract!Next]_<<status, size, evals>>
  <1> USE ThreadsAssumption, WorkAssumption
  <1>1. CASE UNCHANGED vars
    BY <1>1 DEF vars, batch, shared
  <1>2. CASE Begin
    <2>1. Contract!Begin
      BY <1>2 DEF Begin, Contract!Begin, Slots, Contract!Slots
    <2> QED
      BY <2>1 DEF Contract!Next
  <1>3. CASE Finish
    <2>1. status = "running" /\ UNCHANGED <<size, evals>>
      BY <1>3 DEF Finish, shared
    <2>2. CASE failed
      BY <1>3, <2>1, <2>2 DEF Finish, Contract!Next, Contract!Throw
    <2>3. CASE ~failed
      <3>1. ASSUME NEW i \in Slots, i <= size
            PROVE  evals[i] = 1
        <4>1. 1 \in Thread /\ pc[1] # "out"
          BY <3>1 DEF Thread, Slots, IInv, TypeOK, Work
        <4>2. pc[1] = "end"
          BY <1>3, <4>1 DEF Finish
        <4>3. cursor > size
          BY <2>3, <4>1, <4>2 DEF IInv, Work
        <4>4. i <= cursor
          BY <3>1, <4>3 DEF IInv, TypeOK, Slots
        <4>5. \A t \in Thread : pc[t] \notin {"check", "ask", "bury", "throw"}
          BY <1>3 DEF Finish
        <4>6. evals[i] # 0
          BY <2>3, <3>1, <4>4, <4>5 DEF IInv, Work
        <4> QED
          BY <4>6 DEF IInv, Hands
      <3>2. status' = "returned"
        BY <1>3, <2>3 DEF Finish
      <3>3. Contract!Return
        BY <2>1, <3>1, <3>2 DEF Contract!Return, Slots, Contract!Slots
      <3> QED
        BY <3>3 DEF Contract!Next
    <2> QED
      BY <2>2, <2>3
  <1>4. ASSUME NEW t \in Thread, Store(t)
        PROVE  \E i \in Contract!Slots : Contract!Evaluate(i)
    <2>1. item[t] \in Slots /\ item[t] <= size /\ evals[item[t]] = 0
      BY <1>4 DEF Store, IInv, TypeOK, Hands, Slots
    <2>2. status = "running"
      BY <1>4 DEF Store, IInv, Work
    <2>3. evals' = [evals EXCEPT ![item[t]] = 1] /\ UNCHANGED <<status, size>>
      BY <1>4, <2>1 DEF Store, batch
    <2> QED
      BY <2>1, <2>2, <2>3 DEF Contract!Evaluate, Slots, Contract!Slots
  <1>5. ASSUME NEW t \in Thread, Act(t), ~Store(t)
        PROVE  UNCHANGED <<status, size, evals>>
    BY <1>5
    DEF Act, Step, Respond, Pipe, PipeFails, CloseOnExec, Fork, ForkFails, Hear, StartFails, Draw,
        Check, AnalyseFails, Reap, Catch, Answer, Quit, Breaks, Killed, batch, shared
  <1> QED
    BY <1>1, <1>2, <1>3, <1>4, <1>5 DEF Next, Act, Contract!Next

(* The pool keeps the promise of engine_pool.hpp: a batch throws, or every  *)
(* position is evaluated exactly once (runEnginePool).                      *)
THEOREM Implements == Spec => ImplementsContract
  <1>1. Init => Contract!Init
    BY DEF Init, Contract!Init, Slots, Contract!Slots
  <1> QED
    BY <1>1, Refines, Invariance, PTL DEF Spec, ImplementsContract, Contract!Spec, Contract!vars

=============================================================================
