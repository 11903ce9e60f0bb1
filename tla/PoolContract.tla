---------------------------- MODULE PoolContract ----------------------------
(* What analyzeGames promises of a batch (engine_pool.hpp): it either       *)
(* throws, or returns with every position evaluated exactly once.  How many *)
(* engines work on it, and in which order, is nobody's business.            *)
EXTENDS Naturals

CONSTANT MaxWork   \* Bound: the most positions a batch has.

VARIABLES
  status,   \* "idle", "running", "returned" or "threw"
  size,     \* how many positions the batch has
  evals     \* position -> how often its evaluation was stored

vars == <<status, size, evals>>

Slots == 1 .. MaxWork

Init == /\ status = "idle"
        /\ size = 0
        /\ evals = [i \in Slots |-> 0]

Begin == /\ status # "running"
         /\ status' = "running"
         /\ size' \in 0 .. MaxWork
         /\ evals' = [i \in Slots |-> 0]

Evaluate(i) == /\ status = "running"
               /\ i <= size
               /\ evals[i] = 0
               /\ evals' = [evals EXCEPT ![i] = 1]
               /\ UNCHANGED <<status, size>>

Return == /\ status = "running"
          /\ \A i \in Slots : i <= size => evals[i] = 1
          /\ status' = "returned"
          /\ UNCHANGED <<size, evals>>

Throw == /\ status = "running"
         /\ status' = "threw"
         /\ UNCHANGED <<size, evals>>

Next == Begin \/ Return \/ Throw \/ \E i \in Slots : Evaluate(i)

Spec == Init /\ [][Next]_vars

=============================================================================
