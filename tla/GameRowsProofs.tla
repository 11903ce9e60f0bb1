---------------------------- MODULE GameRowsProofs ----------------------------
(***************************************************************************)
(* Proofs about GameRows, for any plies, workers and bounds.               *)
(*                                                                         *)
(* The argument: a ply is in put of one worker at most, as its move is     *)
(* locked; from its DELETE to its commit a pass has in cut every committed *)
(* blunder of the plies it is through with, because only the holder of a   *)
(* move adds blunders to it; and a row an annotate job has written is      *)
(* neither deleted nor written by another before that job ends.            *)
(***************************************************************************)
EXTENDS GameRows, FiniteSetTheorems, WellFoundedInduction, TLAPS

(* Plies whose blunder w has replaced.                                     *)
Through(w) == put[w] \ todo[w]

(* An id is of one blunder, committed or not, and an uncommitted one is    *)
(* nobody else's business.                                                 *)
IdsUnique ==
  /\ \A b, c \in rows : b.id = c.id => b = c
  /\ \A v, w \in Worker : \A m \in made[w], n \in made[v] : m.id = n.id => m = n /\ v = w
  /\ \A w \in Worker : \A m \in made[w] :
       /\ m.id < nextId
       /\ \A b \in rows : b.id # m.id
       /\ \A v \in Worker : m.id \notin cut[v] \cup noted[v]
  /\ \A w \in Worker : \A i \in cut[w] \cup noted[w] : i < nextId

(* What a lock keeps others from.                                          *)
LocksHold ==
  /\ \A v, w \in Worker : v # w => put[v] \cap put[w] = {}
  /\ \A v, w \in Worker : v # w => noted[w] \cap (cut[v] \cup noted[v]) = {}
  /\ \A w \in Worker : \A i \in noted[w] : \E b \in rows : b.id = i /\ ~b.noted

(* Which job has which locks.                                              *)
JobsApart ==
  \A w \in Worker :
    /\ at[w] \in {"idle", "update"} => put[w] = {} /\ cut[w] = {} /\ made[w] = {}
    /\ at[w] \in {"upsert", "replace"} => noted[w] = {} /\ pass[w] \in 1..MaxPasses
    /\ at[w] = "upsert" => put[w] \cap todo[w] = {}
    /\ at[w] = "replace" => \A p \in todo[w] : Turn(w, p) <=> p \in put[w]

(* A pass inserts one blunder at most for a ply it is through with, and    *)
(* deletes exactly the committed ones of those plies.                      *)
PassesReplace ==
  \A w \in Worker :
    /\ \A m \in made[w] : m.ply \in Through(w) /\ m.by = pass[w] /\ ~m.noted
    /\ \A m, n \in made[w] : m.ply = n.ply => m = n
    /\ \A b \in rows : b.id \in cut[w] <=> b.ply \in Through(w)

IInv == TypeOK /\ IdsUnique /\ LocksHold /\ JobsApart /\ PassesReplace /\ OneBlunderPerMove

----------------------------------------------------------------------------

LEMMA InitIInv == Init => IInv
  BY ConstantsAssumption
  DEF Init, IInv, TypeOK, IdsUnique, LocksHold, JobsApart, PassesReplace, OneBlunderPerMove,
      Points, Through

(* A worker that ends leaves nothing behind: enough for exceptions, kills  *)
(* and the victims of circles.                                             *)
LEMMA RollbackIInv ==
  ASSUME IInv, NEW w \in Worker, End(w), UNCHANGED <<moves, rows, nextId, passes, notes>>,
         failures' \in 0..MaxFailures
  PROVE  IInv'
  <1> USE ConstantsAssumption DEF IInv, End
  <1>1. TypeOK'
    BY DEF TypeOK, Points
  <1>2. IdsUnique' /\ LocksHold'
    BY DEF TypeOK, IdsUnique, LocksHold
  <1>3. JobsApart' /\ PassesReplace'
    BY DEF TypeOK, JobsApart, PassesReplace, Through, Turn
  <1>4. OneBlunderPerMove'
    BY DEF OneBlunderPerMove
  <1> QED
    BY <1>1, <1>2, <1>3, <1>4

LEMMA StartIInv ==
  ASSUME IInv, NEW w \in Worker,
         (\E A \in SUBSET Ply : StartDeep(w, A)) \/ StartAnnotate(w)
  PROVE  IInv'
  <1> USE ConstantsAssumption DEF IInv
  <1>1. ASSUME NEW A \in SUBSET Ply, StartDeep(w, A)
        PROVE  IInv'
    <2> USE <1>1 DEF StartDeep, open
    <2>1. TypeOK'
      BY DEF TypeOK, Points
    <2>2. IdsUnique' /\ LocksHold' /\ OneBlunderPerMove'
      BY DEF IdsUnique, LocksHold, OneBlunderPerMove
    <2>3. JobsApart' /\ PassesReplace'
      BY DEF TypeOK, JobsApart, PassesReplace, Through, Turn
    <2> QED
      BY <2>1, <2>2, <2>3
  <1>2. ASSUME StartAnnotate(w)
        PROVE  IInv'
    <2> USE <1>2 DEF StartAnnotate, open
    <2>1. TypeOK'
      BY DEF TypeOK, Points, Blunder
    <2>2. IdsUnique' /\ LocksHold' /\ OneBlunderPerMove'
      BY DEF IdsUnique, LocksHold, OneBlunderPerMove
    <2>3. JobsApart' /\ PassesReplace'
      BY DEF TypeOK, JobsApart, PassesReplace, Through, Turn
    <2> QED
      BY <2>1, <2>2, <2>3
  <1> QED
    BY <1>1, <1>2

(* The upsert puts a ply nobody else has put.                              *)
LEMMA UpsertIInv ==
  ASSUME IInv, NEW w \in Worker, NEW p \in Ply, Upsert(w, p)
  PROVE  IInv'
  <1> USE ConstantsAssumption DEF IInv, Upsert, counts
  <1>1. TypeOK'
    BY DEF TypeOK, Points
  <1>2. IdsUnique' /\ OneBlunderPerMove'
    BY DEF IdsUnique, OneBlunderPerMove
  <1>3. LocksHold'
    BY DEF TypeOK, LocksHold, MoveLocked
  <1>4. p \in todo[w] /\ \A q \in todo[w] : Turn(w, q) <=> q = p
    BY DEF TypeOK, Turn
  <1>5. \A v \in Worker : Through(v)' = Through(v)
    BY <1>4 DEF TypeOK, Through
  <1>6. JobsApart'
    BY <1>4 DEF TypeOK, JobsApart, Turn
  <1>7. PassesReplace'
    BY <1>5 DEF TypeOK, PassesReplace
  <1> QED
    BY <1>1, <1>2, <1>3, <1>6, <1>7

(* The DELETE takes every committed blunder of a ply the worker has put,   *)
(* the INSERT adds one with an id of its own.                              *)
LEMMA ReplaceIInv ==
  ASSUME IInv, NEW w \in Worker, NEW p \in Ply, NEW flagged \in BOOLEAN,
         Replace(w, p, flagged)
  PROVE  IInv'
  <1> DEFINE m == [id |-> nextId, ply |-> p, by |-> pass[w], noted |-> FALSE]
  <1> USE ConstantsAssumption
  <1>1. /\ at[w] = "replace" /\ p \in todo[w] /\ Turn(w, p)
        /\ \A i \in Stale(p, flagged) : RowLocked(w, i) = {}
        /\ cut' = [cut EXCEPT ![w] = @ \cup Stale(p, flagged)]
        /\ at' = [at EXCEPT ![w] = "upsert"]
        /\ todo' = [todo EXCEPT ![w] = @ \ {p}]
        /\ UNCHANGED <<moves, rows, pass, put, noted, passes, notes, failures>>
    BY DEF Replace, Turn, counts
  <1>2. \/ made' = [made EXCEPT ![w] = @ \cup {m}] /\ nextId' = nextId + 1
        \/ made' = made /\ nextId' = nextId
    BY DEF Replace
  <1>3. m \in Blunder
    BY <1>1 DEF IInv, TypeOK, JobsApart, Blunder
  <1>4. m.id = nextId /\ m.ply = p /\ m.by = pass[w] /\ m.noted = FALSE
    OBVIOUS
  <1> HIDE DEF m
  <1>5. p \in put[w] /\ \A q \in todo[w] : q \in put[w] <=> q = p
    BY <1>1 DEF IInv, TypeOK, JobsApart, Turn
  <1>6. Stale(p, flagged) \subseteq Nat /\ \A b \in rows : b.id \in Stale(p, flagged) <=> b.ply = p
    BY DEF IInv, TypeOK, IdsUnique, Stale, Blunder
  <1>7. \A i \in Stale(p, flagged) : i < nextId
    BY DEF IInv, TypeOK, Stale
  <1>8. \A v \in Worker : Through(v)' = IF v = w THEN Through(v) \cup {p} ELSE Through(v)
    BY <1>1, <1>5 DEF IInv, TypeOK, Through
  <1>9. TypeOK'
    <2>1. made' \in [Worker -> SUBSET Blunder]
      BY <1>2, <1>3 DEF IInv, TypeOK
    <2>2. nextId' \in Nat /\ \A b \in rows : b.id < nextId'
      BY <1>2 DEF IInv, TypeOK, Blunder
    <2>3. cut' \in [Worker -> SUBSET Nat] /\ todo' \in [Worker -> SUBSET Nat]
      BY <1>1, <1>6 DEF IInv, TypeOK
    <2>4. \A v \in Worker : at'[v] = "idle" => v # w /\ at[v] = "idle"
      BY <1>1 DEF IInv, TypeOK
    <2>5. \A v \in Worker \ {w} : todo'[v] = todo[v] /\ cut'[v] = cut[v] /\ made'[v] = made[v]
      BY <1>1, <1>2 DEF IInv, TypeOK
    <2>6. at' \in [Worker -> Points]
      BY <1>1 DEF IInv, TypeOK, Points
    <2> QED
      BY <1>1, <2>1, <2>2, <2>3, <2>4, <2>5, <2>6 DEF IInv, TypeOK
  <1>10. IdsUnique'
    <2> USE DEF IInv, TypeOK, IdsUnique
    <2>1. \A b \in rows : b.id \in Nat /\ b.id < nextId
      BY DEF Blunder
    <2>2. \A v \in Worker : \A n \in made[v] : n.id \in Nat /\ n.id < nextId
      BY DEF Blunder
    <2>3. \A v \in Worker : \A i \in cut'[v] \cup noted'[v] : i \in Nat /\ i < nextId
      BY <1>1, <1>6, <1>7
    <2>4. \A v \in Worker : \A n \in made[v] : n.id \notin Stale(p, flagged)
      BY DEF Stale
    <2>5. \A v, u \in Worker : \A n \in made[v] : n.id \notin cut'[u] \cup noted'[u]
      BY <1>1, <2>4
    <2> QED
      BY <1>1, <1>2, <1>4, <2>1, <2>2, <2>3, <2>5
  <1>11. LocksHold'
    BY <1>1 DEF IInv, TypeOK, LocksHold, RowLocked
  <1>12. JobsApart'
    BY <1>1, <1>2, <1>5 DEF IInv, TypeOK, JobsApart, Turn
  <1>13. PassesReplace'
    <2>1. \A n \in made[w] : n.ply # p
      BY <1>1, <1>5 DEF IInv, PassesReplace, Through
    <2> QED
      BY <1>1, <1>2, <1>4, <1>6, <1>8, <2>1 DEF IInv, TypeOK, PassesReplace
  <1>14. OneBlunderPerMove'
    BY <1>1 DEF IInv, OneBlunderPerMove
  <1> QED
    BY <1>9, <1>10, <1>11, <1>12, <1>13, <1>14 DEF IInv

(* What is left of a ply the pass has put went; what is new is the pass's. *)
LEMMA DeepCommitIInv ==
  ASSUME IInv, NEW w \in Worker, DeepCommit(w)
  PROVE  IInv'
  <1> USE ConstantsAssumption
  <1>1. /\ at[w] = "upsert" /\ todo[w] = {} /\ noted[w] = {} /\ pass[w] \in 1..MaxPasses
        /\ moves' = [p \in Ply |-> IF p \in put[w] THEN pass[w] ELSE moves[p]]
        /\ rows' = {b \in rows : b.id \notin cut[w]} \cup made[w]
        /\ UNCHANGED <<nextId, passes, notes, failures>>
    BY DEF DeepCommit, counts, IInv, JobsApart
  <1>2. Through(w) = put[w]
    BY <1>1 DEF Through
  <1>3. \A b \in rows' : \/ b \in rows /\ b.ply \notin put[w]
                         \/ b \in made[w] /\ b.ply \in put[w]
    BY <1>1, <1>2 DEF IInv, PassesReplace
  <1>4. TypeOK'
    BY <1>1 DEF DeepCommit, End, IInv, TypeOK, Points, IdsUnique
  <1>5. IdsUnique'
    BY <1>3, <1>1 DEF DeepCommit, End, IInv, TypeOK, IdsUnique
  <1>6. LocksHold'
    <2>1. \A v \in Worker \ {w} : \A i \in noted[v] : i \notin cut[w]
      BY DEF IInv, LocksHold
    <2> QED
      BY <1>1, <2>1 DEF DeepCommit, End, IInv, TypeOK, LocksHold
  <1>7. JobsApart'
    BY <1>1 DEF DeepCommit, End, IInv, TypeOK, JobsApart, Turn
  <1>8. PassesReplace'
    <2>1. \A v \in Worker \ {w} : \A b \in made[w] :
            b.id \notin cut[v] /\ b.ply \notin Through(v)
      BY <1>2 DEF IInv, IdsUnique, LocksHold, PassesReplace, Through
    <2>2. \A v \in Worker \ {w} : /\ Through(v)' = Through(v) /\ made'[v] = made[v]
                                  /\ cut'[v] = cut[v] /\ pass'[v] = pass[v]
      BY DEF DeepCommit, End, IInv, TypeOK, Through
    <2>3. Through(w)' = {} /\ made'[w] = {} /\ cut'[w] = {}
      BY DEF DeepCommit, End, IInv, TypeOK, Through
    <2> QED
      BY <1>3, <2>1, <2>2, <2>3 DEF IInv, PassesReplace
  <1>9. OneBlunderPerMove'
    BY <1>1, <1>3 DEF IInv, TypeOK, OneBlunderPerMove, PassesReplace, Blunder
  <1> QED
    BY <1>4, <1>5, <1>6, <1>7, <1>8, <1>9 DEF IInv

(* An update locks a row nobody else has written.                          *)
LEMMA UpdateIInv ==
  ASSUME IInv, NEW w \in Worker, NEW i \in todo[w], Update(w, i)
  PROVE  IInv'
  <1> USE ConstantsAssumption
  <1>1. /\ at[w] = "update"
        /\ todo' = [todo EXCEPT ![w] = @ \ {i}]
        /\ UNCHANGED <<moves, rows, nextId, at, pass, put, cut, made, passes, notes, failures>>
    BY DEF Update, counts
  <1>2. put[w] = {} /\ cut[w] = {} /\ made[w] = {}
    BY <1>1 DEF IInv, JobsApart
  <1>3. i \in Nat
    BY DEF IInv, TypeOK
  <1>4. CASE ~\E b \in rows : b.id = i /\ ~b.noted
    <2>1. noted' = noted
      BY <1>4 DEF Update, ToNote
    <2>2. TypeOK'
      BY <1>1, <2>1 DEF IInv, TypeOK, Points
    <2>3. (IdsUnique /\ LocksHold /\ OneBlunderPerMove)'
      BY <1>1, <2>1 DEF IInv, IdsUnique, LocksHold, OneBlunderPerMove
    <2>4. JobsApart' /\ PassesReplace'
      BY <1>1, <1>2, <2>1 DEF IInv, TypeOK, JobsApart, PassesReplace, Through, Turn
    <2> QED
      BY <2>2, <2>3, <2>4 DEF IInv
  <1>5. CASE \E b \in rows : b.id = i /\ ~b.noted
    <2>1. noted' = [noted EXCEPT ![w] = @ \cup {i}] /\ RowLocked(w, i) = {}
      BY <1>5 DEF Update, ToNote
    <2>2. TypeOK'
      BY <1>1, <1>3, <2>1 DEF IInv, TypeOK, Points
    <2>3. \A v \in Worker : noted'[v] = IF v = w THEN noted[v] \cup {i} ELSE noted[v]
      BY <2>1 DEF IInv, TypeOK
    <2>4. \A v \in Worker \ {w} : i \notin cut[v] \cup noted[v]
      BY <2>1 DEF RowLocked
    <2>5. i < nextId /\ \A v \in Worker : \A m \in made[v] : m.id # i
      BY <1>5 DEF IInv, TypeOK, IdsUnique
    <2>6. IdsUnique'
      <3>1. \A v \in Worker : \A k \in cut'[v] \cup noted'[v] : k \in cut[v] \cup noted[v] \/ k = i
        BY <1>1, <2>3
      <3> QED
        BY <1>1, <3>1, <2>5 DEF IInv, IdsUnique
    <2>7. LocksHold'
      <3>1. ASSUME NEW u \in Worker, NEW v \in Worker, u # v, NEW k \in noted'[v]
            PROVE  k \notin cut[u] /\ k \notin noted'[u]
        <4>1. CASE k \in noted[v]
          <5>1. k \notin cut[u] \cup noted[u]
            BY <3>1, <4>1 DEF IInv, LocksHold
          <5>2. u = w => k # i
            BY <2>4, <3>1, <4>1
          <5> QED
            BY <2>3, <5>1, <5>2
        <4>2. CASE k \notin noted[v]
          BY <2>3, <2>4, <3>1, <4>2
        <4> QED
          BY <4>1, <4>2
      <3>2. ASSUME NEW v \in Worker, NEW k \in noted'[v]
            PROVE  \E b \in rows : b.id = k /\ ~b.noted
        <4>1. k = i \/ k \in noted[v]
          BY <2>3
        <4> QED
          BY <1>5, <4>1 DEF IInv, LocksHold
      <3>3. \A u, v \in Worker : v # u => noted'[u] \cap (cut[v] \cup noted'[v]) = {}
        BY <3>1
      <3> QED
        BY <1>1, <3>2, <3>3 DEF IInv, LocksHold
    <2>8. OneBlunderPerMove'
      BY <1>1 DEF IInv, OneBlunderPerMove
    <2>9. JobsApart' /\ PassesReplace'
      BY <1>1, <1>2, <2>3 DEF IInv, TypeOK, JobsApart, PassesReplace, Through, Turn
    <2> QED
      BY <2>2, <2>6, <2>7, <2>8, <2>9 DEF IInv
  <1> QED
    BY <1>4, <1>5

(* Only the annotation of a row changes.                                   *)
LEMMA AnnotateCommitIInv ==
  ASSUME IInv, NEW w \in Worker, AnnotateCommit(w)
  PROVE  IInv'
  <1> DEFINE after(b) == IF b.id \in noted[w] THEN [b EXCEPT !.noted = TRUE] ELSE b
  <1> USE ConstantsAssumption
  <1>1. /\ at[w] = "update" /\ todo[w] = {} /\ End(w)
        /\ rows' = {after(b) : b \in rows}
        /\ UNCHANGED <<moves, nextId, passes, notes, failures>>
    BY DEF AnnotateCommit, counts
  <1>2. \A b \in rows : /\ after(b) \in Blunder
                        /\ after(b).id = b.id /\ after(b).ply = b.ply /\ after(b).by = b.by
                        /\ b.id \notin noted[w] => after(b) = b
    BY DEF IInv, TypeOK, Blunder
  <1> HIDE DEF after
  <1>3. TypeOK'
    BY <1>1, <1>2 DEF End, IInv, TypeOK, Points
  <1>4. IdsUnique'
    BY <1>1, <1>2 DEF End, IInv, TypeOK, IdsUnique
  <1>5. LocksHold'
    <2>1. \A v \in Worker \ {w} : \A i \in noted[v] : i \notin noted[w]
      BY DEF IInv, LocksHold
    <2>2. \A v \in Worker \ {w} : \A i \in noted[v] : \E b \in rows' : b.id = i /\ ~b.noted
      BY <1>1, <1>2, <2>1 DEF IInv, LocksHold
    <2> QED
      BY <1>1, <2>2 DEF End, IInv, TypeOK, LocksHold
  <1>6. JobsApart'
    BY <1>1 DEF End, IInv, TypeOK, JobsApart, Turn
  <1>7. PassesReplace'
    BY <1>1, <1>2 DEF End, IInv, TypeOK, PassesReplace, Through
  <1>8. OneBlunderPerMove'
    BY <1>1, <1>2 DEF IInv, OneBlunderPerMove
  <1> QED
    BY <1>3, <1>4, <1>5, <1>6, <1>7, <1>8 DEF IInv

LEMMA StepIInv ==
  ASSUME IInv, [Next]_vars
  PROVE  IInv'
  <1>1. CASE UNCHANGED vars
    BY <1>1 DEF vars, IInv, TypeOK, IdsUnique, LocksHold, JobsApart, PassesReplace,
                OneBlunderPerMove, Through, Turn
  <1>2. ASSUME NEW w \in Worker, Fail(w) \/ Victim(w)
        PROVE  IInv'
    <2>1. End(w) /\ UNCHANGED <<moves, rows, nextId, passes, notes>>
      BY <1>2 DEF Fail, Victim, counts
    <2>2. failures' \in 0..MaxFailures
      BY <1>2, ConstantsAssumption DEF Fail, Victim, counts, IInv, TypeOK
    <2> QED
      BY <2>1, <2>2, RollbackIInv
  <1>3. ASSUME NEW w \in Worker, Deep(w)
        PROVE  IInv'
    BY <1>3, UpsertIInv, ReplaceIInv, DeepCommitIInv DEF Deep
  <1>4. ASSUME NEW w \in Worker, Annotate(w)
        PROVE  IInv'
    BY <1>4, UpdateIInv, AnnotateCommitIInv DEF Annotate
  <1> QED
    BY <1>1, <1>2, <1>3, <1>4, StartIInv DEF Next

LEMMA Invariance == Spec => []IInv
  BY InitIInv, StepIInv, PTL DEF Spec

----------------------------------------------------------------------------

(* Types of every variable; a worker between jobs has nothing uncommitted. *)
THEOREM TypeCorrect == Spec => []TypeOK
  BY Invariance, PTL DEF IInv

(* However many deep passes of a game overlap, a move has one blunder at   *)
(* most, and it is of the pass that wrote the move's analysis              *)
(* (deep_analyze).                                                         *)
THEOREM OneBlunder == Spec => []OneBlunderPerMove
  BY Invariance, PTL DEF IInv

----------------------------------------------------------------------------
(* Every commit is a step of the contract; no other step is seen by it.    *)

(* Module Contract's blunder.                                              *)
Told(p) == {[by |-> b.by, noted |-> b.noted] : b \in {c \in rows : c.ply = p}}

LEMMA InitContract == Init => Contract!Init
  BY DEF Init, Contract!Init

LEMMA DeepCommitContract ==
  ASSUME IInv, NEW w \in Worker, DeepCommit(w)
  PROVE  [Contract!Next]_(Contract!vars)
  <1> DEFINE F == {m.ply : m \in made[w]}
  <1>1. /\ at[w] = "upsert" /\ todo[w] = {} /\ pass[w] \in 1..MaxPasses
        /\ moves' = [p \in Ply |-> IF p \in put[w] THEN pass[w] ELSE moves[p]]
        /\ rows' = {b \in rows : b.id \notin cut[w]} \cup made[w]
    BY DEF DeepCommit, IInv, JobsApart
  <1>2. Through(w) = put[w] /\ put[w] \in SUBSET Ply
    BY <1>1 DEF Through, IInv, TypeOK
  <1>3. F \in SUBSET put[w]
    BY <1>2 DEF IInv, PassesReplace
  <1>4. \A m \in made[w] : m.by = pass[w] /\ m.noted = FALSE /\ m.ply \in Ply
    BY DEF IInv, TypeOK, PassesReplace, Blunder
  <1>5. ASSUME NEW p \in Ply
        PROVE  Told(p)' = IF p \in F THEN {[by |-> pass[w], noted |-> FALSE]}
                          ELSE IF p \in put[w] THEN {} ELSE Told(p)
    <2>1. CASE p \in F
      <3>1. PICK m \in made[w] : m.ply = p
        BY <2>1
      <3>2. {c \in rows' : c.ply = p} = {m}
        BY <1>1, <1>2, <3>1 DEF IInv, PassesReplace
      <3> QED
        BY <1>4, <2>1, <3>2 DEF Told
    <2>2. CASE p \in put[w] /\ p \notin F
      <3>1. {c \in rows' : c.ply = p} = {}
        BY <1>1, <1>2, <2>2 DEF IInv, PassesReplace
      <3> QED
        BY <2>2, <3>1 DEF Told
    <2>3. CASE p \notin put[w]
      <3>1. {c \in rows' : c.ply = p} = {c \in rows : c.ply = p}
        BY <1>1, <1>2, <2>3 DEF IInv, PassesReplace
      <3> QED
        BY <1>3, <2>3, <3>1 DEF Told
    <2> QED
      BY <2>1, <2>2, <2>3
  <1> HIDE DEF F
  <1>6. PICK d \in 1..MaxPasses, A \in SUBSET Ply, G \in SUBSET put[w] :
          d = pass[w] /\ A = put[w] /\ G = F
    BY <1>1, <1>2, <1>3
  <1>7. Contract!Analyse(d, A, G)
    BY <1>1, <1>5, <1>6 DEF Contract!Analyse, Told
  <1>8. CASE A # {}
    <2>1. PICK p \in A : moves'[p] = d
      BY <1>1, <1>6, <1>8
    <2>2. G \in SUBSET A
      BY <1>6
    <2> QED
      BY <1>6, <1>7, <2>1, <2>2 DEF Contract!Next
  <1>9. CASE A = {}
    <2>1. moves' = moves
      BY <1>1, <1>6, <1>9 DEF IInv, TypeOK
    <2>2. \A p \in Ply : Told(p)' = Told(p)
      BY <1>3, <1>5, <1>6, <1>9
    <2>3. [p \in Ply |-> Told(p)]' = [p \in Ply |-> Told(p)]
      BY <2>2
    <2> QED
      BY <2>1, <2>3 DEF Contract!vars, Told
  <1> QED
    BY <1>8, <1>9

LEMMA AnnotateCommitContract ==
  ASSUME IInv, NEW w \in Worker, AnnotateCommit(w)
  PROVE  Contract!Next
  <1> DEFINE Mine == {b \in rows : b.id \in noted[w]}
             A == {b.ply : b \in Mine}
             after(b) == IF b.id \in noted[w] THEN [b EXCEPT !.noted = TRUE] ELSE b
  <1>1. rows' = {after(b) : b \in rows} /\ UNCHANGED moves
    BY DEF AnnotateCommit
  <1>2. A \in SUBSET Ply
    BY DEF IInv, TypeOK, Blunder
  <1>3. \A b \in Mine : b.noted = FALSE
    BY DEF IInv, TypeOK, IdsUnique, LocksHold, Blunder
  <1>4. \A b \in rows : /\ after(b).ply = b.ply /\ after(b).by = b.by
                        /\ b \in Mine => after(b).noted = TRUE
                        /\ b \notin Mine => after(b) = b
    BY DEF IInv, TypeOK, Blunder
  <1> HIDE DEF after
  <1>5. ASSUME NEW p \in A
        PROVE  /\ \E r \in Told(p) : ~r.noted
               /\ Told(p)' = {[by |-> r.by, noted |-> TRUE] : r \in Told(p)}
    <2>1. PICK b \in Mine : b.ply = p
      OBVIOUS
    <2>2. {c \in rows : c.ply = p} = {b}
      BY <2>1 DEF IInv, OneBlunderPerMove
    <2>3. {c \in rows' : c.ply = p} = {after(b)}
      BY <1>1, <1>4, <2>1, <2>2
    <2>4. Told(p) = {[by |-> b.by, noted |-> FALSE]}
      BY <1>3, <2>1, <2>2 DEF Told
    <2>5. Told(p)' = {[by |-> b.by, noted |-> TRUE]}
      <3>1. after(b).by = b.by /\ after(b).noted = TRUE
        BY <1>4, <2>1
      <3>2. Told(p)' = {[by |-> after(b).by, noted |-> after(b).noted]}
        BY <2>3 DEF Told
      <3> QED
        BY <3>1, <3>2
    <2> QED
      BY <2>4, <2>5
  <1>6. ASSUME NEW p \in Ply \ A
        PROVE  Told(p)' = Told(p)
    <2>1. {c \in rows' : c.ply = p} = {c \in rows : c.ply = p}
      BY <1>1, <1>4
    <2> QED
      BY <2>1 DEF Told
  <1> HIDE DEF A
  <1>7. PICK B \in SUBSET Ply : B = A
    BY <1>2
  <1>8. Contract!Annotate(B)
    BY <1>1, <1>5, <1>6, <1>7 DEF Contract!Annotate, Told
  <1> QED
    BY <1>8 DEF Contract!Next

(* Every behaviour of the statements is one of passes and annotate jobs    *)
(* that run alone (deep_analyze, run_annotate).                            *)
THEOREM Implements == Spec => ImplementsContract
  <1>1. IInv /\ [Next]_vars => [Contract!Next]_(Contract!vars)
    <2> SUFFICES ASSUME IInv, [Next]_vars
                 PROVE  [Contract!Next]_(Contract!vars)
      OBVIOUS
    <2>1. moves' = moves /\ rows' = rows => UNCHANGED Contract!vars
      BY DEF Contract!vars
    <2>2. CASE UNCHANGED vars
      BY <2>1, <2>2 DEF vars
    <2>3. ASSUME NEW w \in Worker,
                 \/ \E A \in SUBSET Ply : StartDeep(w, A)
                 \/ StartAnnotate(w) \/ Fail(w) \/ Victim(w)
          PROVE  moves' = moves /\ rows' = rows
      BY <2>3 DEF StartDeep, StartAnnotate, Fail, Victim
    <2>4. ASSUME NEW w \in Worker, Deep(w)
          PROVE  [Contract!Next]_(Contract!vars) \/ (moves' = moves /\ rows' = rows)
      BY <2>4, DeepCommitContract DEF Deep, Upsert, Replace
    <2>5. ASSUME NEW w \in Worker, Annotate(w)
          PROVE  Contract!Next \/ (moves' = moves /\ rows' = rows)
      BY <2>5, AnnotateCommitContract DEF Annotate, Update
    <2> QED
      BY <2>1, <2>2, <2>3, <2>4, <2>5 DEF Next
  <1> QED
    BY <1>1, InitContract, Invariance, PTL DEF Spec, ImplementsContract, Contract!Spec

----------------------------------------------------------------------------
(* Circles.  Everybody takes the locks of one kind in ascending order, so  *)
(* in a circle of one kind the one who waits for the highest waits for     *)
(* somebody who waits for a higher one.                                    *)

LEMMA Least ==
  ASSUME NEW T \in SUBSET Nat, T # {}
  PROVE  \E x \in T : \A y \in T : x <= y
  <1> DEFINE R == OpToRel(<, Nat)
  <1>1. IsWellFoundedOn(R, Nat)
    BY NatLessThanWellFounded
  <1>2. \A x, y \in Nat : <<y, x>> \in R <=> y < x
    BY DEF OpToRel
  <1> HIDE DEF R
  <1>3. PICK x \in T : \A y \in T : ~(<<y, x>> \in R)
    BY <1>1, WFMin
  <1>4. \A y \in T : y \in Nat /\ x \in Nat /\ ~(y < x)
    BY <1>2, <1>3
  <1> QED
    BY <1>4

(* By the number of elements above: fewer above a greater one.             *)
LEMMA Greatest ==
  ASSUME NEW T \in SUBSET Nat, IsFiniteSet(T), T # {}
  PROVE  \E x \in T : \A y \in T : y <= x
  <1> DEFINE Above(x) == {y \in T : x < y}
             N == {Cardinality(Above(x)) : x \in T}
  <1>1. \A x \in T : IsFiniteSet(Above(x)) /\ Cardinality(Above(x)) \in Nat
    BY FS_Subset, FS_CardinalityType
  <1>2. N \in SUBSET Nat /\ N # {}
    BY <1>1
  <1>3. PICK n \in N : \A k \in N : n <= k
    BY <1>2, Least
  <1>4. PICK x \in T : n = Cardinality(Above(x))
    OBVIOUS
  <1>5. ASSUME NEW y \in T, x < y
        PROVE  FALSE
    <2>1. Above(y) \subseteq Above(x) /\ y \in Above(x) /\ y \notin Above(y)
      <3>1. \A z \in T : z \in Nat
        OBVIOUS
      <3>2. \A z \in T : y < z => x < z
        BY <1>5, <3>1
      <3>3. ~(y < y)
        BY <3>1
      <3> QED
        BY <1>5, <3>2, <3>3
    <2>2. Cardinality(Above(y)) < Cardinality(Above(x))
      BY <1>1, <2>1, FS_Subset
    <2>3. n <= Cardinality(Above(y))
      BY <1>3
    <2> QED
      BY <1>1, <1>4, <2>2, <2>3
  <1> QED
    BY <1>5

Ordered ==
  \A w \in Worker :
    /\ at[w] \in {"upsert", "replace"} => \A p \in put[w], q \in todo[w] : p <= q
    /\ at[w] = "update" => \A i \in noted[w], k \in todo[w] : i < k

LEMMA StepOrdered ==
  ASSUME IInv, Ordered, [Next]_vars
  PROVE  Ordered'
  <1> USE ConstantsAssumption
  <1>1. CASE UNCHANGED vars
    BY <1>1 DEF vars, Ordered
  <1>2. ASSUME NEW w \in Worker, End(w)
        PROVE  Ordered'
    BY <1>2 DEF End, Ordered, IInv, TypeOK
  <1>3. ASSUME NEW w \in Worker, (\E A \in SUBSET Ply : StartDeep(w, A)) \/ StartAnnotate(w)
        PROVE  Ordered'
    BY <1>3 DEF StartDeep, StartAnnotate, Ordered, IInv, TypeOK, open
  <1>4. ASSUME NEW w \in Worker, NEW p \in Ply, Upsert(w, p)
        PROVE  Ordered'
    BY <1>4 DEF Upsert, Turn, Ordered, IInv, TypeOK
  <1>5. ASSUME NEW w \in Worker, NEW p \in Ply, NEW flagged \in BOOLEAN, Replace(w, p, flagged)
        PROVE  Ordered'
    BY <1>5 DEF Replace, Ordered, IInv, TypeOK
  <1>6. ASSUME NEW w \in Worker, NEW i \in todo[w], Update(w, i)
        PROVE  Ordered'
    <2>1. at[w] = "update" /\ todo' = [todo EXCEPT ![w] = @ \ {i}] /\ at' = at /\ put' = put
      BY <1>6 DEF Update
    <2>2. \A k \in todo[w] \ {i} : i < k
      BY <1>6 DEF Update, Turn, IInv, TypeOK
    <2>3. noted' = noted \/ noted' = [noted EXCEPT ![w] = @ \cup {i}]
      BY <1>6 DEF Update
    <2> QED
      BY <2>1, <2>2, <2>3 DEF Ordered, IInv, TypeOK
  <1> QED
    BY <1>1, <1>2, <1>3, <1>4, <1>5, <1>6
    DEF Next, Deep, Annotate, DeepCommit, AnnotateCommit, Fail, Victim

LEMMA OrderedInvariance == Spec => [](IInv /\ Ordered)
  <1>1. Init => Ordered
    BY DEF Init, Ordered
  <1> QED
    BY <1>1, StepOrdered, Invariance, PTL DEF Spec

LEMMA WaitsUpsert ==
  ASSUME NEW w \in Worker, at[w] = "upsert", NEW v \in WaitsFor(w)
  PROVE  \E p \in todo[w] : Turn(w, p) /\ v \in MoveLocked(w, p)
  BY DEF WaitsFor

LEMMA WaitsReplace ==
  ASSUME NEW w \in Worker, at[w] = "replace", NEW v \in WaitsFor(w)
  PROVE  \E p \in todo[w] : Turn(w, p) /\ \E i \in Stale(p, TRUE) : v \in RowLocked(w, i)
  <1>1. WaitsFor(w) = UNION {UNION {RowLocked(w, i) : i \in Stale(p, TRUE)} :
                               p \in {q \in todo[w] : Turn(w, q)}}
    BY DEF WaitsFor
  <1>2. PICK p \in {q \in todo[w] : Turn(w, q)} :
          v \in UNION {RowLocked(w, i) : i \in Stale(p, TRUE)}
    BY <1>1
  <1> QED
    BY <1>2

LEMMA WaitsUpdate ==
  ASSUME NEW w \in Worker, at[w] = "update", NEW v \in WaitsFor(w)
  PROVE  \E i \in todo[w] : Turn(w, i) /\ ToNote(i) /\ v \in RowLocked(w, i)
  BY DEF WaitsFor

LEMMA WaitsIdle ==
  ASSUME NEW w \in Worker, at[w] = "idle", IInv
  PROVE  WaitsFor(w) = {}
  BY DEF WaitsFor, IInv, TypeOK

(* A pass never waits for the DELETE of a pass, only for its upserts.      *)
LEMMA NoCircleOfPasses ==
  ASSUME IInv, Ordered, NEW S \in SUBSET Worker, Circle(S), \A w \in S : at[w] # "update"
  PROVE  FALSE
  <1> USE ConstantsAssumption
  <1> DEFINE T == {p \in Ply : \E w \in S : at[w] = "upsert" /\ Turn(w, p)}
  <1>1. \A w \in S : at[w] = "upsert"
    <2> SUFFICES ASSUME NEW w \in S, at[w] # "upsert"
                 PROVE  FALSE
      OBVIOUS
    <2>1. PICK v \in S : v \in WaitsFor(w)
      BY DEF Circle
    <2>2. at[w] = "replace"
      BY <2>1, WaitsIdle DEF IInv, TypeOK, Points
    <2>3. PICK p \in todo[w] : Turn(w, p) /\ \E i \in Stale(p, TRUE) : v \in RowLocked(w, i)
      BY <2>1, <2>2, WaitsReplace
    <2>4. PICK i \in Stale(p, TRUE) : v \in RowLocked(w, i)
      BY <2>3
    <2>5. v \in Worker /\ v # w /\ i \in cut[v] \cup noted[v]
      BY <2>4 DEF RowLocked
    <2>6. noted[v] = {}
      BY <2>5 DEF IInv, TypeOK, Points, JobsApart
    <2>7. p \in Through(v)
      BY <2>5, <2>6 DEF IInv, PassesReplace, Stale
    <2>8. p \in put[w]
      BY <2>2, <2>3 DEF IInv, JobsApart
    <2> QED
      BY <2>5, <2>7, <2>8 DEF IInv, LocksHold, Through
  <1>2. ASSUME NEW w \in S, NEW p \in Ply, Turn(w, p)
        PROVE  \E v \in S, q \in Ply : Turn(v, q) /\ p < q
    <2>1. PICK v \in S : v \in WaitsFor(w)
      BY DEF Circle
    <2>2. PICK r \in todo[w] : Turn(w, r) /\ v \in MoveLocked(w, r)
      BY <1>1, <2>1, WaitsUpsert
    <2>3. r = p
      BY <1>2, <2>2 DEF Turn, IInv, TypeOK
    <2>4. p \in put[v]
      BY <2>2, <2>3 DEF MoveLocked
    <2>5. PICK u \in S : u \in WaitsFor(v)
      BY DEF Circle
    <2>6. PICK q \in todo[v] : Turn(v, q) /\ u \in MoveLocked(v, q)
      BY <1>1, <2>5, WaitsUpsert
    <2>7. q \in Ply
      BY <2>6 DEF MoveLocked, IInv, TypeOK
    <2>8. p <= q /\ p # q
      BY <1>1, <2>4, <2>6 DEF Ordered, IInv, JobsApart
    <2> QED
      BY <2>6, <2>7, <2>8
  <1>3. PICK w \in S : at[w] = "upsert"
    BY <1>1 DEF Circle
  <1>4. \E p \in Ply : Turn(w, p)
    <2>1. PICK v \in S : v \in WaitsFor(w)
      BY DEF Circle
    <2>2. PICK p \in todo[w] : Turn(w, p) /\ v \in MoveLocked(w, p)
      BY <1>3, <2>1, WaitsUpsert
    <2> QED
      BY <2>2 DEF MoveLocked, IInv, TypeOK
  <1>5. T \in SUBSET Nat /\ IsFiniteSet(T) /\ T # {}
    BY <1>3, <1>4, FS_Subset
  <1>6. PICK p \in T : \A q \in T : q <= p
    BY <1>5, Greatest
  <1>7. PICK v \in S, q \in Ply : Turn(v, q) /\ p < q
    BY <1>2
  <1>8. q \in T
    BY <1>1, <1>7
  <1> QED
    BY <1>5, <1>6, <1>7, <1>8

(* Annotate jobs wait for rows, in the order of their ids.                 *)
LEMMA NoCircleOfNotes ==
  ASSUME IInv, Ordered, NEW S \in SUBSET Worker, Circle(S), \A w \in S : at[w] = "update"
  PROVE  FALSE
  <1> DEFINE T == {i \in 0..nextId : \E w \in S : Turn(w, i)}
  <1>1. \A w \in S : \E v \in S : \E i \in T : Turn(w, i) /\ i \in noted[v]
    <2> SUFFICES ASSUME NEW w \in S
                 PROVE  \E v \in S : \E i \in T : Turn(w, i) /\ i \in noted[v]
      OBVIOUS
    <2>1. PICK v \in S : v \in WaitsFor(w)
      BY DEF Circle
    <2>2. PICK i \in todo[w] : Turn(w, i) /\ ToNote(i) /\ v \in RowLocked(w, i)
      BY <2>1, WaitsUpdate
    <2>3. i \in 0..nextId
      BY <2>2 DEF ToNote, IInv, TypeOK, Blunder
    <2>4. cut[v] = {}
      BY DEF IInv, JobsApart
    <2> QED
      BY <2>2, <2>3, <2>4 DEF RowLocked
  <1>2. nextId \in Nat
    BY DEF IInv, TypeOK
  <1>3. T \in SUBSET Nat /\ IsFiniteSet(T)
    <2>1. IsFiniteSet(0..nextId)
      BY <1>2, FS_Interval
    <2>2. T \in SUBSET (0..nextId)
      OBVIOUS
    <2>3. IsFiniteSet(T)
      BY <2>1, <2>2, FS_Subset
    <2> QED
      BY <1>2, <2>2, <2>3
  <1>4. T # {}
    BY <1>1 DEF Circle
  <1>5. PICK i \in T : \A k \in T : k <= i
    BY <1>3, <1>4, Greatest
  <1>6. PICK w \in S : Turn(w, i)
    OBVIOUS
  <1>7. PICK v \in S, j \in T : Turn(w, j) /\ j \in noted[v]
    BY <1>1
  <1>8. j = i
    BY <1>3, <1>6, <1>7 DEF Turn
  <1>9. PICK k \in T : Turn(v, k)
    BY <1>1
  <1>10. i < k
    BY <1>7, <1>8, <1>9 DEF Ordered, Turn
  <1> QED
    BY <1>3, <1>5, <1>10

(* Locks wait in a circle only where deep passes and annotate jobs meet    *)
(* (deep_analyze, run_annotate).                                           *)
THEOREM Circles == Spec => []DeadlockNeedsBothKinds
  <1>1. IInv /\ Ordered => DeadlockNeedsBothKinds
    BY NoCircleOfPasses, NoCircleOfNotes DEF DeadlockNeedsBothKinds
  <1> QED
    BY <1>1, OrderedInvariance, PTL

=============================================================================
