------------------------------- MODULE GameRows -------------------------------
(***************************************************************************)
(* The rows of one game, statement by statement: deep passes (deep.py)     *)
(* that upsert each move, delete its blunder and insert another, beside    *)
(* annotate jobs (annotate_flow.py) that update the blunders they read.    *)
(*                                                                         *)
(* Each job is one transaction at READ COMMITTED.  A statement sees what   *)
(* is committed when it runs, and what its own transaction did; it waits   *)
(* for the lock of a row another open transaction has written, and looks   *)
(* at the row again when that one ends.  Nothing makes blunders unique per *)
(* move.  When transactions wait for each other in a circle Postgres       *)
(* aborts one.                                                             *)
(***************************************************************************)
EXTENDS Integers, FiniteSets

CONSTANTS
  Ply,          (* the candidate plies of the game                          *)
  Worker,       (* worker processes                                         *)
  MaxPasses,    (* bound: deep passes                                       *)
  MaxNotes,     (* bound: annotate jobs                                     *)
  MaxFailures   (* bound: jobs that raise or are killed                     *)

ASSUME ConstantsAssumption ==
  /\ Ply \subseteq Nat /\ IsFiniteSet(Ply)
  /\ MaxPasses \in Nat /\ MaxNotes \in Nat /\ MaxFailures \in Nat

VARIABLES
  moves,        (* moves[p]: the pass that wrote the row of p, 0 for none   *)
  rows,         (* the committed blunders rows                              *)
  nextId,       (* the sequence of blunders.id                              *)
  at,           (* at[w]: where worker w is                                 *)
  pass,         (* pass[w]: which deep pass it runs, 0 for none             *)
  todo,         (* todo[w]: plies to go through, or ids to update           *)
  put,          (* put[w]: plies whose row it upserted, not committed       *)
  cut,          (* cut[w]: ids of blunders it deleted, not committed        *)
  made,         (* made[w]: blunders it inserted, not committed             *)
  noted,        (* noted[w]: ids it annotated, not committed                *)
  passes, notes, failures

open == <<put, cut, made, noted>>
counts == <<passes, notes, failures>>
vars == <<moves, rows, nextId, at, pass, todo, put, cut, made, noted,
          passes, notes, failures>>

Points == {"idle", "upsert", "replace", "update"}
Blunder == [id : Nat, ply : Ply, by : 1..MaxPasses, noted : BOOLEAN]

Init ==
  /\ moves = [p \in Ply |-> 0]
  /\ rows = {}
  /\ nextId = 1
  /\ at = [w \in Worker |-> "idle"]
  /\ pass = [w \in Worker |-> 0]
  /\ todo = [w \in Worker |-> {}]
  /\ put = [w \in Worker |-> {}]
  /\ cut = [w \in Worker |-> {}]
  /\ made = [w \in Worker |-> {}]
  /\ noted = [w \in Worker |-> {}]
  /\ passes = 0 /\ notes = 0 /\ failures = 0

----------------------------------------------------------------------------

(* Mutant: the plies, or the ids, in any order.                            *)
TurnAny(w, x) == x \in todo[w]

(* sorted(set(candidate_plies)), and ORDER BY b.id.                        *)
Turn(w, x) == x \in todo[w] /\ \A y \in todo[w] : x <= y

(* Mutant: the session is not closed.                                      *)
EndUnclosed(w) ==
  /\ at' = [at EXCEPT ![w] = "idle"]
  /\ pass' = [pass EXCEPT ![w] = 0]
  /\ todo' = [todo EXCEPT ![w] = {}]
  /\ UNCHANGED open

(* The transaction of w ends: its locks go, and what it did not commit.    *)
End(w) ==
  /\ at' = [at EXCEPT ![w] = "idle"]
  /\ pass' = [pass EXCEPT ![w] = 0]
  /\ todo' = [todo EXCEPT ![w] = {}]
  /\ put' = [put EXCEPT ![w] = {}]
  /\ cut' = [cut EXCEPT ![w] = {}]
  /\ made' = [made EXCEPT ![w] = {}]
  /\ noted' = [noted EXCEPT ![w] = {}]

(* Who has the lock of a move, or of a blunder.                            *)
MoveLocked(w, p) == {v \in Worker \ {w} : p \in put[v]}
RowLocked(w, i) == {v \in Worker \ {w} : i \in cut[v] \cup noted[v]}

(* deep_analyze, after the engine answered: the plies it answered.         *)
StartDeep(w, A) ==
  /\ at[w] = "idle"
  /\ passes < MaxPasses
  /\ passes' = passes + 1
  /\ at' = [at EXCEPT ![w] = "upsert"]
  /\ pass' = [pass EXCEPT ![w] = passes + 1]
  /\ todo' = [todo EXCEPT ![w] = A]
  /\ UNCHANGED <<moves, rows, nextId, open, notes, failures>>

(* INSERT ... ON CONFLICT DO UPDATE: locks the row of p, or makes one that *)
(* others wait for.                                                        *)
Upsert(w, p) ==
  /\ at[w] = "upsert"
  /\ Turn(w, p)
  /\ MoveLocked(w, p) = {}
  /\ at' = [at EXCEPT ![w] = "replace"]
  /\ put' = [put EXCEPT ![w] = @ \cup {p}]
  /\ UNCHANGED <<moves, rows, nextId, pass, todo, cut, made, noted, counts>>

(* Mutant: the blunder is deleted only when there is no other to insert.   *)
StaleKept(p, flagged) == IF flagged THEN {} ELSE {b.id : b \in {c \in rows : c.ply = p}}

(* What DELETE ... WHERE move_analysis_id finds: committed rows.  The lock *)
(* on the move keeps other passes from adding to them until the statement  *)
(* is through.                                                             *)
Stale(p, flagged) == {b.id : b \in {c \in rows : c.ply = p}}

(* DELETE, and INSERT when the move is flagged.                            *)
Replace(w, p, flagged) ==
  /\ at[w] = "replace"
  /\ Turn(w, p)
  /\ \A i \in Stale(p, flagged) : RowLocked(w, i) = {}
  /\ cut' = [cut EXCEPT ![w] = @ \cup Stale(p, flagged)]
  /\ IF flagged
     THEN /\ made' = [made EXCEPT ![w] =
                        @ \cup {[id |-> nextId, ply |-> p, by |-> pass[w], noted |-> FALSE]}]
          /\ nextId' = nextId + 1
     ELSE UNCHANGED <<made, nextId>>
  /\ at' = [at EXCEPT ![w] = "upsert"]
  /\ todo' = [todo EXCEPT ![w] = @ \ {p}]
  /\ UNCHANGED <<moves, rows, pass, put, noted, counts>>

(* UPDATE games and commit.                                                *)
DeepCommit(w) ==
  /\ at[w] = "upsert" /\ todo[w] = {}
  /\ moves' = [p \in Ply |-> IF p \in put[w] THEN pass[w] ELSE moves[p]]
  /\ rows' = {b \in rows : b.id \notin cut[w]} \cup made[w]
  /\ End(w)
  /\ UNCHANGED <<nextId, counts>>

(* run_annotate: the rows it reads, then the LLM.  With none it is over.   *)
StartAnnotate(w) ==
  LET bare == {b \in rows : ~b.noted} IN
  /\ at[w] = "idle"
  /\ bare # {}
  /\ notes < MaxNotes
  /\ notes' = notes + 1
  /\ at' = [at EXCEPT ![w] = "update"]
  /\ todo' = [todo EXCEPT ![w] = {b.id : b \in bare}]
  /\ UNCHANGED <<moves, rows, nextId, pass, open, passes, failures>>

(* WHERE id = :bid AND annotation IS NULL.                                 *)
ToNote(i) == \E b \in rows : b.id = i /\ ~b.noted

(* Mutant: a row that others annotated or deleted is waited for.           *)
UpdateInsists(w, i) ==
  /\ at[w] = "update"
  /\ Turn(w, i)
  /\ ToNote(i) /\ RowLocked(w, i) = {}
  /\ noted' = [noted EXCEPT ![w] = @ \cup {i}]
  /\ todo' = [todo EXCEPT ![w] = @ \ {i}]
  /\ UNCHANGED <<moves, rows, nextId, at, pass, put, cut, made, counts>>

Update(w, i) ==
  /\ at[w] = "update"
  /\ Turn(w, i)
  /\ ToNote(i) => RowLocked(w, i) = {}
  /\ noted' = IF ToNote(i) THEN [noted EXCEPT ![w] = @ \cup {i}] ELSE noted
  /\ todo' = [todo EXCEPT ![w] = @ \ {i}]
  /\ UNCHANGED <<moves, rows, nextId, at, pass, put, cut, made, counts>>

AnnotateCommit(w) ==
  /\ at[w] = "update" /\ todo[w] = {}
  /\ rows' = {IF b.id \in noted[w] THEN [b EXCEPT !.noted = TRUE] ELSE b : b \in rows}
  /\ End(w)
  /\ UNCHANGED <<moves, nextId, counts>>

(* An exception or a kill rolls back; a retry is a start like another.     *)
Fail(w) ==
  /\ at[w] # "idle"
  /\ failures < MaxFailures
  /\ failures' = failures + 1
  /\ End(w)
  /\ UNCHANGED <<moves, rows, nextId, passes, notes>>

----------------------------------------------------------------------------
(* Waiting.                                                                *)

(* Those whose locks keep w from its next statement.                       *)
WaitsFor(w) ==
  UNION {CASE at[w] = "upsert" -> MoveLocked(w, x)
           [] at[w] = "replace" -> UNION {RowLocked(w, i) : i \in Stale(x, TRUE)}
           [] at[w] = "update" -> IF ToNote(x) THEN RowLocked(w, x) ELSE {}
           [] OTHER -> {} : x \in {y \in todo[w] : Turn(w, y)}}

(* Workers none of whom can go on before another of them does.             *)
Circle(S) == S # {} /\ \A w \in S : WaitsFor(w) \cap S # {}

(* Postgres finds the circle and aborts a transaction in it: the job       *)
(* raises.                                                                 *)
Victim(w) ==
  /\ \E S \in SUBSET Worker : w \in S /\ Circle(S)
  /\ End(w)
  /\ UNCHANGED <<moves, rows, nextId, counts>>

----------------------------------------------------------------------------

Deep(w) ==
  \/ \E p \in Ply : Upsert(w, p)
  \/ \E p \in Ply, flagged \in BOOLEAN : Replace(w, p, flagged)
  \/ DeepCommit(w)

Annotate(w) ==
  \/ \E i \in todo[w] : Update(w, i)
  \/ AnnotateCommit(w)

Next ==
  \E w \in Worker :
    \/ \E A \in SUBSET Ply : StartDeep(w, A)
    \/ StartAnnotate(w)
    \/ Deep(w) \/ Annotate(w)
    \/ Fail(w) \/ Victim(w)

Spec == Init /\ [][Next]_vars

(* A statement that can go on does, and a circle is broken.                *)
FairSpec == Spec /\ \A w \in Worker : WF_vars(Deep(w) \/ Annotate(w) \/ Victim(w))

----------------------------------------------------------------------------

TypeOK ==
  /\ moves \in [Ply -> 0..MaxPasses]
  /\ rows \subseteq Blunder /\ \A b \in rows : b.id < nextId
  /\ nextId \in Nat
  /\ at \in [Worker -> Points]
  /\ pass \in [Worker -> 0..MaxPasses]
  /\ todo \in [Worker -> SUBSET Nat]
  /\ put \in [Worker -> SUBSET Ply]
  /\ cut \in [Worker -> SUBSET Nat]
  /\ made \in [Worker -> SUBSET Blunder]
  /\ noted \in [Worker -> SUBSET Nat]
  /\ \A w \in Worker : at[w] = "idle" =>
       todo[w] = {} /\ put[w] = {} /\ cut[w] = {} /\ made[w] = {} /\ noted[w] = {}
  /\ passes \in 0..MaxPasses /\ notes \in 0..MaxNotes /\ failures \in 0..MaxFailures

(* At most one blunder per move, and it comes from the pass that wrote the *)
(* move's analysis, although no constraint says so and passes overlap: a   *)
(* severity never stands beside the evaluation of another pass.            *)
OneBlunderPerMove ==
  /\ \A b, c \in rows : b.ply = c.ply => b = c
  /\ \A b \in rows : b.by = moves[b.ply]

(* Deep passes never wait for each other in a circle, and annotate jobs    *)
(* never do: each kind takes its locks in one order.  Only both kinds      *)
(* together can, as ids need not be in the order of the plies.             *)
DeadlockNeedsBothKinds ==
  \A S \in SUBSET Worker : Circle(S) =>
    /\ \E w \in S : at[w] = "update"
    /\ \E w \in S : at[w] # "update"

(* Every transaction ends, whatever it waits for.                          *)
TransactionsEnd == \A w \in Worker : at[w] # "idle" ~> at[w] = "idle"

Contract ==
  INSTANCE RowsContract WITH
    Pass <- 1..MaxPasses, NoPass <- 0,
    analysis <- moves,
    blunder <- [p \in Ply |->
      {[by |-> b.by, noted |-> b.noted] : b \in {c \in rows : c.ply = p}}]

(* However their statements interleave, passes and annotate jobs have the  *)
(* effect they would have if each ran alone when it commits.               *)
ImplementsContract == Contract!Spec

=============================================================================
