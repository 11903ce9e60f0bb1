---------------------------- MODULE RowsContract ----------------------------
(***************************************************************************)
(* What deep passes and annotate jobs promise about the rows of games, as  *)
(* if each ran alone: a pass replaces the analysis and the blunder of every*)
(* ply it answers, and an annotate job writes to blunders that have no     *)
(* annotation.  Module Funnel, where both are single steps, and module     *)
(* GameRows, where they are statements under row locks, both implement it. *)
(***************************************************************************)
EXTENDS Naturals

CONSTANTS
  Ply,          (* the plies of the games                                   *)
  Pass,         (* the deep passes                                          *)
  NoPass        (* the writer of a row that is not there                    *)

VARIABLES
  analysis,     (* analysis[p]: who wrote the move_analyses row of p        *)
  blunder       (* blunder[p]: the set of blunders of p: writer and noted   *)

vars == <<analysis, blunder>>

Init ==
  /\ analysis = [p \in Ply |-> NoPass]
  /\ blunder = [p \in Ply |-> {}]

(* Pass d answers the plies A and flags those in F.                        *)
Analyse(d, A, F) ==
  /\ analysis' = [p \in Ply |-> IF p \in A THEN d ELSE analysis[p]]
  /\ blunder' = [p \in Ply |->
       IF p \in F THEN {[by |-> d, noted |-> FALSE]}
       ELSE IF p \in A THEN {} ELSE blunder[p]]

(* The blunders of the plies in A get their annotation, none for the       *)
(* second time.                                                            *)
Annotate(A) ==
  /\ \A p \in A : \E b \in blunder[p] : ~b.noted
  /\ blunder' = [p \in Ply |->
       IF p \in A THEN {[by |-> b.by, noted |-> TRUE] : b \in blunder[p]}
       ELSE blunder[p]]
  /\ UNCHANGED analysis

Next ==
  \/ \E A \in SUBSET Ply : \E F \in SUBSET A, p \in A :
       analysis'[p] \in Pass /\ Analyse(analysis'[p], A, F)
  \/ \E A \in SUBSET Ply : Annotate(A)

Spec == Init /\ [][Next]_vars

=============================================================================
