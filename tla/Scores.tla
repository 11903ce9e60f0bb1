------------------------------- MODULE Scores -------------------------------
(* The arithmetic of evaluations (score.hpp, severity.hpp, annotate.cpp):   *)
(* one scale for centipawns and mates, what a move threw away, how sharp    *)
(* the position was, and how severe that makes the move.  A score is its    *)
(* value, from the side to move; mate and mate_in are determined by it.     *)
EXTENDS Integers, Sequences

MateScore == 10000
MateThreshold == 9000
MaxCp == 8000
SharpnessCap == 800
DecidedEval == 600

Least(a, b) == IF a < b THEN a ELSE b
Greatest(a, b) == IF a > b THEN a ELSE b
Clamp(x, low, high) == Greatest(low, Least(x, high))
Abs(x) == IF x < 0 THEN -x ELSE x

MateValue(n) == IF n < 0 THEN -(MateScore - Abs(n)) ELSE MateScore - Abs(n)
IsMateScore(v) == Abs(v) >= MateThreshold
Cp(n) == Clamp(n, -MaxCp, MaxCp)
FromUci(kind, n) == IF kind = "mate" THEN MateValue(n) ELSE Cp(n)

WhitePov(v, white) == IF white THEN v ELSE -v

(* after is from the opponent's side, so it is negated: best - (-after).    *)
DeltaCp(best, after) == Greatest(0, best + after)

(* The spread of the lines, best first: to the third, or the second of two. *)
Sharpness(lines) ==
  LET third == IF Len(lines) >= 2 THEN lines[Least(Len(lines), 3)] ELSE lines[1]
  IN Clamp(lines[1] - third, 0, SharpnessCap)

(* int(base * (1.0 + s / 400)) in doubles: at these spreads the product     *)
(* falls just below an integer, and truncation takes one off.               *)
Rounding ==
  [inaccuracy |-> {64, 328, 456, 472, 488, 504, 520, 656},
   mistake    |-> {52, 60, 64, 228, 328, 404, 420, 456, 472, 488, 504, 520, 556,
                   572, 588, 604, 620, 656, 756},
   blunder    |-> {144, 328, 336, 344, 456, 472, 488, 656, 672, 688}]
Base == [inaccuracy |-> 50, mistake |-> 100, blunder |-> 250]

Threshold(name, sharp) ==
  (Base[name] * (400 + sharp)) \div 400 - (IF sharp \in Rounding[name] THEN 1 ELSE 0)

ClassifySeverity(delta, faced, sharp) ==
  LET s == Clamp(sharp, 0, SharpnessCap) IN
  IF Abs(faced) > DecidedEval THEN "none"
  ELSE IF delta >= Threshold("blunder", s) THEN "blunder"
  ELSE IF delta >= Threshold("mistake", s) THEN "mistake"
  ELSE IF delta >= Threshold("inaccuracy", s) THEN "inaccuracy"
  ELSE "none"

Rank(severity) ==
  CASE severity = "none" -> 0 [] severity = "inaccuracy" -> 1
    [] severity = "mistake" -> 2 [] severity = "blunder" -> 3

-----------------------------------------------------------------------------

(* Mates and centipawns never collide (score.hpp:8-21): a mate of the mover *)
(* is above every evaluation and below every shorter mate, for all reports  *)
(* of mates in 1 to 1000 and of any number of centipawns.                   *)
BandsApart(n, m, cp) ==
  /\ IsMateScore(MateValue(n)) /\ IsMateScore(MateValue(-n)) /\ ~IsMateScore(Cp(cp))
  /\ MateValue(-n) < Cp(cp) /\ Cp(cp) < MateValue(n)
  /\ n < m => MateValue(m) < MateValue(n) /\ MateValue(-n) < MateValue(-m)

(* The same loss is never judged more severely in a sharper position        *)
(* (severity.hpp:50-51), the rounding of doubles notwithstanding.           *)
SharperIsMilder(delta, faced, s, t) ==
  s <= t =>
    Rank(ClassifySeverity(delta, faced, t)) <= Rank(ClassifySeverity(delta, faced, s))

(* A move that is a mistake or worse threw away at least a mistake's 100    *)
(* centipawns, however sharp the position was.                              *)
MistakesCost(delta, faced, sharp) ==
  ClassifySeverity(delta, faced, sharp) \in {"mistake", "blunder"} =>
    delta >= 100 /\ Abs(faced) <= DecidedEval

=============================================================================
