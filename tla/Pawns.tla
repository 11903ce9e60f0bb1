-------------------------------- MODULE Pawns --------------------------------
(* Pawn structure and the archetypes read off it (pawns.cpp, archetype.cpp),*)
(* and the part of the feature vector that is about pawns (features.cpp).   *)
(* A square is <<file, rank>>, so that d4 is <<4, 4>>.  A board is          *)
(* [white, black, king, queens, pieces]: the pawns of each side, the kings' *)
(* squares, the number of queens and of queens, rooks, bishops and knights. *)
EXTENDS Integers, FiniteSets

Lines == 1 .. 8
Squares == Lines \X Lines
Colours == {"white", "black"}
Other(c) == IF c = "white" THEN "black" ELSE "white"
Forward(c) == IF c = "white" THEN 1 ELSE -1

OnFile(P, f) == {s \in P : s[1] = f}
Adjacent(s, t) == s[1] - t[1] \in {-1, 1}
IsAhead(c, s, t) == IF c = "white" THEN s[2] > t[2] ELSE s[2] < t[2]
Stop(c, s) == <<s[1], s[2] + Forward(c)>>
PassedSpan(c, s, t) == s[1] - t[1] \in {-1, 0, 1} /\ IsAhead(c, t, s)

Isolated(b, c) == {s \in b[c] : \A t \in b[c] : ~Adjacent(s, t)}
Doubled(b, c) == {s \in b[c] : Cardinality(OnFile(b[c], s[1])) >= 2}
Passed(b, c) ==
  {s \in b[c] :
    /\ \A t \in OnFile(b[c], s[1]) : ~IsAhead(c, t, s)
    /\ \A e \in b[Other(c)] : ~PassedSpan(c, s, e)}

(* Nobody beside it or behind it on a neighbour file, and an enemy pawn     *)
(* attacks the square in front of it.                                       *)
Backward(b, c) ==
  {s \in b[c] :
    /\ \A t \in b[c] : Adjacent(s, t) => IsAhead(c, t, s)
    /\ Stop(c, s) \in Squares
    /\ \E e \in b[Other(c)] : Adjacent(s, e) /\ e[2] = s[2] + 2 * Forward(c)}

OpenFiles(b) == {f \in Lines : OnFile(b.white \cup b.black, f) = {}}
HalfOpenFiles(b, c) == {f \in Lines : OnFile(b[c], f) = {} /\ OnFile(b[Other(c)], f) # {}}

(* The files at the king with an own pawn on the two ranks ahead of it.     *)
KingShield(b, c) ==
  {f \in Lines :
    /\ f - b.king[c][1] \in {-1, 0, 1}
    /\ \E s \in OnFile(b[c], f) : (s[2] - b.king[c][2]) * Forward(c) \in {1, 2}}

(* Mutant: the enemy half is always Black's.                                *)
SpaceOfWhite(b, c) ==
  {s \in Squares : s[2] > 4 /\ \E t \in b[c] : Adjacent(s, t) /\ s[2] = t[2] + Forward(c)}

(* What the pawns attack in the enemy half.                                 *)
Space(b, c) ==
  {s \in Squares :
    /\ IF c = "white" THEN s[2] > 4 ELSE s[2] <= 4
    /\ \E t \in b[c] : Adjacent(s, t) /\ s[2] = t[2] + Forward(c)}

Features(b, c) ==
  [isolated |-> Cardinality(Isolated(b, c)), doubled |-> Cardinality(Doubled(b, c)),
   backward |-> Cardinality(Backward(b, c)), passed |-> Cardinality(Passed(b, c)),
   open |-> Cardinality(OpenFiles(b)), half_open |-> Cardinality(HalfOpenFiles(b, c)),
   shield |-> Cardinality(KingShield(b, c)), space |-> Cardinality(Space(b, c))]

(* detect_positional and feature_diff: what the played move conceded, next  *)
(* to the best one, as far as pawns go.                                     *)
Positional(played, best, c) ==
  LET p == Features(played, c)
      q == Features(best, c)
      weak == (p.isolated + p.doubled + p.backward) - (q.isolated + q.doubled + q.backward)
  IN (IF weak >= 1 THEN {"structure_damage"} ELSE {})
     \cup (IF p.shield - q.shield <= -1 THEN {"king_shield_weakening"} ELSE {})

-----------------------------------------------------------------------------

None(b, c, f) == OnFile(b[c], f) = {}

EndgameSimplified(b) == b.queens = 0 /\ b.pieces <= 6
Carlsbad(b) ==
  /\ <<4, 4>> \in b.white /\ <<4, 5>> \in b.black
  /\ None(b, "white", 3) /\ None(b, "black", 5)
  /\ ~None(b, "white", 5) /\ ~None(b, "black", 3)
Stonewall(b) ==
  \/ {<<4, 5>>, <<5, 6>>, <<6, 5>>} \subseteq b.black
  \/ {<<4, 4>>, <<5, 3>>, <<6, 4>>} \subseteq b.white
Hedgehog(b) ==
  \/ {<<1, 6>>, <<2, 6>>, <<4, 6>>, <<5, 6>>} \subseteq b.black /\ None(b, "black", 3)
  \/ {<<1, 3>>, <<2, 3>>, <<4, 3>>, <<5, 3>>} \subseteq b.white /\ None(b, "white", 3)
Maroczy(b) ==
  \/ {<<3, 4>>, <<5, 4>>} \subseteq b.white /\ None(b, "white", 4) /\ <<4, 6>> \in b.black
  \/ {<<3, 5>>, <<5, 5>>} \subseteq b.black /\ None(b, "black", 4) /\ <<4, 3>> \in b.white
Iqp(b) ==
  \E c \in Colours : OnFile(Isolated(b, c), 4) # {} /\ None(b, Other(c), 4)
HangingPawns(b) ==
  \/ {<<3, 4>>, <<4, 4>>} \subseteq b.white /\ None(b, "white", 2) /\ None(b, "white", 5)
  \/ {<<3, 5>>, <<4, 5>>} \subseteq b.black /\ None(b, "black", 2) /\ None(b, "black", 5)
FrenchChain(b) == {<<4, 4>>, <<5, 5>>} \subseteq b.white /\ {<<4, 5>>, <<5, 6>>} \subseteq b.black
KidChain(b) == {<<4, 5>>, <<5, 4>>} \subseteq b.white /\ {<<5, 5>>, <<4, 6>>} \subseteq b.black
OppositeCastling(b) ==
  \E c \in Colours : b.king[c][1] <= 3 /\ b.king[Other(c)][1] >= 6
Symmetric(b) ==
  Cardinality(b.white) >= 4 /\ b.black = {<<s[1], 9 - s[2]>> : s \in b.white}
CentralRam(b) ==
  \E s \in b.white : s[1] \in 3 .. 6 /\ s[2] \in 2 .. 6 /\ Stop("white", s) \in b.black

Classify(b) ==
  IF EndgameSimplified(b) THEN "endgame_simplified"
  ELSE IF Carlsbad(b) THEN "carlsbad"
  ELSE IF Stonewall(b) THEN "stonewall"
  ELSE IF Hedgehog(b) THEN "hedgehog"
  ELSE IF Maroczy(b) THEN "maroczy"
  ELSE IF Iqp(b) THEN "iqp"
  ELSE IF HangingPawns(b) THEN "hanging_pawns"
  ELSE IF FrenchChain(b) THEN "french_chain"
  ELSE IF KidChain(b) THEN "kid_chain"
  ELSE IF OppositeCastling(b) THEN "opposite_castling"
  ELSE IF Symmetric(b) THEN IF CentralRam(b) THEN "symmetric_closed" ELSE "symmetric_open"
  ELSE "unknown"

-----------------------------------------------------------------------------

(* The board with the sides exchanged.                                      *)
Mirror(s) == <<s[1], 9 - s[2]>>
Flip(b) ==
  [b EXCEPT !.white = {Mirror(s) : s \in b.black},
            !.black = {Mirror(s) : s \in b.white},
            !.king = [c \in Colours |-> Mirror(b.king[Other(c)])]]

(* White and Black are judged alike: with the sides exchanged, the features *)
(* of a side are those of the other one, and the archetype is the same,     *)
(* except where the code knows a structure from one side only (Carlsbad and *)
(* the two chains, archetype.cpp:48-52 and 104-113).                        *)
ColourBlind(b) ==
  /\ \A c \in Colours : Features(Flip(b), Other(c)) = Features(b, c)
  /\ \/ Classify(Flip(b)) = Classify(b)
     \/ {Classify(b), Classify(Flip(b))} \cap {"carlsbad", "french_chain", "kid_chain"} # {}

(* An enemy pawn stops pawn s of c if they can advance, each on its own     *)
(* file, until it stands in the way of s or attacks it.                     *)
Stops(c, s, e) ==
  \E i, j \in Nat :
    LET here == s[2] + i * Forward(c)
        there == e[2] - j * Forward(c)
    IN \/ s[1] = e[1] /\ here = there
       \/ Adjacent(s, e) /\ here = there - Forward(c)

(* What pawns.cpp calls passed is exactly a foremost pawn of its file that  *)
(* no enemy pawn can ever stop.                                             *)
PassedMeansFree(b, c) ==
  Passed(b, c) =
    {s \in b[c] : /\ \A t \in OnFile(b[c], s[1]) : ~IsAhead(c, t, s)
                  /\ \A e \in b[Other(c)] : ~Stops(c, s, e)}

=============================================================================
