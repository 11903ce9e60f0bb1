------------------------------ MODULE Exchange ------------------------------
(* The static exchange evaluator of the tactical detectors (tactical.py):   *)
(* what the side to move can win by capturing on one square.  Of the board  *)
(* there is left what a series of captures on the square can change: the    *)
(* pieces aimed at it, what stands in their way, and the lines to the kings.*)
EXTENDS Integers, FiniteSets, FiniteSetsExt

PieceValue == [pawn |-> 100, knight |-> 320, bishop |-> 330, rook |-> 500,
               queen |-> 900, king |-> 20000]

(* n tells pieces of a kind apart.  A pinned piece is pinned for as long as *)
(* it stands: by a piece not aimed at the square, with nothing else between.*)
Pieces ==
  [kind : DOMAIN PieceValue, white : BOOLEAN, pinned : BOOLEAN, n : Nat]
Sides == {S \in SUBSET Pieces : IsFiniteSet(S)}

(* last: a pawn that captures promotes.  <<a, b>> \in behind: b is between  *)
(* a and the square.  A line to a king: it is open while the pieces "by" (a *)
(* piece aimed at the square, or none of them) stand, and "over" are gone.  *)
Layouts ==
  [last : BOOLEAN, behind : SUBSET (Pieces \X Pieces),
   lines : SUBSET [king : BOOLEAN, by : SUBSET Pieces, over : SUBSET Pieces]]

(* board.attackers and board.is_legal, with the pieces left on the board.   *)
Attacks(a, left, layout) == \A b \in left : <<a, b>> \notin layout.behind
Open(line, left) == line.by \subseteq left /\ line.over \cap left = {}
Exposed(a, left, layout) ==
  \E line \in layout.lines : line.king = a.white /\ Open(line, left \ {a})

(* A pinned piece may not capture, nor one that opens a line to its king, a *)
(* king not where it would be retaken, and a pawn not on the last rank: its *)
(* move there lacks the promotion.                                          *)
Legal(a, mine, theirs, layout) ==
  LET left == mine \cup theirs IN
  /\ Attacks(a, left, layout)
  /\ a.kind = "king" => \A x \in theirs : ~Attacks(x, left \ {a}, layout)
  /\ a.kind # "king" => ~a.pinned /\ ~Exposed(a, left, layout)
  /\ a.kind = "pawn" => ~layout.last

(* An exchange: the pieces of the side to move and of the other, what stands*)
(* on the square, and the layout.  Taken: after the piece a took it.        *)
Trades == [mine : Sides, theirs : Sides, target : DOMAIN PieceValue, layout : Layouts]
Trade(mine, theirs, target, layout) ==
  [mine |-> mine, theirs |-> theirs, target |-> target, layout |-> layout]
Legals(e) == {a \in e.mine : Legal(a, e.mine, e.theirs, e.layout)}
Taken(e, a) == Trade(e.theirs, e.mine \ {a}, a.kind, e.layout)

(* Mutant: the capture is not declined when it loses.                       *)
GainForced(mine, theirs, target, layout) ==
  LET gains[e \in Trades] ==
        IF Legals(e) = {} THEN 0
        ELSE Max({PieceValue[e.target] - gains[Taken(e, a)] : a \in Legals(e)})
  IN gains[Trade(mine, theirs, target, layout)]

(* _gain: every legal capture is tried, or none; whose pieces attack, and   *)
(* which of them may capture, is found anew after each.                     *)
Gains[e \in Trades] ==
  Max({0} \cup {PieceValue[e.target] - Gains[Taken(e, a)] : a \in Legals(e)})
Gain(mine, theirs, target, layout) == Gains[Trade(mine, theirs, target, layout)]

(* see_capture: this capture is made.  The list of legal moves it is taken  *)
(* from, unlike _gain, has the captures that promote.                       *)
SeeCapture(a, kind, mine, theirs, target, layout) ==
  PieceValue[target] - Gain(theirs, mine \ {a}, kind, layout)

Becomes(a, last) ==
  IF a.kind = "pawn" /\ last THEN {"knight", "bishop", "rook", "queen"} ELSE {a.kind}

Promoting(layout) == [layout EXCEPT !.last = FALSE]

Hanging(mine, theirs, target, layout) ==
  \E a \in {x \in mine : Legal(x, mine, theirs, Promoting(layout))} :
    \E kind \in Becomes(a, layout.last) :
      SeeCapture(a, kind, mine, theirs, target, layout) >= 200

-----------------------------------------------------------------------------

(* The textbook swap: always the least valuable piece that may capture.     *)
Swaps[e \in Trades] ==
  LET least == CHOOSE a \in Legals(e) : \A x \in Legals(e) : PieceValue[a.kind] <= PieceValue[x.kind]
  IN IF Legals(e) = {} THEN 0
     ELSE Max({0, PieceValue[e.target] - Swaps[Taken(e, least)]})
Swap(mine, theirs, target, layout) == Swaps[Trade(mine, theirs, target, layout)]

(* Nothing opens or closes; nothing but its own attack depends on a.        *)
Still(layout) == layout.behind = {} /\ layout.lines = {}
Loose(a, layout) ==
  /\ \A pair \in layout.behind : pair[2] # a
  /\ \A line \in layout.lines : a \notin line.by \cup line.over

(* What _gain says of a square: never less than nothing nor more than the   *)
(* piece; hanging_piece, with another list of moves, reports the piece when *)
(* 200 can be won, and else only for a pawn that promotes; one more piece   *)
(* aimed at the square, if it stands in nobody's way, never costs its side  *)
(* anything; and where nothing opens or closes, searching every order of    *)
(* captures is the textbook swap (tactical.py:31-77).                       *)
GainIsSound(mine, theirs, target, layout) ==
  LET gain == Gain(mine, theirs, target, layout) IN
  /\ gain \in 0 .. PieceValue[target]
  /\ gain >= 200 => Hanging(mine, theirs, target, layout)
  /\ Hanging(mine, theirs, target, layout) =>
       gain >= 200 \/ (layout.last /\ \E a \in mine : a.kind = "pawn" /\ ~a.pinned)
  /\ \A a \in mine : Loose(a, layout) => Gain(mine \ {a}, theirs, target, layout) <= gain
  /\ \A a \in theirs : Loose(a, layout) => Gain(mine, theirs \ {a}, target, layout) >= gain
  /\ Still(layout) => gain = Swap(mine, theirs, target, layout)

=============================================================================
