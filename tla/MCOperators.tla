---------------------------- MODULE MCOperators ----------------------------
(* One state for each call of the program's pure functions within the       *)
(* bounds below: what a function returns is checked against a property of   *)
(* all its calls.                                                           *)
EXTENDS Calls

Seqs(S, low, high) == UNION {[1 .. n -> S] : n \in low .. high}

-----------------------------------------------------------------------------
(* Batches: two games of up to three tokens over five FENs, two of which    *)
(* differ in the side to move only; the last position of one may be mate.   *)

Fen(n, w) == [name |-> n, white |-> w]
Lines3(v, gap) == <<v, v - 30, v - gap>>
Paths == {<<Fen("A", TRUE), Fen("A", FALSE), Fen("B", TRUE), Fen("B", FALSE)>>,
          <<Fen("B", TRUE), Fen("A", FALSE), Fen("C", TRUE), Fen("A", FALSE)>>}
Engine ==
  [lines |-> [f \in {Fen(n, w) : n \in {"A", "B", "C"}, w \in BOOLEAN} |->
     LET v == CASE f.name = "A" -> 40 [] f.name = "B" -> -190 [] f.name = "C" -> 9995
     IN IF f.white THEN Lines3(v, 60) ELSE <<Greatest(-v - 110, 1 - MateScore)>>],
   mated |-> {Fen("B", FALSE)}, stale |-> {}]
Pgns == [standard : BOOLEAN, fens : Paths, toks : Seqs({"a", "bad", "result"}, 0, 3)]
Batches ==
  [of : {"batch"}, engine : {Engine},
   pgns : Seqs({p \in Pgns : p.standard \/ p.toks = <<"a">>}, 1, 2)]

(* Questions: up to four moves, any of which the engine's parser may refuse. *)
Asks == [fen : {Fen("A", TRUE), Fen("B", TRUE)}, uci : {"a", "b"},
         then : {Fen("A", FALSE)}, legible : BOOLEAN]
Questions == [of : {"ask"}, engine : {Engine}, positions : Seqs(Asks, 0, 4)]

(* Games of three moves: four evaluations of four positions, mate at the    *)
(* end or not, all subsets of Lichess's evaluations, sharp or calm, and the *)
(* user on either side, after a book exit at the first or second ply.       *)
Board(p) == Fen(<<"A", "B", "C", "D">>[p], p % 2 = 1)
GameEngine(c) ==
  [lines |-> [f \in {Board(p) : p \in 1 .. 4} |->
                LET v == WhitePov(c.evals[f.name], f.white) IN Lines3(v, c.gap)],
   mated |-> IF c.mate THEN {Board(4)} ELSE {}, stale |-> {}]
GameMoves(c) ==
  [p \in 1 .. 3 |->
    [fen |-> Board(p), uci |-> "a", then |-> Board(p + 1), legible |-> TRUE,
     mine |-> (p % 2 = 1) = c.white,
     eval |-> IF p \notin c.given THEN NoEval
              ELSE WhitePov(PositionEval(GameEngine(c), Board(p + 1))[1], Board(p + 1).white)]]
Games ==
  {[of |-> "game", moves |-> GameMoves(c), engine |-> GameEngine(c), exit |-> c.exit] :
     c \in [evals : [{"A", "B", "C", "D"} -> {-700, -600, 0, 100}], gap : {30, 404},
            given : SUBSET (1 .. 3), white : BOOLEAN, exit : {0, 1}, mate : BOOLEAN]}

-----------------------------------------------------------------------------
(* Samples: up to four games, caps around their number, equal dates too.    *)
Samples ==
  [of : {"sample"},
   games : {{[id |-> i, created |-> d[i]] : i \in DOMAIN d} : d \in Seqs(1 .. 2, 0, 4)},
   strategy : {"recent", "random", "stratified"}, cap : 0 .. 4, recentN : 0 .. 4, olderN : 0 .. 3]

(* Replies: up to three blunders in chunks of two, two calls for each.      *)
Item(d, tags) == [description |-> d, motif_tags |-> tags, counterfactual |-> "text"]
Good == Item("text", {"fork"})
Fine == Item("text", {})
Off == Item("text", {"skewer"})
Replies ==
  [kind : {"raises", "prose"}, items : {<<>>}] \cup
  [kind : {"array"}, items : {<<>>, <<Good>>, <<Off>>, <<Item("blank", {})>>, <<Good, Fine>>,
                              <<Fine, Good>>, <<Good, Off>>, <<Good, Good, Fine>>}]
Annotations ==
  {[of |-> "annotate", blunders |-> [i \in 1 .. n |-> i], size |-> 2, retries |-> 1,
    replies |-> r] :
     n \in 0 .. 3, r \in [1 .. 2 -> [1 .. 2 -> Replies]]}

-----------------------------------------------------------------------------
(* Boards: up to two pawns of each side around the middle, and the unions   *)
(* of two of the skeletons the archetypes are made of.                      *)
Middle == {3, 4, 5} \X {2, 3, 4, 5}
Few == UNION {kSubset(n, Middle) : n \in 0 .. 2}
Castled == {[white |-> <<5, 1>>, black |-> <<5, 8>>], [white |-> <<3, 1>>, black |-> <<7, 8>>],
            [white |-> <<4, 3>>, black |-> <<2, 8>>]}
Skeletons ==
  {[w |-> {<<4, 4>>, <<5, 3>>, <<6, 4>>}, b |-> {<<3, 7>>}],
   [w |-> {<<1, 3>>, <<2, 3>>, <<4, 3>>, <<5, 3>>}, b |-> {}],
   [w |-> {<<3, 4>>, <<5, 4>>}, b |-> {<<4, 6>>}],
   [w |-> {<<3, 4>>, <<4, 4>>}, b |-> {<<2, 7>>, <<4, 6>>}],
   [w |-> {<<4, 4>>, <<5, 5>>}, b |-> {<<4, 5>>, <<5, 6>>}],
   [w |-> {<<4, 5>>, <<5, 4>>}, b |-> {<<5, 5>>, <<4, 6>>}],
   [w |-> {<<4, 4>>, <<5, 2>>}, b |-> {<<4, 5>>, <<3, 6>>}],
   [w |-> {<<1, 2>>, <<2, 2>>, <<7, 2>>, <<8, 2>>},
    b |-> {<<1, 7>>, <<2, 7>>, <<7, 7>>, <<8, 7>>}]}
Pairs ==
  {[w |-> w, b |-> v] : w \in Few, v \in Few} \cup
  {[w |-> s.w \cup t.w, b |-> s.b \cup t.b] : s \in Skeletons, t \in Skeletons} \cup
  {[w |-> s.w \cup {Mirror(x) : x \in t.b}, b |-> s.b \cup {Mirror(x) : x \in t.w}] :
     s \in Skeletons, t \in Skeletons}
Boards ==
  {[of |-> "board",
    board |-> [white |-> p.w, black |-> p.b, king |-> k, queens |-> q, pieces |-> q + 4]] :
     p \in {x \in Pairs : x.w \cap x.b = {}}, k \in Castled, q \in {0, 2}}

(* Exchanges: up to two attackers of each side, and the lines among them;   *)
(* and what stands around a rook on d5 that a pawn on c4 or a knight can    *)
(* take, with a bishop on b3 and a queen on a2 behind the pawn, a rook on d1*)
(* behind another on d2, and a queen that pins the knight while it stays.   *)
P(k, w, n) == [kind |-> k, white |-> w, pinned |-> FALSE, n |-> n]
Aimed(w) ==
  {P(k, w, n) : k \in {"pawn", "rook"}, n \in 1 .. 2} \cup
  {P("queen", w, 1), P("king", w, 1), P("knight", w, 1),
   [P("knight", w, 2) EXCEPT !.pinned = TRUE]}
Side(w, high) == UNION {kSubset(n, Aimed(w)) : n \in 0 .. high}
Calm(last) == [last |-> last, behind |-> {}, lines |-> {}]
StillTrades ==
  {Trade(m, t, k, Calm(l)) :
     m \in Side(TRUE, 3), t \in Side(FALSE, 3), k \in {"knight", "rook"}, l \in BOOLEAN}

D5 == [c4 |-> P("pawn", TRUE, 1), f4 |-> P("knight", TRUE, 1), d2 |-> P("rook", TRUE, 1),
       d1 |-> P("rook", TRUE, 2), b3 |-> P("bishop", FALSE, 1), a2 |-> P("queen", FALSE, 1),
       f6 |-> P("knight", FALSE, 1), d8 |-> P("rook", FALSE, 1), e5 |-> P("king", FALSE, 1)]
D5Behind ==
  {<<D5.b3, D5.c4>>, <<D5.a2, D5.c4>>, <<D5.a2, D5.b3>>, <<D5.d1, D5.d2>>}
D5Lines ==
  {[king |-> TRUE, by |-> {D5.a2}, over |-> {D5.d2}],
   [king |-> TRUE, by |-> {}, over |-> {D5.c4, D5.f4}],
   [king |-> FALSE, by |-> {D5.d1}, over |-> {D5.f4}]}
D5Trades ==
  {Trade(S \cap {D5.c4, D5.f4, D5.d2, D5.d1}, S \cap {D5.b3, D5.a2, D5.f6, D5.d8, D5.e5}, k,
         [last |-> FALSE, behind |-> D5Behind, lines |-> L]) :
     S \in SUBSET {D5[x] : x \in DOMAIN D5}, k \in {"pawn", "rook"}, L \in SUBSET D5Lines}

Exchanges ==
  {[of |-> "exchange", mine |-> e.mine, theirs |-> e.theirs, target |-> e.target,
    layout |-> e.layout] : e \in StillTrades \cup D5Trades}

-----------------------------------------------------------------------------

Init == call \in [of : {"nothing"}, next : 1 .. 7]

(* Every sampled call is one the callers make.                              *)
Choose(n, calls) ==
  /\ call = [of |-> "nothing", next |-> n]
  /\ call' \in calls
  /\ Assert(LegalCall', <<"not a legal call", call'>>)

Next ==
  \/ Choose(1, Batches) \/ Choose(2, Questions) \/ Choose(3, Games)
  \/ Choose(4, Samples) \/ Choose(5, Annotations) \/ Choose(6, Boards)
  \/ Choose(7, Exchanges)

Spec == Init /\ [][Next]_call

=============================================================================
