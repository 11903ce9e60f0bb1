-------------------------------- MODULE Calls --------------------------------
(* One call of one of the program's pure functions, whatever its arguments: *)
(* call.of says of which function.  LegalCall is what the callers see to,   *)
(* and what a function returns is judged by a property of all its calls.    *)
EXTENDS Analysis, Sampler, Annotation, Pawns, Exchange

VARIABLE call

-----------------------------------------------------------------------------
(* What the arguments are.                                                  *)

Fens == [name : STRING, white : BOOLEAN]
Movetext == STRING \ {Nothing.uci, "bad", "result"}
Tokens == Movetext \cup {"bad", "result"}
Evaluations == (-MateScore) .. MateScore

(* The lines of a position, best first, on the one scale of Scores.         *)
Scored(lines) == lines \in Seq(Int) /\ lines # <<>> /\ lines[1] \in Evaluations
Answered(engine, f) == Scored(PositionEval(engine, f))

(* A PGN: after each of its moves the other side is to move.                *)
LegalPgn(pgn, engine) ==
  /\ pgn.standard \in BOOLEAN
  /\ pgn.toks \in Seq(Tokens) /\ pgn.fens \in Seq(Fens)
  /\ Len(pgn.toks) < Len(pgn.fens)
  /\ \A i \in DOMAIN pgn.fens : Answered(engine, pgn.fens[i])
  /\ \A i \in 1 .. Len(pgn.fens) - 1 : pgn.fens[i + 1].white = ~pgn.fens[i].white

LegalBatch(pgns, engine) ==
  DOMAIN pgns = 1 .. Len(pgns) /\ \A i \in DOMAIN pgns : LegalPgn(pgns[i], engine)

(* A move to ask about, and the position it leads to, the other side's.     *)
LegalAsk(p, engine) ==
  /\ p.fen \in Fens /\ p.then \in Fens /\ p.then.white = ~p.fen.white
  /\ p.uci \in Movetext /\ p.legible \in BOOLEAN
  /\ Answered(engine, p.fen) /\ Answered(engine, p.then)

LegalQuestions(positions, engine) ==
  DOMAIN positions = 1 .. Len(positions)
  /\ \A i \in DOMAIN positions : LegalAsk(positions[i], engine)

(* A game: every move leads to the position of the next.                    *)
LegalGame(moves, exit, engine) ==
  /\ LegalQuestions(moves, engine)
  /\ \A p \in DOMAIN moves :
       /\ moves[p].mine \in BOOLEAN /\ moves[p].eval \in Int
       /\ p + 1 \in DOMAIN moves => moves[p].then = moves[p + 1].fen
  /\ exit \in Nat

(* Fetched games: finitely many, told apart by their place in the answer.   *)
Fetched(games) ==
  /\ IsFiniteSet(games)
  /\ games \subseteq [id : Nat, created : Nat]
  /\ \A g, h \in games : g.id = h.id => g = h

PawnBoards ==
  [white : SUBSET Squares, black : SUBSET Squares, king : [Colours -> Squares],
   queens : Nat, pieces : Nat]

LegalCall ==
  CASE call.of = "batch" -> LegalBatch(call.pgns, call.engine)
    [] call.of = "ask" -> LegalQuestions(call.positions, call.engine)
    [] call.of = "game" -> LegalGame(call.moves, call.exit, call.engine)
    [] call.of = "sample" ->
         /\ Fetched(call.games)
         /\ call.strategy \in {"recent", "random", "stratified"}
         /\ call.cap \in Nat /\ call.recentN \in Nat /\ call.olderN \in Nat
    [] call.of = "annotate" ->
         /\ call.blunders \in Seq(Nat)
         /\ call.size \in Nat \ {0} /\ call.retries \in Nat
    [] call.of = "board" -> call.board \in PawnBoards
    [] call.of = "exchange" ->
         Trade(call.mine, call.theirs, call.target, call.layout) \in Trades
    [] OTHER -> TRUE

(* Any calls at all, one after the other.                                   *)
AnyCalls == LegalCall /\ [][LegalCall']_call

-----------------------------------------------------------------------------

(* BatchAsIfAlone (Analysis), of every batch: the analysis of a game does   *)
(* not depend on the games it is evaluated with.                            *)
BatchesAsIfAlone == call.of = "batch" => BatchAsIfAlone(call.pgns, call.engine)

(* AnswersMatch (Analysis), of every list of moves asked about.             *)
AnswersAlwaysMatch == call.of = "ask" => AnswersMatch(call.positions, call.engine)

(* NoMistakeSlipsThrough (Analysis), of every game.                         *)
MistakesAreCandidates ==
  call.of = "game" => NoMistakeSlipsThrough(call.moves, call.exit, call.engine)

(* SampleWithinCaps (Sampler), of every set of games and parameters.        *)
SamplesWithinCaps ==
  call.of = "sample" =>
    SampleWithinCaps(call.games, call.strategy, call.cap, call.recentN, call.olderN)

(* AnnotationsAligned (Annotation), of every run of replies.                *)
AnnotationsStayAligned ==
  call.of = "annotate" =>
    AnnotationsAligned(call.blunders, call.size, call.replies, call.retries)

(* ColourBlind (Pawns), of every board.                                     *)
BoardsColourBlind == call.of = "board" => ColourBlind(call.board)

(* GainIsSound (Exchange), of every exchange.                               *)
ExchangesAreSound ==
  call.of = "exchange" =>
    GainIsSound(call.mine, call.theirs, call.target, call.layout)

=============================================================================
