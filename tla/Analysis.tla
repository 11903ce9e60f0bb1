------------------------------ MODULE Analysis ------------------------------
(* From games to judged moves: what analyzeGames makes of a batch of PGNs   *)
(* (engine_pool.cpp), how the Python side asks it about single moves and    *)
(* matches the answers (engine.py), and the two passes of the funnel that   *)
(* decide which moves are looked at (funnel.py, deep.py, flows.py).         *)
(* A FEN is a record with a name and the side to move; the engine (external)*)
(* is [lines, mated, stale]: a sequence of scores for every FEN, best first,*)
(* and the FENs without a legal move.                                       *)
EXTENDS Scores, SequencesExt

Nothing == [uci |-> "nothing"]
NoEval == 2 * MateScore     \* None: no score has this value.

(* The elements of seq at these places, in order: SelectSeq by place.       *)
Picked(seq, places) ==
  [k \in 1 .. Cardinality(places) |->
    seq[CHOOSE i \in places : Cardinality({j \in places : j <= i}) = k]]

(* A PGN is [standard, toks, fens]: its variant, its tokens (a UCI move,    *)
(* "result", or "bad": neither) and the FENs its moves pass through.        *)
Read(toks) ==
  LET bad == SelectInSeq(toks, LAMBDA t : t = "bad")
  IN Picked(toks, {i \in DOMAIN toks : (bad # 0 => i < bad) /\ toks[i] # "result"})

(* GameCollector: a game of another variant, or without a move, is dropped. *)
Parse(pgn) ==
  LET plies == IF pgn.standard THEN Read(pgn.toks) ELSE <<>>
  IN [plies |-> plies, fens |-> SubSeq(pgn.fens, 1, Len(plies) + 1)]
ParsePgns(pgns) ==
  LET parsed == [i \in DOMAIN pgns |-> Parse(pgns[i])]
  IN Picked(parsed, {i \in DOMAIN pgns : parsed[i].plies # <<>>})

PositionEval(engine, fen) ==
  CASE fen \in engine.mated -> <<-MateScore>>
    [] fen \in engine.stale -> <<Cp(0)>>
    [] OTHER -> engine.lines[fen]

(* One move: both positions evaluated, seen from the mover, then White.     *)
MoveAnalysis(fen, uci, before, after, ply) ==
  LET delta == DeltaCp(before[1], after[1])
      best == WhitePov(before[1], fen.white)
      sharp == Sharpness(before)
  IN [ply |-> ply, fen |-> fen, uci |-> uci, best_eval |-> best,
      eval |-> WhitePov(-after[1], fen.white), delta |-> delta,
      severity |-> ClassifySeverity(delta, best, sharp)]

(* Every distinct FEN of the batch is evaluated once, at its own index.     *)
Distinct(seq) ==
  Picked(seq, {i \in DOMAIN seq : \A j \in 1 .. i - 1 : seq[j] # seq[i]})

(* Mutant: the index of a FEN is that of its board, whoever is to move.     *)
FenIndexByBoard(fens, f) == SelectInSeq(fens, LAMBDA x : x.name = f.name)

FenIndex(fens, f) == SelectInSeq(fens, LAMBDA x : x = f)

AnalyzeGames(pgns, engine) ==
  LET games == ParsePgns(pgns)
      fens == Distinct(FlattenSeq([g \in DOMAIN games |-> games[g].fens]))
      evals == [i \in DOMAIN fens |-> PositionEval(engine, fens[i])]
      At(f) == evals[FenIndex(fens, f)]
  IN [g \in DOMAIN games |->
       [i \in DOMAIN games[g].plies |->
         MoveAnalysis(games[g].fens[i], games[g].plies[i],
                      At(games[g].fens[i]), At(games[g].fens[i + 1]), i - 1)]]

(* EngineAnalyzer.analyze: a one-move PGN for each position [fen, uci, then,*)
(* legible], the answers of a move consumed in the order they come.         *)
CandidatePgn(p) ==
  [standard |-> TRUE, toks |-> <<IF p.legible THEN p.uci ELSE "bad">>,
   fens |-> <<p.fen, p.then>>]

(* Mutant: the answers are taken by place.                                  *)
MatchByPlace(positions, games) ==
  [i \in DOMAIN positions |-> IF i <= Len(games) THEN games[i][1] ELSE Nothing]

Match(positions, games) ==
  LET Queue(u) == Picked(games, {g \in DOMAIN games : games[g][1].uci = u})
      Turn(i) == Cardinality({j \in 1 .. i : positions[j].uci = positions[i].uci})
  IN [i \in DOMAIN positions |->
       LET q == Queue(positions[i].uci)
       IN IF Turn(i) <= Len(q) THEN q[Turn(i)][1] ELSE Nothing]

Analyze(positions, engine) ==
  Match(positions,
        AnalyzeGames([i \in DOMAIN positions |-> CandidatePgn(positions[i])], engine))

(* A game's moves are [fen, uci, then, legible, mine, eval], by ply from 1  *)
(* here; eval is Lichess's, White's view, of the position after the move.   *)
LossCp(before, after, white) == IF white THEN before - after ELSE after - before
EvalBefore(moves, p) == IF p = 1 THEN 0 ELSE moves[p - 1].eval
Asked(moves, exit) == {p \in DOMAIN moves : moves[p].mine /\ p - 1 >= exit}
Unscored(moves, p) == NoEval \in {EvalBefore(moves, p), moves[p].eval}

(* Mutant: the evaluation after the move decides what is decided.           *)
CheapPassByResult(moves, exit) ==
  {p \in Asked(moves, exit) :
    /\ ~Unscored(moves, p)
    /\ Abs(moves[p].eval) <= DecidedEval
    /\ LossCp(EvalBefore(moves, p), moves[p].eval, moves[p].fen.white) >= 100}

CheapPass(moves, exit) ==
  {p \in Asked(moves, exit) :
    /\ ~Unscored(moves, p)
    /\ Abs(EvalBefore(moves, p)) <= DecidedEval
    /\ LossCp(EvalBefore(moves, p), moves[p].eval, moves[p].fen.white) >= 100}
NeedsScan(moves, exit) == {p \in Asked(moves, exit) : Unscored(moves, p)}

(* scan_user_moves: an answer that is missing is no candidate.              *)
ScanUserMoves(moves, plies, engine) ==
  LET order == Picked([p \in DOMAIN moves |-> p], plies)
      results == Analyze([i \in DOMAIN order |-> moves[order[i]]], engine)
  IN {order[i] : i \in {j \in DOMAIN order :
                          results[j] # Nothing /\ results[j].delta >= 100}}

FindCandidates(moves, exit, engine) ==
  CheapPass(moves, exit) \cup ScanUserMoves(moves, NeedsScan(moves, exit), engine)

-----------------------------------------------------------------------------

(* A batch evaluates every position once, however often and in how many     *)
(* games it occurs, and nobody can tell (engine_pool.cpp:190, 138-139): the *)
(* moves of a game are those it would have alone, games that yield none are *)
(* left out, the order is kept, and no move is made up.  The evaluation     *)
(* after a move is the one the opponent faces, in the same view.            *)
BatchAsIfAlone(pgns, engine) ==
  LET out == AnalyzeGames(pgns, engine) IN
  /\ out = FlattenSeq([i \in DOMAIN pgns |-> AnalyzeGames(<<pgns[i]>>, engine)])
  /\ \A g \in DOMAIN out : \A i \in 1 .. Len(out[g]) - 1 :
       out[g][i].eval = out[g][i + 1].best_eval
  /\ \A i \in DOMAIN pgns :
       LET alone == AnalyzeGames(<<pgns[i]>>, engine)
           toks == pgns[i].toks
           said == Picked(toks, {k \in DOMAIN toks : toks[k] # "result"})
       IN alone # <<>> => \A k \in DOMAIN alone[1] : alone[1][k].uci = said[k]

(* Answers are matched by move UCI (engine.py:107-123).  Each is about a    *)
(* move with the UCI asked for, and about the position asked for unless one *)
(* with that UCI, asked for no later, could not be read.  With nothing      *)
(* unreadable every position has its own answer.                            *)
AnswersMatch(positions, engine) ==
  LET out == Analyze(positions, engine) IN
  \A i \in DOMAIN positions :
    LET right == out[i] # Nothing /\ out[i].fen = positions[i].fen IN
    /\ out[i] # Nothing => out[i].uci = positions[i].uci
    /\ right \/ \E j \in 1 .. i : ~positions[j].legible /\ positions[j].uci = positions[i].uci

(* What the deep pass would call a mistake or a blunder is a candidate of   *)
(* the cheap pass, which sees it through Lichess's evaluations or the scan, *)
(* as long as those agree with the deep ones and both parsers on the moves. *)
(* The first ply is an exception: the cheap pass takes what the mover faced *)
(* there to be 0 (funnel.py:57).                                            *)
NoMistakeSlipsThrough(moves, exit, engine) ==
  LET at(f) == PositionEval(engine, f)
      agree == \A p \in DOMAIN moves :
        /\ moves[p].legible
        /\ moves[p].eval \in {NoEval, WhitePov(at(moves[p].then)[1], moves[p].then.white)}
  IN
  agree =>
    \A p \in Asked(moves, exit) :
      LET deep == Analyze(<<moves[p]>>, engine)[1] IN
      /\ deep.severity \in {"mistake", "blunder"}
      /\ p = 1 => at(moves[1].fen)[1] = 0
      => p \in FindCandidates(moves, exit, engine)

=============================================================================
