---------------------------- MODULE MCIndexCache ----------------------------
(* Small instances of IndexCache for TLC.                                  *)
EXTENDS IndexCache, TLC

CONSTANTS i1, i2, i3, w1, w2, r1

MCIds == {i1, i2, i3}
MCWorkers == {w1, w2}
MCReaders == {r1}

(* Two games: one that may have two blunders, or one twice analysed.       *)
MCGames == {"g", "h"}
MCGameOf == [i \in MCIds |-> IF i = i3 THEN "h" ELSE "g"]

(* The blunders of one game are alike.                                     *)
MCSymmetry == Permutations(Worker) \cup Permutations({i1, i2})

=============================================================================
