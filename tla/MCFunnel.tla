------------------------------ MODULE MCFunnel ------------------------------
(* Small instances of Funnel for TLC.                                      *)
EXTENDS Funnel, TLC

CONSTANTS w1, w2

MCWorkers == {w1, w2}

(* One user with two games: white in the one, black in the other.          *)
OneUser == {"ann"}
TwoSources == {"A", "B"}
TwoPlayers == [s \in TwoSources |->
  IF s = "A" THEN <<"ann", "somebody">> ELSE <<"somebody", "ann">>]
OwnId == [s \in TwoSources |-> s]
TwoFeed == [u \in OneUser |-> <<"A", "B">>]

(* A blunder in A, none in B.                                              *)
OneBlunder == [q \in Positions |-> IF q[1] = "A" THEN "flagged" ELSE "clean"]

(* One rated game.                                                         *)
OneSource == {"A"}
OneId == [s \in OneSource |-> s]
OnePlayers == [s \in OneSource |-> <<"ann", "somebody">>]
OneFeed == [u \in OneUser |-> <<"A">>]

(* A rated game A, and two pasted games P and Q with no lichess_id: their  *)
(* rows collide.                                                           *)
PastedSources == {"A", "P", "Q"}
PastedIds == {"A", ""}
PastedId == [s \in PastedSources |-> IF s = "A" THEN "A" ELSE ""]
PastedPlayers == [s \in PastedSources |->
  CASE s = "A" -> <<"ann">>
    [] s = "P" -> <<"ann">>
    [] s = "Q" -> <<"somebody", "ann">>]
PastedFeed == [u \in OneUser |-> <<"A">>]
AllFlagged == [q \in Positions |-> "flagged"]

(* A game of two users, each of whom may hand it in.                       *)
TwoUsers == {"ann", "bob"}
SharedSource == {"A"}
SharedPlayers == [s \in SharedSource |-> <<"ann", "bob">>]
SharedId == [s \in SharedSource |-> s]
NoFeed == [u \in TwoUsers |-> <<>>]

MCSymmetry == Permutations(Worker)

=============================================================================
