----------------------------- MODULE MCGameRows -----------------------------
(* A small instance of GameRows for TLC.                                   *)
EXTENDS GameRows

CONSTANTS w1, w2

MCWorkers == {w1, w2}

=============================================================================
