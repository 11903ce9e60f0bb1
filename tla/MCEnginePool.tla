---------------------------- MODULE MCEnginePool ----------------------------
(* Small instances of EnginePool for TLC.                                  *)
EXTENDS EnginePool

=============================================================================
