----------------------------- MODULE MCLichess -----------------------------
(* Small instances of the two users of the Lichess client.  They share no   *)
(* state: a behaviour has scans (Explorer) or backfills (Sync), not both.   *)
EXTENDS Explorer, Sync

CONSTANTS f1, f2

VARIABLE part    (* which of the two this behaviour has                     *)

MCWalks == {<<f1, f2>>, <<f1>>}

LInit ==
  /\ Init /\ SyncInit
  /\ part \in {"scans", "backfills"}
  /\ part = "backfills" => popular = [f \in Fen |-> 0]

ScanStep == part = "scans" /\ Next /\ UNCHANGED <<syncVars, part>>
BackfillStep == part = "backfills" /\ SyncNext /\ UNCHANGED <<vars, part>>

LNext == ScanStep \/ BackfillStep

LSpec ==
  /\ LInit
  /\ [][LNext]_<<vars, syncVars, part>>
  /\ \A w \in Worker : WF_vars(Step(w))

=============================================================================
