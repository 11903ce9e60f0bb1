--------------------------- MODULE QueueContract ---------------------------
(***************************************************************************)
(* What the Postgres job queue promises its clients, with no worker, no    *)
(* transaction and no row: a job that was put in the queue waits, is       *)
(* reserved by somebody when it is the best-ranked job still waiting, runs *)
(* at most MaxRuns times and never twice at once, and after a run is       *)
(* finished, given back or buried.  Finished and buried jobs stay so.      *)
(*                                                                         *)
(* A job whose runner dies stays active for ever: the contract has no      *)
(* action that takes a job away from a dead runner.                        *)
(***************************************************************************)
EXTENDS Naturals

CONSTANTS
  Job,          (* the jobs that may ever be put in the queue               *)
  Rank,         (* what orders waiting jobs: records with prio and created  *)
  NoRank,       (* the rank of a job that was never put in the queue        *)
  MaxRuns       (* how often one job may be run                             *)

VARIABLES
  phase,        (* phase[j]: where job j is                                 *)
  rank,         (* rank[j]: fixed when the job is put in the queue          *)
  runs          (* runs[j]: how many runs of j have begun                   *)

vars == <<phase, rank, runs>>

(* r is drained strictly before s.                                         *)
Before(r, s) ==
  \/ r.prio < s.prio
  \/ r.prio = s.prio /\ r.created < s.created

Waiting == {j \in Job : phase[j] = "waiting"}

(* The jobs no waiting job precedes.  Two jobs of equal rank may tie.      *)
Foremost == {j \in Waiting : \A k \in Waiting : ~Before(rank[k], rank[j])}

Init ==
  /\ phase = [j \in Job |-> "unborn"]
  /\ rank = [j \in Job |-> NoRank]
  /\ runs = [j \in Job |-> 0]

----------------------------------------------------------------------------

(* A rank is drawn for a job before the job can be seen by anybody.        *)
Draw(j) ==
  /\ phase[j] = "unborn"
  /\ rank[j] = NoRank
  /\ rank'[j] \in Rank
  /\ rank' = [rank EXCEPT ![j] = rank'[j]]
  /\ UNCHANGED <<phase, runs>>

Put(j) ==
  /\ phase[j] = "unborn"
  /\ rank[j] # NoRank
  /\ phase' = [phase EXCEPT ![j] = "waiting"]
  /\ UNCHANGED <<rank, runs>>

Reserve(j) ==
  /\ j \in Foremost
  /\ phase' = [phase EXCEPT ![j] = "reserved"]
  /\ UNCHANGED <<rank, runs>>

Unreserve(j) ==
  /\ phase[j] = "reserved"
  /\ phase' = [phase EXCEPT ![j] = "waiting"]
  /\ UNCHANGED <<rank, runs>>

Start(j) ==
  /\ phase[j] = "reserved"
  /\ runs[j] < MaxRuns
  /\ phase' = [phase EXCEPT ![j] = "active"]
  /\ runs' = [runs EXCEPT ![j] = @ + 1]
  /\ UNCHANGED rank

Finish(j) ==
  /\ phase[j] = "active"
  /\ phase' = [phase EXCEPT ![j] = "finished"]
  /\ UNCHANGED <<rank, runs>>

GiveBack(j) ==
  /\ phase[j] = "active"
  /\ runs[j] < MaxRuns
  /\ phase' = [phase EXCEPT ![j] = "waiting"]
  /\ UNCHANGED <<rank, runs>>

Bury(j) ==
  /\ phase[j] = "active"
  /\ phase' = [phase EXCEPT ![j] = "buried"]
  /\ UNCHANGED <<rank, runs>>

Next ==
  \E j \in Job :
    \/ Draw(j)
    \/ Put(j)
    \/ Reserve(j)
    \/ Unreserve(j)
    \/ Start(j)
    \/ Finish(j)
    \/ GiveBack(j)
    \/ Bury(j)

Spec == Init /\ [][Next]_vars

=============================================================================
