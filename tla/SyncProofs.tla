----------------------------- MODULE SyncProofs -----------------------------
(* Proofs about Sync, for any number of workers, games and backfills.       *)
(*                                                                          *)
(* The argument: a backfill asks for the games since some last_synced_at of *)
(* the past.  Of those that began before, the invariant has already said    *)
(* what became of them; of the others it fetched what was over, and cut     *)
(* off, is still to store or has stored each.  What was not over ends after *)
(* the fetch, and the pair of fetch and last_synced_at is its excuse.       *)
EXTENDS Sync, TLAPS

(* Clock times.                                                             *)
Times ==
  /\ clock \in Nat
  /\ born \in [Game -> Nat] /\ over \in [Game -> Nat]
  /\ \A g \in Game : born[g] <= clock /\ over[g] <= clock /\ (over[g] > 0 => born[g] > 0)
  /\ last \in Nat /\ last <= clock

Locals == [at : {"ask", "store"}, since : Nat, cap : Caps, asked : Nat, got : SUBSET Game]

(* Every since was once last_synced_at, or is nothing.                      *)
Sinces ==
  /\ \A p \in queue : p.since \in Nat /\ p.since <= last /\ p.cap \in Caps
  /\ \A w \in Process : job[w] # Free => job[w].since <= last /\ job[w].asked <= clock

(* What a worker that stores has still to store.                            *)
Owed ==
  \A w \in Process : JobAt(w, "store") =>
    \A g \in Game :
      over[g] > 0 /\ over[g] <= job[w].asked /\ born[g] >= job[w].since =>
        g \in cut \/ g \in job[w].got \/ g \in stored

Excused(g) == g \in cut \/ \E s \in stamps : s.asked < over[g] /\ born[g] < s.at

(* The last of the stamps is last_synced_at.                                *)
Stamped ==
  /\ \A s \in stamps : s.asked \in Nat /\ s.at \in Nat /\ s.asked <= clock
  /\ last > 0 => \E s \in stamps : s.at = last

IInv ==
  /\ job \in [Process -> {Free} \cup Locals]
  /\ Times /\ Sinces /\ Owed /\ Stamped /\ LostOnlyWhileFetching

-----------------------------------------------------------------------------

LEMMA InitIInv == SyncInit => IInv
  <1> SUFFICES ASSUME SyncInit PROVE IInv
    OBVIOUS
  <1>1. /\ clock = 0 /\ last = 0 /\ queue = {} /\ stamps = {}
        /\ born = [g \in Game |-> 0] /\ over = [g \in Game |-> 0]
        /\ job = [w \in Process |-> Free]
    BY DEF SyncInit
  <1>2. job \in [Process -> {Free} \cup Locals] /\ \A w \in Process : job[w] = Free
    BY <1>1
  <1>3. Times /\ Stamped
    BY <1>1 DEF Times, Stamped
  <1>4. Sinces
    BY <1>1, <1>2 DEF Sinces
  <1>5. Owed
    BY <1>2 DEF Owed, JobAt, Free
  <1>6. LostOnlyWhileFetching
    BY <1>1 DEF LostOnlyWhileFetching
  <1> QED
    BY <1>2, <1>3, <1>4, <1>5, <1>6 DEF IInv

LEMMA StartsIInv ==
  ASSUME IInv, NEW g \in Game, Starts(g)
  PROVE  IInv'
  <1>1. /\ clock' = clock + 1 /\ born' = [born EXCEPT ![g] = clock + 1] /\ born[g] = 0
        /\ UNCHANGED <<over, stored, last, queue, job, tries, cut, stamps>>
    BY DEF Starts, Tick
  <1>2. over[g] = 0 /\ \A h \in Game : over[h] > 0 => born'[h] = born[h]
    BY <1>1 DEF IInv, Times
  <1>3. Times'
    BY <1>1, <1>2 DEF IInv, Times
  <1>4. Sinces'
    <2>1. \A w \in Process : job[w] # Free => job[w].asked \in Nat
      BY DEF IInv, Locals
    <2> QED
      BY <1>1, <2>1 DEF IInv, Times, Sinces
  <1>5. Stamped'
    BY <1>1 DEF IInv, Times, Stamped
  <1>6. Owed'
    BY <1>1, <1>2 DEF IInv, Owed, JobAt
  <1>7. LostOnlyWhileFetching'
    BY <1>1, <1>2 DEF IInv, LostOnlyWhileFetching
  <1> QED
    BY <1>1, <1>3, <1>4, <1>5, <1>6, <1>7 DEF IInv

LEMMA EndsIInv ==
  ASSUME IInv, NEW g \in Game, Ends(g)
  PROVE  IInv'
  <1>1. /\ clock' = clock + 1 /\ over' = [over EXCEPT ![g] = clock + 1]
        /\ born[g] > 0 /\ over[g] = 0
        /\ UNCHANGED <<born, stored, last, queue, job, tries, cut, stamps>>
    BY DEF Ends, Tick
  <1>a. \A w \in Process : job[w] # Free => job[w].asked \in Nat /\ job[w].asked <= clock
    BY DEF IInv, Sinces, Locals
  <1>2. (Times /\ Sinces /\ Stamped)'
    <2>1. Times'
      BY <1>1 DEF IInv, Times
    <2>2. Sinces'
      BY <1>1, <1>a DEF IInv, Times, Sinces
    <2>3. Stamped'
      BY <1>1 DEF IInv, Times, Stamped
    <2> QED
      BY <2>1, <2>2, <2>3
  <1>3. Owed'
    <2> SUFFICES ASSUME NEW w \in Process, JobAt(w, "store"), NEW h \in Game,
                        over'[h] > 0, over'[h] <= job[w].asked, born[h] >= job[w].since
                 PROVE  h \in cut \/ h \in job[w].got \/ h \in stored
      BY <1>1 DEF Owed, JobAt
    <2>1. job[w].asked \in Nat /\ job[w].asked <= clock
      BY <1>a DEF JobAt, Free
    <2>2. h # g
      BY <1>1, <2>1 DEF IInv, Times
    <2>3. over'[h] = over[h]
      BY <1>1, <2>2 DEF IInv, Times
    <2> QED
      BY <2>3 DEF IInv, Owed
  <1>4. LostOnlyWhileFetching'
    <2> SUFFICES ASSUME NEW h \in Game, over'[h] > 0, born[h] < last, h \notin stored
                 PROVE  h \in cut \/ \E s \in stamps : s.asked < over'[h] /\ born[h] < s.at
      BY <1>1 DEF LostOnlyWhileFetching
    <2>1. CASE h = g
      <3>1. PICK s \in stamps : s.at = last
        BY DEF IInv, Times, Stamped
      <3>2. s.asked < over'[h]
        BY <1>1, <2>1, <3>1 DEF IInv, Times, Stamped
      <3> QED
        BY <3>1, <3>2
    <2>2. CASE h # g
      BY <1>1, <2>2 DEF IInv, Times, LostOnlyWhileFetching
    <2> QED
      BY <2>1, <2>2
  <1> QED
    BY <1>1, <1>2, <1>3, <1>4 DEF IInv, JobAt

LEMMA RequestIInv ==
  ASSUME IInv, NEW full \in BOOLEAN, NEW cap \in Caps, Request(full, cap)
  PROVE  IInv'
  <1>1. \A p \in queue' : p.since \in Nat /\ p.since <= last /\ p.cap \in Caps
    BY DEF Request, Payload, IInv, Times, Sinces
  <1>2. UNCHANGED <<clock, born, over, stored, last, job, cut, stamps>>
    BY DEF Request, world
  <1> QED
    BY <1>1, <1>2 DEF IInv, Times, Sinces, Owed, Stamped, LostOnlyWhileFetching, JobAt

LEMMA TakeIInv ==
  ASSUME IInv, NEW w \in Process, NEW p \in queue, Take(w, p)
  PROVE  IInv'
  <1> DEFINE l == [at |-> "ask", since |-> p.since, cap |-> p.cap, asked |-> 0, got |-> {}]
  <1>1. /\ job' = [job EXCEPT ![w] = l] /\ l \in Locals
        /\ l.at = "ask" /\ l.since = p.since /\ l.asked = 0
    BY DEF Take, Proceed, IInv, Sinces, Locals
  <1>2. queue' \subseteq queue /\ UNCHANGED <<clock, born, over, stored, last, cut, stamps>>
    BY DEF Take, world
  <1> HIDE DEF l
  <1>3. job' \in [Process -> {Free} \cup Locals]
    BY <1>1 DEF IInv
  <1>4. Sinces' /\ Owed'
    BY <1>1, <1>2 DEF IInv, Times, Sinces, Owed, JobAt
  <1> QED
    BY <1>2, <1>3, <1>4 DEF IInv, Times, Stamped, LostOnlyWhileFetching

(* What is over and not in the answer was cut off.                          *)
LEMMA FetchIInv ==
  ASSUME IInv, NEW w \in Process, Fetch(w)
  PROVE  IInv'
  <1> DEFINE all == Export(job[w].since)
             got == Newest(job[w].cap, all)
             l == [job[w] EXCEPT !.at = "store", !.asked = clock, !.got = got]
  <1>1. job[w] \in Locals /\ got \subseteq Game
    BY DEF Fetch, JobAt, IInv, Free, Newest, Export
  <1>2. cut' = cut \cup (all \ got) /\ job' = [job EXCEPT ![w] = l]
    BY DEF Fetch, Proceed
  <1>3. UNCHANGED <<clock, born, over, stored, last, queue, tries, stamps>>
    BY DEF Fetch, world
  <1>4. l \in Locals /\ l.at = "store" /\ l.asked = clock /\ l.got = got /\ l.since = job[w].since
    BY <1>1 DEF Locals, IInv, Times
  <1>5. \A g \in Game : over[g] > 0 /\ born[g] >= job[w].since => g \in cut' \/ g \in got
    BY <1>2 DEF Export
  <1>6. job[w] # Free
    BY DEF Fetch, JobAt, Free
  <1> HIDE DEF all, got, l
  <1>7. job' \in [Process -> {Free} \cup Locals]
    BY <1>2, <1>4 DEF IInv
  <1>8. Sinces'
    BY <1>2, <1>3, <1>4, <1>6 DEF IInv, Times, Sinces
  <1>9. Owed'
    BY <1>2, <1>3, <1>4, <1>5 DEF IInv, Times, Owed, JobAt
  <1> QED
    BY <1>2, <1>3, <1>7, <1>8, <1>9 DEF IInv, Times, Stamped, LostOnlyWhileFetching

LEMMA StoreIInv ==
  ASSUME IInv, NEW w \in Process, Store(w)
  PROVE  IInv'
  <1> DEFINE first == Newest(1, job[w].got)
             l == [job[w] EXCEPT !.got = @ \ first]
  <1>1. job[w] \in Locals /\ job[w] # Free /\ JobAt(w, "store")
    BY DEF Store, JobAt, IInv, Free
  <1>2. stored' = stored \cup first /\ job' = [job EXCEPT ![w] = l]
    BY DEF Store, Proceed
  <1>3. UNCHANGED <<clock, born, over, last, queue, tries, cut, stamps>>
    BY DEF Store, world
  <1>4. /\ l \in Locals /\ l.at = "store" /\ l.asked = job[w].asked
        /\ l.got = job[w].got \ first /\ l.since = job[w].since
    BY <1>1 DEF Locals, JobAt
  <1> HIDE DEF first, l
  <1>5. job' \in [Process -> {Free} \cup Locals]
    BY <1>2, <1>4 DEF IInv
  <1>6. Sinces'
    BY <1>1, <1>2, <1>3, <1>4 DEF IInv, Times, Sinces
  <1>7. Owed'
    BY <1>1, <1>2, <1>3, <1>4 DEF IInv, Owed, JobAt
  <1> QED
    BY <1>2, <1>3, <1>5, <1>6, <1>7 DEF IInv, Times, Stamped, LostOnlyWhileFetching

(* The games that began since then are settled by this backfill, those that *)
(* began before by the ones that came before it.                            *)
LEMMA StampIInv ==
  ASSUME IInv, NEW w \in Process, Stamp(w)
  PROVE  IInv'
  <1> DEFINE new == [asked |-> job[w].asked, at |-> clock + 1]
  <1>1. job[w] \in Locals /\ job[w] # Free /\ JobAt(w, "store") /\ job[w].got = {}
    BY DEF Stamp, JobAt, IInv, Free
  <1>2. /\ clock' = clock + 1 /\ last' = clock + 1 /\ job' = [job EXCEPT ![w] = Free]
        /\ UNCHANGED <<born, over, stored, queue, tries, cut>>
    BY DEF Stamp, Tick, Proceed
  <1>3. stamps' = {new} \cup {s \in stamps : job[w].since > 0 \/ s.asked > job[w].asked}
    BY DEF Stamp, Tick
  <1>4. new.asked = job[w].asked /\ new.at = clock + 1 /\ new \in stamps'
    BY <1>3
  <1>5. job[w].since \in Nat /\ job[w].asked \in Nat /\ job[w].since <= last /\ job[w].asked <= clock
    BY <1>1 DEF IInv, Sinces, Locals
  <1> HIDE DEF new
  <1>6. job' \in [Process -> {Free} \cup Locals]
    BY <1>2 DEF IInv
  <1>7. Times'
    BY <1>2 DEF IInv, Times
  <1>8. Sinces'
    <2>1. \A v \in Process : job'[v] # Free => job'[v] = job[v] /\ job[v] # Free /\ job[v].asked \in Nat
      BY <1>2 DEF IInv, Locals
    <2> QED
      BY <1>2, <2>1 DEF IInv, Times, Sinces, Locals
  <1>9. Owed'
    BY <1>2 DEF IInv, Owed, JobAt, Free
  <1>10. Stamped'
    BY <1>2, <1>3, <1>4, <1>5 DEF IInv, Times, Stamped
  <1>11. LostOnlyWhileFetching'
    <2> SUFFICES ASSUME NEW g \in Game, over[g] > 0, born[g] < clock + 1, g \notin stored
                 PROVE  g \in cut \/ \E s \in stamps' : s.asked < over[g] /\ born[g] < s.at
      BY <1>2 DEF LostOnlyWhileFetching
    <2>1. over[g] \in Nat /\ born[g] \in Nat
      BY DEF IInv, Times
    <2>2. CASE over[g] > job[w].asked
      BY <1>4, <2>2
    <2>3. CASE over[g] <= job[w].asked /\ born[g] >= job[w].since
      BY <1>1, <2>3 DEF IInv, Owed
    <2>4. CASE over[g] <= job[w].asked /\ born[g] < job[w].since
      <3>1. job[w].since > 0 /\ stamps \subseteq stamps'
        BY <1>3, <1>5, <2>1, <2>4
      <3>2. born[g] < last
        BY <1>5, <2>1, <2>4 DEF IInv, Times
      <3>3. g \in cut \/ \E s \in stamps : s.asked < over[g] /\ born[g] < s.at
        BY <3>2 DEF IInv, LostOnlyWhileFetching
      <3> QED
        BY <3>1, <3>3
    <2> QED
      BY <1>5, <2>1, <2>2, <2>3, <2>4
  <1> QED
    BY <1>6, <1>7, <1>8, <1>9, <1>10, <1>11 DEF IInv

LEMMA FailsIInv ==
  ASSUME IInv, NEW w \in Process, Fails(w)
  PROVE  IInv'
  <1>1. job[w] \in Locals /\ job[w] # Free
    BY DEF Fails, JobAt, IInv, Free
  <1>2. /\ job' = [job EXCEPT ![w] = Free]
        /\ queue' = queue \cup {[since |-> job[w].since, cap |-> job[w].cap]}
        /\ UNCHANGED <<clock, born, over, stored, last, tries, cut, stamps>>
    BY DEF Fails, Proceed, Payload, world
  <1>3. job' \in [Process -> {Free} \cup Locals]
    BY <1>2 DEF IInv
  <1>4. Sinces'
    BY <1>1, <1>2 DEF IInv, Sinces, Locals
  <1>5. Owed'
    BY <1>2 DEF IInv, Owed, JobAt, Free
  <1> QED
    BY <1>2, <1>3, <1>4, <1>5 DEF IInv, Times, Stamped, LostOnlyWhileFetching

LEMMA Invariance == SyncSpec => []IInv
  <1>1. IInv /\ [SyncNext]_syncVars => IInv'
    <2> SUFFICES ASSUME IInv, [SyncNext]_syncVars PROVE IInv'
      OBVIOUS
    <2>1. CASE UNCHANGED syncVars
      BY <2>1 DEF syncVars, world, IInv, Times, Sinces, Owed, Stamped, LostOnlyWhileFetching, JobAt
    <2> QED
      BY <2>1, StartsIInv, EndsIInv, RequestIInv, TakeIInv, FetchIInv, StoreIInv, StampIInv,
         FailsIInv
      DEF SyncNext
  <1> QED
    BY <1>1, InitIInv, PTL DEF SyncSpec

(* A finished game that began before last_synced_at and is not stored was   *)
(* cut off by max_games or was being played when the games were fetched     *)
(* (run_backfill), whatever the number of workers, retries and requests.    *)
THEOREM Lost == SyncSpec => []LostOnlyWhileFetching
  BY Invariance, PTL DEF IInv

(* Only games that are over are stored, or fetched to be stored.            *)
Finished ==
  /\ stored \subseteq {g \in Game : over[g] > 0}
  /\ \A w \in Process : job[w] # Free => job[w].got \subseteq Export(job[w].since)

(* What is over stays over, and began when it did.                          *)
LEMMA OverStays ==
  ASSUME IInv, [SyncNext]_syncVars
  PROVE  \A g \in Game : over[g] > 0 => over'[g] > 0 /\ born'[g] = born[g]
  <1>1. ASSUME NEW g \in Game, Starts(g)
        PROVE  over' = over /\ \A h \in Game : over[h] > 0 => born'[h] = born[h]
    BY <1>1 DEF Starts, Tick, IInv, Times
  <1>2. ASSUME NEW g \in Game, Ends(g)
        PROVE  born' = born /\ \A h \in Game : over[h] > 0 => over'[h] > 0
    BY <1>2 DEF Ends, Tick, IInv, Times
  <1>3. ASSUME \/ \E full \in BOOLEAN, cap \in Caps : Request(full, cap)
               \/ \E w \in Process : Fetch(w) \/ Store(w) \/ Stamp(w) \/ Fails(w)
                                    \/ \E p \in queue : Take(w, p)
               \/ UNCHANGED syncVars
        PROVE  born' = born /\ over' = over
    BY <1>3 DEF Request, Fetch, Store, Stamp, Fails, Take, world, syncVars
  <1> QED
    BY <1>1, <1>2, <1>3 DEF SyncNext

(* One step per action that stores or fetches; the others drop or keep.     *)
LEMMA FinishedStep ==
  ASSUME IInv, Finished, [SyncNext]_syncVars
  PROVE  Finished'
  <1>1. ASSUME NEW v \in Process, job[v] # Free
        PROVE  \A g \in job[v].got :
                 g \in Game /\ over[g] > 0 /\ over'[g] > 0 /\ born'[g] >= job[v].since
    BY <1>1, OverStays DEF Finished, Export
  <1>2. {g \in Game : over[g] > 0} \subseteq {g \in Game : over'[g] > 0}
    BY OverStays
  <1>3. CASE \/ \E g \in Game : Starts(g) \/ Ends(g)
             \/ \E full \in BOOLEAN, cap \in Caps : Request(full, cap)
             \/ UNCHANGED syncVars
    <2>1. job' = job /\ stored' = stored
      BY <1>3 DEF Starts, Ends, Request, syncVars
    <2> QED
      BY <1>1, <1>2, <2>1 DEF Finished, Export
  <1>4. ASSUME NEW w \in Process, Stamp(w) \/ Fails(w)
        PROVE  Finished'
    <2>1. job' = [job EXCEPT ![w] = Free] /\ stored' = stored
      BY <1>4 DEF Stamp, Fails, Proceed
    <2>2. \A v \in Process : job'[v] # Free => job'[v] = job[v]
      BY <2>1 DEF IInv
    <2> QED
      BY <1>1, <1>2, <2>1, <2>2 DEF Finished, Export
  <1>5. ASSUME NEW w \in Process, NEW p \in queue, Take(w, p)
        PROVE  Finished'
    <2>1. job'[w].got = {} /\ (\A v \in Process : v # w => job'[v] = job[v]) /\ stored' = stored
      BY <1>5 DEF Take, Proceed, IInv
    <2> QED
      BY <1>1, <1>2, <2>1 DEF Finished, Export
  <1>6. ASSUME NEW w \in Process, Fetch(w)
        PROVE  Finished'
    <2>1. job[w] \in Locals /\ job[w].since \in Nat /\ UNCHANGED <<born, over, stored>>
      BY <1>6 DEF Fetch, JobAt, IInv, Free, Locals, world
    <2>2. /\ job'[w].since = job[w].since
          /\ job'[w].got \subseteq Export(job[w].since)
          /\ \A v \in Process : v # w => job'[v] = job[v]
      BY <1>6, <2>1 DEF Fetch, Proceed, Newest, IInv, Locals
    <2> QED
      BY <1>1, <1>2, <2>1, <2>2 DEF Finished, Export
  <1>7. ASSUME NEW w \in Process, Store(w)
        PROVE  Finished'
    <2>1. job[w] \in Locals /\ job[w] # Free /\ UNCHANGED <<born, over>>
      BY <1>7 DEF Store, JobAt, IInv, Free, world
    <2>2. /\ stored' \subseteq stored \cup job[w].got
          /\ job'[w].since = job[w].since /\ job'[w].got \subseteq job[w].got
          /\ \A v \in Process : v # w => job'[v] = job[v]
      BY <1>7, <2>1 DEF Store, Proceed, Newest, IInv, Locals
    <2> QED
      BY <1>1, <1>2, <2>1, <2>2 DEF Finished, Export
  <1> QED
    BY <1>3, <1>4, <1>5, <1>6, <1>7 DEF SyncNext

(* Types (SyncTypeOK): times never lie ahead of the clock, and only         *)
(* finished games of the window a job asked for are fetched and stored.     *)
THEOREM TypeCorrect == SyncSpec => []SyncTypeOK
  <1>1. SyncInit => Finished
    BY DEF SyncInit, Finished
  <1>2. IInv /\ Finished /\ [SyncNext]_syncVars => Finished'
    BY FinishedStep
  <1>3. IInv /\ Finished => SyncTypeOK
    <2> SUFFICES ASSUME IInv, Finished PROVE SyncTypeOK
      OBVIOUS
    <2>1. \A w \in Process :
            \/ job[w] = Free
            \/ /\ job[w].at \in {"ask", "store"}
               /\ job[w].since \in 0 .. clock /\ job[w].asked \in 0 .. clock
               /\ job[w].got \subseteq Export(job[w].since)
      BY DEF IInv, Finished, Times, Sinces, Locals
    <2>2. \A p \in queue : p.since \in 0 .. clock /\ p.cap \in Caps
      BY DEF IInv, Times, Sinces
    <2>3. born \in [Game -> 0 .. clock] /\ over \in [Game -> 0 .. clock] /\ last \in 0 .. clock
      BY DEF IInv, Times
    <2> QED
      BY <2>1, <2>2, <2>3 DEF SyncTypeOK, Finished
  <1> QED
    BY <1>1, <1>2, <1>3, Invariance, PTL DEF SyncSpec

=============================================================================
