-------------------------------- MODULE Sync --------------------------------
(* Incremental backfill: which games of a user reach the database, and what *)
(* last_synced_at says about them (api.backfill, flows.run_backfill).       *)
(* Games begin and end on Lichess (external) between any two steps.  Times  *)
(* are ticks of one clock, each the time of one event; 0 is "never".        *)
EXTENDS Naturals, FiniteSets

CONSTANTS
  Process,     \* the worker processes
  Game,        \* the games the user plays
  Caps,        \* values of max_games
  MaxTries,    \* Bound: backfill jobs taken up, retries included
  MaxWaiting   \* Bound: requests that wait at a time

VARIABLES
  clock,
  born,      \* game -> createdAt
  over,      \* game -> when it ended
  stored,    \* the games the database has
  last,      \* users.last_synced_at
  queue,     \* payloads of the backfill jobs that wait
  job,       \* worker -> the job it runs
  tries,     \* jobs taken up so far
  cut,       \* history: games that max_games kept out of an answer
  stamps     \* history: [asked, at], a fetch and the last_synced_at it led to

syncVars == <<clock, born, over, stored, last, queue, job, tries, cut, stamps>>
world == <<clock, born, over>>

Free == [at |-> "idle"]
JobAt(w, p) == job[w].at = p
Proceed(w, l) == job' = [job EXCEPT ![w] = l]
Payload(since, cap) == [since |-> since, cap |-> cap]

SyncInit ==
  /\ clock = 0
  /\ born = [g \in Game |-> 0] /\ over = [g \in Game |-> 0]
  /\ stored = {} /\ last = 0 /\ queue = {}
  /\ job = [w \in Process |-> Free] /\ tries = 0
  /\ cut = {} /\ stamps = {}

Tick == clock' = clock + 1

Starts(g) ==
  /\ born[g] = 0
  /\ Tick /\ born' = [born EXCEPT ![g] = clock']
  /\ UNCHANGED <<over, stored, last, queue, job, tries, cut, stamps>>

Ends(g) ==
  /\ born[g] > 0 /\ over[g] = 0
  /\ Tick /\ over' = [over EXCEPT ![g] = clock']
  /\ UNCHANGED <<born, stored, last, queue, job, tries, cut, stamps>>

(* Mutant: the time of the request instead of that of the last sync.        *)
RequestNow(full, cap) ==
  /\ tries < MaxTries /\ Cardinality(queue) < MaxWaiting
  /\ queue' = queue \cup {Payload(IF full THEN 0 ELSE clock, cap)}
  /\ UNCHANGED <<world, stored, last, job, tries, cut, stamps>>

(* POST /users/{username}/backfill, and manage.py, which is always full:    *)
(* last_synced_at is read now and travels in the payload, retries included. *)
Request(full, cap) ==
  /\ tries < MaxTries /\ Cardinality(queue) < MaxWaiting
  /\ queue' = queue \cup {Payload(IF full THEN 0 ELSE last, cap)}
  /\ UNCHANGED <<world, stored, last, job, tries, cut, stamps>>

Take(w, p) ==
  /\ JobAt(w, "idle")
  /\ tries < MaxTries /\ tries' = tries + 1
  /\ queue' = queue \ {p}
  /\ Proceed(w, [at |-> "ask", since |-> p.since, cap |-> p.cap, asked |-> 0, got |-> {}])
  /\ UNCHANGED <<world, stored, last, cut, stamps>>

(* The export: finished games since the time named, the newest cap of them. *)
Export(since) == {g \in Game : over[g] > 0 /\ born[g] >= since}
Newest(cap, S) == {g \in S : Cardinality({h \in S : born[h] > born[g]}) < cap}

Fetch(w) ==
  LET all == Export(job[w].since)
      got == Newest(job[w].cap, all)
  IN
  /\ JobAt(w, "ask")
  /\ Proceed(w, [job[w] EXCEPT !.at = "store", !.asked = clock, !.got = got])
  /\ cut' = cut \cup (all \ got)
  /\ UNCHANGED <<world, stored, last, queue, tries, stamps>>

(* The sample is everything that was fetched, the caps being the same; the  *)
(* games are upserted newest first, each one committed.                     *)
Store(w) ==
  LET first == Newest(1, job[w].got) IN
  /\ JobAt(w, "store") /\ job[w].got # {}
  /\ stored' = stored \cup first
  /\ Proceed(w, [job[w] EXCEPT !.got = @ \ first])
  /\ UNCHANGED <<world, last, queue, tries, cut, stamps>>

(* Mutant: the time is set before all games are stored.                     *)
StampEarly(w) ==
  /\ JobAt(w, "store")
  /\ Tick /\ last' = clock'
  /\ Proceed(w, Free)
  /\ stamps' = stamps \cup {[asked |-> job[w].asked, at |-> clock']}
  /\ UNCHANGED <<born, over, stored, queue, tries, cut>>

(* last_synced_at = now().  After a full backfill, what earlier fetches     *)
(* missed is no longer an excuse.                                           *)
Stamp(w) ==
  /\ JobAt(w, "store") /\ job[w].got = {}
  /\ Tick /\ last' = clock'
  /\ Proceed(w, Free)
  /\ stamps' = {[asked |-> job[w].asked, at |-> clock']} \cup
       {s \in stamps : job[w].since > 0 \/ s.asked > job[w].asked}
  /\ UNCHANGED <<born, over, stored, queue, tries, cut>>

(* LichessError, a record that does not parse, a database error: what was   *)
(* stored stays, and the queue runs the same payload again.                 *)
Fails(w) ==
  /\ ~JobAt(w, "idle")
  /\ Proceed(w, Free)
  /\ queue' = queue \cup {Payload(job[w].since, job[w].cap)}
  /\ UNCHANGED <<world, stored, last, tries, cut, stamps>>

SyncNext ==
  \/ \E g \in Game : Starts(g) \/ Ends(g)
  \/ \E full \in BOOLEAN, cap \in Caps : Request(full, cap)
  \/ \E w \in Process :
       Fetch(w) \/ Store(w) \/ Stamp(w) \/ Fails(w) \/ \E p \in queue : Take(w, p)

SyncSpec == SyncInit /\ [][SyncNext]_syncVars

-----------------------------------------------------------------------------

SyncTypeOK ==
  /\ born \in [Game -> 0 .. clock] /\ over \in [Game -> 0 .. clock]
  /\ stored \subseteq {g \in Game : over[g] > 0}
  /\ last \in 0 .. clock
  /\ \A p \in queue : p.since \in 0 .. clock /\ p.cap \in Caps
  /\ \A w \in Process :
       \/ job[w] = Free
       \/ /\ job[w].at \in {"ask", "store"}
          /\ job[w].since \in 0 .. clock /\ job[w].asked \in 0 .. clock
          /\ job[w].got \subseteq Export(job[w].since)

(* No later incremental backfill asks for a finished game that began before *)
(* last_synced_at.  If it is not stored, max_games cut it off, or it was    *)
(* still being played when the games were fetched and last_synced_at, taken *)
(* after they were stored, passed it by; a full backfill makes up for it.   *)
LostOnlyWhileFetching ==
  \A g \in Game :
    over[g] > 0 /\ born[g] < last /\ g \notin stored =>
      g \in cut \/ \E s \in stamps : s.asked < over[g] /\ born[g] < s.at

=============================================================================
