------------------------------ MODULE Explorer ------------------------------
(* Where a game leaves book: the walk over its positions (book.py), the     *)
(* opening cache in the database, and the retry loop of the Lichess client  *)
(* below it (lichess.py).  Several workers scan games at the same time.     *)
(* Lichess is external: a position may gain games between any two steps.    *)
EXTENDS Naturals, FiniteSets, Sequences

CONSTANTS
  Worker,      \* the worker processes
  Fen,         \* positions of the opening
  Walks,       \* games, as the sequences of the positions they pass
  Threshold,   \* games a position of the book has at least (book_threshold)
  Fallback,    \* the ply taken when the explorer is not available
  Retries,     \* LichessClient's max_retries
  MaxCount,    \* Bound: the popularity of a position
  MaxScans     \* Bound: scans begun

ASSUME ExplorerAssumption ==
  /\ IsFiniteSet(Worker)
  /\ Walks \subseteq Seq(Fen)
  /\ {Threshold, Fallback, MaxCount, MaxScans} \subseteq Nat
  /\ Retries \in Nat \ {0}

Uncached == MaxCount + 1

VARIABLES
  popular,   \* position -> games the explorer counts
  cache,     \* opening_cache: position -> total_games
  scan,      \* worker -> the scan it runs
  scans,     \* scans begun so far
  answered,  \* history: position -> successful explorer calls
  kept,      \* history: position -> those of them whose count was committed
  lost,      \* history: position -> those a failure kept from it
  exits      \* history: walk -> book exits stored for it

vars == <<popular, cache, scan, scans, answered, kept, lost, exits>>
calls == <<answered, kept, lost>>

(* A scan's locals: at "lookup", "ask", "sleep" or "keep", with the ply it  *)
(* has come to (from 1), the attempt, and the count it was answered.        *)
Idle == [at |-> "idle"]
At(w, p) == scan[w].at = p
Here(w) == scan[w].walk[scan[w].ply]
Become(w, l) == scan' = [scan EXCEPT ![w] = l]
Flat(walk) == IF Fallback < Len(walk) THEN Fallback ELSE Len(walk)

Init ==
  /\ popular \in [Fen -> 0 .. MaxCount]
  /\ cache = [f \in Fen |-> Uncached]
  /\ scan = [w \in Worker |-> Idle]
  /\ scans = 0
  /\ answered = [f \in Fen |-> 0] /\ kept = answered /\ lost = answered
  /\ exits = [walk \in Walks |-> {}]

Grows(f) ==
  /\ popular[f] < MaxCount
  /\ popular' = [popular EXCEPT ![f] = @ + 1]
  /\ UNCHANGED <<cache, scan, scans, calls, exits>>

Begin(w, walk) ==
  /\ At(w, "idle")
  /\ scans < MaxScans /\ scans' = scans + 1
  /\ Become(w, [at |-> "lookup", walk |-> walk, ply |-> 1, try |-> 1, got |-> 0])
  /\ UNCHANGED <<popular, cache, calls, exits>>

(* detect_book_exit: the exit is ply i (from 0), flat or found, or the      *)
(* position is in book and the walk goes on.                                *)
Exit(w, i, flat) ==
  /\ Become(w, Idle)
  /\ exits' = [exits EXCEPT ![scan[w].walk] = @ \cup {[ply |-> i, flat |-> flat]}]

Judge(w, count) ==
  IF count < Threshold THEN Exit(w, scan[w].ply - 1, FALSE)
  ELSE /\ Become(w, [scan[w] EXCEPT !.at = "lookup", !.ply = @ + 1, !.try = 1])
       /\ UNCHANGED exits

(* Mutant: the cache is not looked into.                                    *)
LookupAlwaysMisses(w) ==
  /\ At(w, "lookup")
  /\ IF scan[w].ply > Len(scan[w].walk) THEN Exit(w, Len(scan[w].walk), FALSE)
     ELSE Become(w, [scan[w] EXCEPT !.at = "ask"]) /\ UNCHANGED exits
  /\ UNCHANGED <<popular, cache, scans, calls>>

(* CachedExplorer: all positions were in book, a hit, or a miss.            *)
Lookup(w) ==
  /\ At(w, "lookup")
  /\ IF scan[w].ply > Len(scan[w].walk) THEN Exit(w, Len(scan[w].walk), FALSE)
     ELSE IF cache[Here(w)] # Uncached THEN Judge(w, cache[Here(w)])
     ELSE Become(w, [scan[w] EXCEPT !.at = "ask"]) /\ UNCHANGED exits
  /\ UNCHANGED <<popular, cache, scans, calls>>

(* The answers to GET /lichess: the count; 429, to be waited out; another   *)
(* error, after which the flat ply is taken.                                *)
Counted(w) ==
  /\ At(w, "ask")
  /\ Become(w, [scan[w] EXCEPT !.at = "keep", !.got = popular[Here(w)]])
  /\ answered' = [answered EXCEPT ![Here(w)] = @ + 1]
  /\ UNCHANGED <<popular, cache, scans, kept, lost, exits>>

TooMany(w) ==
  /\ At(w, "ask")
  /\ Become(w, [scan[w] EXCEPT !.at = "sleep"])
  /\ UNCHANGED <<popular, cache, scans, calls, exits>>

Rejected(w) ==
  /\ At(w, "ask")
  /\ Exit(w, Flat(scan[w].walk), TRUE)
  /\ UNCHANGED <<popular, cache, scans, calls>>

(* Mutant: the attempts are not counted.                                    *)
WakeForEver(w) ==
  /\ At(w, "sleep")
  /\ Become(w, [scan[w] EXCEPT !.at = "ask"])
  /\ UNCHANGED <<popular, cache, scans, calls, exits>>

(* _backoff is over, also after the last attempt: ask again, or LichessError*)
Wake(w) ==
  /\ At(w, "sleep")
  /\ IF scan[w].try = Retries THEN Exit(w, Flat(scan[w].walk), TRUE)
     ELSE /\ Become(w, [scan[w] EXCEPT !.at = "ask", !.try = @ + 1])
          /\ UNCHANGED exits
  /\ UNCHANGED <<popular, cache, scans, calls>>

(* Mutant: what is kept is not what was judged.                             *)
KeepAnother(w) ==
  /\ At(w, "keep")
  /\ cache' = [cache EXCEPT ![Here(w)] = popular[Here(w)]]
  /\ kept' = [kept EXCEPT ![Here(w)] = @ + 1]
  /\ Judge(w, scan[w].got)
  /\ UNCHANGED <<popular, scans, answered, lost>>

(* The upsert of the count and its commit.                                  *)
Keep(w) ==
  /\ At(w, "keep")
  /\ cache' = [cache EXCEPT ![Here(w)] = scan[w].got]
  /\ kept' = [kept EXCEPT ![Here(w)] = @ + 1]
  /\ Judge(w, scan[w].got)
  /\ UNCHANGED <<popular, scans, answered, lost>>

(* A transport error or time-out, a Retry-After that sleep() refuses        *)
(* (negative, not finite), an exception of the database, a kill: nothing of *)
(* it is a LichessError, so the whole job fails, at any point of the scan;  *)
(* a count that was answered and not committed is lost.                     *)
Raises(w) ==
  /\ ~At(w, "idle")
  /\ Become(w, Idle)
  /\ lost' = IF At(w, "keep") THEN [lost EXCEPT ![Here(w)] = @ + 1] ELSE lost
  /\ UNCHANGED <<popular, cache, scans, answered, kept, exits>>

Step(w) == Lookup(w) \/ Counted(w) \/ TooMany(w) \/ Rejected(w) \/ Wake(w) \/ Keep(w)

Next ==
  \/ \E f \in Fen : Grows(f)
  \/ \E w \in Worker : Step(w) \/ Raises(w) \/ \E walk \in Walks : Begin(w, walk)

Spec == Init /\ [][Next]_vars

(* Lichess answers or the transport times out, sleeps end, and the workers  *)
(* run; nothing makes anybody begin a scan, or a scan fail.                 *)
FairSpec == Spec /\ \A w \in Worker : WF_vars(Step(w))

-----------------------------------------------------------------------------

StateOK ==
  /\ popular \in [Fen -> 0 .. MaxCount]
  /\ cache \in [Fen -> 0 .. Uncached]
  /\ kept \in [Fen -> Nat]
  /\ \A w \in Worker :
       \/ scan[w] = Idle
       \/ /\ scan[w] \in [at : {"lookup", "ask", "sleep", "keep"}, walk : Walks,
                          ply : Nat, try : 1 .. Retries, got : 0 .. MaxCount]
          /\ scan[w].ply \in 1 .. Len(scan[w].walk) + (IF At(w, "lookup") THEN 1 ELSE 0)

TypeOK == StateOK /\ answered \in [Fen -> Nat] /\ lost \in [Fen -> Nat]

(* "Caches every successful lookup so repeated positions across a user's    *)
(* games cost one HTTP call each" (book.py): one for each worker that       *)
(* missed the cache before the first of them had committed, and one more    *)
(* for each whose scan failed between the answer and the commit.            *)
CallsBoundedByOverlap == \A f \in Fen : answered[f] <= Cardinality(Worker) + lost[f]

(* The book exit of a game does not depend on when it is scanned: as long   *)
(* as one call was kept for each position, every scan that did not fall     *)
(* back stores the same ply, although positions gain games all the time.    *)
BookExitSettled ==
  \A walk \in Walks :
    (\A i \in 1 .. Len(walk) : kept[walk[i]] <= 1) =>
      \A x, y \in exits[walk] : ~x.flat /\ ~y.flat => x = y

(* Every scan comes to an end: 429s are waited out a bounded number of      *)
(* times, at each of finitely many positions.                               *)
EveryScanEnds == \A w \in Worker : ~At(w, "idle") ~> At(w, "idle")

=============================================================================
