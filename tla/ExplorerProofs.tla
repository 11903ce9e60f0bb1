--------------------------- MODULE ExplorerProofs ---------------------------
(* Proofs about Explorer, for any number of workers, positions, games and   *)
(* scans.                                                                   *)
(*                                                                          *)
(* The argument: a position is asked for only while it is not cached, that  *)
(* is while no call for it has been kept, and then by each worker at most   *)
(* once at a time; a call that was answered has been kept or lost, or a     *)
(* worker is about to keep it.  And what is cached changes only when a      *)
(* second call is kept, so as long as one call was kept for each position   *)
(* of a game, its scans, past and present, have all read the same counts.   *)
EXTENDS Explorer, FiniteSetTheorems, TLAPS

Scans == [at : {"lookup", "ask", "sleep", "keep"}, walk : Walks,
          ply : Nat, try : 1 .. Retries, got : 0 .. MaxCount]
Exits == [ply : Nat, flat : BOOLEAN]

Typed ==
  /\ scan \in [Worker -> {Idle} \cup Scans]
  /\ exits \in [Walks -> SUBSET Exits]

(* The calls that may still be kept, and the bound on all of them.          *)
Pending(f) == {w \in Worker : scan[w].at \in {"ask", "sleep", "keep"} /\ Here(w) = f}

Bounded ==
  \A f \in Fen :
    /\ kept[f] + Cardinality(Pending(f)) <= Cardinality(Worker)
    /\ cache[f] = Uncached <=> kept[f] = 0

(* Every answered call was kept or lost, or is about to be kept.            *)
Answering(f) == {w \in Worker : scan[w].at = "keep" /\ Here(w) = f}

Accounted ==
  /\ \A f \in Fen : answered[f] = kept[f] + lost[f] + Cardinality(Answering(f))
  /\ answered \in [Fen -> Nat] /\ lost \in [Fen -> Nat]

(* One call at most for each position of the game; the first n of them are  *)
(* in book.                                                                 *)
Settled(walk) == \A i \in 1 .. Len(walk) : kept[walk[i]] <= 1
InBook(f) == cache[f] # Uncached /\ cache[f] >= Threshold
Passed(walk, n) == \A i \in 1 .. n : InBook(walk[i])

(* A scan has come where it is through the book.                            *)
OnPath ==
  \A w \in Worker :
    scan[w] # Idle /\ Settled(scan[w].walk) => Passed(scan[w].walk, scan[w].ply - 1)

(* An exit is flat, or where the cache says the game leaves book.           *)
Sound(walk, x) ==
  ~x.flat /\ Settled(walk) =>
    /\ x.ply <= Len(walk) /\ Passed(walk, x.ply)
    /\ x.ply < Len(walk) => ~InBook(walk[x.ply + 1])
                            /\ cache[walk[x.ply + 1]] # Uncached

Left == \A walk \in Walks : \A x \in exits[walk] : Sound(walk, x)

IInv == StateOK /\ Typed /\ Bounded /\ OnPath /\ Left

(* What is cached for the positions of a settled game stays.                *)
Firm ==
  \A walk \in Walks : Settled(walk)' =>
    /\ Settled(walk)
    /\ \A i \in 1 .. Len(walk) :
         cache[walk[i]] # Uncached => cache'[walk[i]] = cache[walk[i]]

-----------------------------------------------------------------------------

LEMMA WalkType ==
  ASSUME NEW walk \in Walks
  PROVE  Len(walk) \in Nat /\ \A i \in 1 .. Len(walk) : walk[i] \in Fen
  BY ExplorerAssumption

LEMMA UncachedType == Uncached \in Nat /\ Uncached \notin 0 .. MaxCount
  BY ExplorerAssumption DEF Uncached

LEMMA WorkerCount ==
  ASSUME NEW S \in SUBSET Worker
  PROVE  /\ IsFiniteSet(S) /\ Cardinality(S) \in Nat /\ Cardinality(Worker) \in Nat
         /\ Cardinality(S) <= Cardinality(Worker)
  BY ExplorerAssumption, FS_Subset, FS_CardinalityType

(* A scan under way stands at a position of its game.                       *)
LEMMA Standing ==
  ASSUME IInv, NEW w \in Worker, ~At(w, "idle")
  PROVE  /\ scan[w] \in Scans /\ scan[w] # Idle
         /\ scan[w].ply \in Nat /\ scan[w].ply >= 1
         /\ scan[w].ply <= Len(scan[w].walk) + 1
         /\ ~At(w, "lookup") => scan[w].ply <= Len(scan[w].walk)
         /\ scan[w].ply <= Len(scan[w].walk) => Here(w) \in Fen
  <1>1. scan[w] \in Scans /\ scan[w] # Idle
    BY DEF IInv, Typed, At, Idle
  <1>2. scan[w].walk \in Walks /\ scan[w].ply \in Nat
    BY <1>1 DEF Scans
  <1>3. scan[w].ply \in 1 .. Len(scan[w].walk) + (IF At(w, "lookup") THEN 1 ELSE 0)
    BY <1>1 DEF IInv, StateOK
  <1>4. Len(scan[w].walk) \in Nat /\ \A i \in 1 .. Len(scan[w].walk) : scan[w].walk[i] \in Fen
    BY <1>2, WalkType
  <1>5. CASE At(w, "lookup")
    <2>1. scan[w].ply \in 1 .. Len(scan[w].walk) + 1
      BY <1>3, <1>5
    <2> QED
      BY <1>1, <1>2, <1>4, <1>5, <2>1 DEF Here
  <1>6. CASE ~At(w, "lookup")
    <2>1. scan[w].ply \in 1 .. Len(scan[w].walk) + 0
      BY <1>3, <1>6
    <2> QED
      BY <1>1, <1>2, <1>4, <1>6, <2>1 DEF Here
  <1> QED
    BY <1>5, <1>6

(* Nothing is kept: nothing cached changes.                              *)
LEMMA UnchangedIsFirm ==
  ASSUME UNCHANGED <<cache, kept>>
  PROVE  Firm
  BY DEF Firm, Settled

LEMMA PassedStays ==
  ASSUME Firm, NEW walk \in Walks, NEW n \in Nat, n <= Len(walk),
         Settled(walk)', Passed(walk, n)
  PROVE  Passed(walk, n)'
  BY WalkType DEF Firm, Passed, InBook

(* The exits stored so far are right, and so they stay with a right one.    *)
LEMMA LeftStays ==
  ASSUME IInv, Firm, NEW own \in Walks,
         \/ UNCHANGED exits
         \/ \E x \in Exits :
              /\ exits' = [exits EXCEPT ![own] = @ \cup {x}]
              /\ Sound(own, x)'
  PROVE  Left' /\ exits' \in [Walks -> SUBSET Exits]
  <1>1. exits' \in [Walks -> SUBSET Exits]
    BY DEF IInv, Typed
  <1>2. ASSUME NEW walk \in Walks, NEW x \in exits[walk]
        PROVE  Sound(walk, x)'
    <2>1. x \in Exits /\ Sound(walk, x)
      BY DEF IInv, Typed, Left
    <2> SUFFICES ASSUME ~x.flat, Settled(walk)'
                 PROVE  /\ x.ply <= Len(walk) /\ Passed(walk, x.ply)'
                        /\ x.ply < Len(walk) => /\ ~InBook(walk[x.ply + 1])'
                                                /\ cache'[walk[x.ply + 1]] # Uncached
      BY DEF Sound
    <2>2. Settled(walk) /\ x.ply \in Nat /\ Len(walk) \in Nat
      BY <2>1, WalkType DEF Firm, Exits
    <2>3. x.ply <= Len(walk) /\ Passed(walk, x.ply)
      BY <2>1, <2>2 DEF Sound
    <2>4. ASSUME x.ply < Len(walk)
          PROVE  ~InBook(walk[x.ply + 1])' /\ cache'[walk[x.ply + 1]] # Uncached
      <3>1. x.ply + 1 \in 1 .. Len(walk)
        BY <2>2, <2>4
      <3>2. cache[walk[x.ply + 1]] # Uncached /\ ~InBook(walk[x.ply + 1])
        BY <2>1, <2>2, <2>4 DEF Sound
      <3>3. cache'[walk[x.ply + 1]] = cache[walk[x.ply + 1]]
        BY <3>1, <3>2 DEF Firm
      <3> QED
        BY <3>2, <3>3 DEF InBook
    <2>5. Passed(walk, x.ply)'
      BY <2>2, <2>3, PassedStays
    <2> QED
      BY <2>3, <2>4, <2>5
  <1>4. ASSUME NEW walk \in Walks, NEW x \in exits'[walk]
        PROVE  Sound(walk, x)'
    <2>1. CASE x \in exits[walk]
      BY <1>2, <2>1
    <2>2. CASE x \notin exits[walk]
      <3>1. walk = own /\ Sound(own, x)'
        BY <2>2 DEF IInv, Typed
      <3> QED
        BY <3>1
    <2> QED
      BY <2>1, <2>2
  <1> QED
    BY <1>1, <1>4 DEF Left

(* The scans are on their paths, and so they stay when one moves rightly.   *)
LEMMA OnPathStays ==
  ASSUME IInv, Firm, NEW w \in Worker, NEW l \in {Idle} \cup Scans, Become(w, l),
         l # Idle => (Settled(l.walk)' => Passed(l.walk, l.ply - 1)')
  PROVE  OnPath' /\ scan' \in [Worker -> {Idle} \cup Scans]
  <1>1. /\ scan' \in [Worker -> {Idle} \cup Scans] /\ scan'[w] = l
        /\ \A v \in Worker : v # w => scan'[v] = scan[v]
    BY DEF Become, IInv, Typed
  <1>2. ASSUME NEW v \in Worker, v # w, scan[v] # Idle,
               NEW walk \in Walks, NEW n, walk = scan[v].walk, n = scan[v].ply - 1,
               Settled(walk)'
        PROVE  Passed(walk, n)'
    <2>1. ~At(v, "idle") /\ scan[v] \in Scans
      BY <1>2 DEF IInv, Typed, At, Scans
    <2>2. n \in Nat /\ n <= Len(walk)
      BY <1>2, <2>1, Standing, WalkType
    <2>3. Settled(walk)
      BY <1>2 DEF Firm
    <2>4. Passed(walk, n)
      BY <1>2, <2>3 DEF IInv, OnPath
    <2> QED
      BY <1>2, <2>2, <2>4, PassedStays
  <1>3. ASSUME NEW v \in Worker, scan'[v] # Idle, Settled(scan[v].walk)'
        PROVE  Passed(scan[v].walk, scan[v].ply - 1)'
    <2>1. PICK walk, n : walk = scan'[v].walk /\ n = scan'[v].ply - 1
      OBVIOUS
    <2>2. walk \in Walks
      BY <1>1, <1>3, <2>1 DEF Scans
    <2>3. Settled(walk)'
      BY <1>3, <2>1 DEF Settled
    <2>4. CASE v = w
      <3>1. l # Idle /\ walk = l.walk /\ n = l.ply - 1
        BY <1>1, <1>3, <2>1, <2>4
      <3>2. Settled(l.walk)'
        BY <2>3, <3>1
      <3>3. Passed(l.walk, l.ply - 1)'
        BY <3>1, <3>2
      <3> QED
        BY <2>1, <3>1, <3>3 DEF Passed
    <2>5. CASE v # w
      <3>1. scan[v] = scan'[v]
        BY <1>1, <2>5
      <3>2. Passed(walk, n)'
        BY <1>2, <1>3, <2>1, <2>2, <2>3, <2>5, <3>1
      <3> QED
        BY <2>1, <3>2 DEF Passed
    <2> QED
      BY <2>4, <2>5
  <1> QED
    BY <1>1, <1>3 DEF OnPath

(* The types stay when a scan moves to where it may stand.                  *)
LEMMA TypesStay ==
  ASSUME IInv, NEW w \in Worker, NEW l \in {Idle} \cup Scans, Become(w, l),
         l = Idle \/ /\ l.ply >= 1 /\ l.ply <= Len(l.walk) + 1
                     /\ l.at # "lookup" => l.ply <= Len(l.walk),
         popular' = popular, cache' \in [Fen -> 0 .. Uncached], kept' \in [Fen -> Nat]
  PROVE  StateOK'
  <1>1. /\ scan'[w] = l /\ \A v \in Worker : v # w => scan'[v] = scan[v]
    BY DEF Become, IInv, Typed
  <1>2. ASSUME NEW v \in Worker
        PROVE  \/ scan'[v] = Idle
               \/ /\ scan'[v] \in [at : {"lookup", "ask", "sleep", "keep"}, walk : Walks,
                                   ply : Nat, try : 1 .. Retries, got : 0 .. MaxCount]
                  /\ scan'[v].ply \in 1 .. Len(scan'[v].walk) + (IF scan'[v].at = "lookup" THEN 1 ELSE 0)
    <2>1. CASE v # w
      BY <1>1, <2>1 DEF IInv, StateOK, At
    <2>2. CASE v = w /\ l # Idle
      <3>1. l \in Scans /\ l.ply \in Nat /\ Len(l.walk) \in Nat
        BY <2>2, WalkType DEF Scans
      <3>2. CASE l.at = "lookup"
        <4>1. l.ply \in 1 .. Len(l.walk) + 1
          BY <2>2, <3>1
        <4> QED
          BY <1>1, <2>2, <3>1, <3>2, <4>1 DEF Scans
      <3>3. CASE l.at # "lookup"
        <4>1. l.ply \in 1 .. Len(l.walk) + 0
          BY <2>2, <3>1, <3>3
        <4> QED
          BY <1>1, <2>2, <3>1, <3>3, <4>1 DEF Scans
      <3> QED
        BY <3>2, <3>3
    <2> QED
      BY <1>1, <2>1, <2>2
  <1> QED
    BY <1>2 DEF IInv, StateOK, At

(* Nobody asks anew, nothing is kept.                                       *)
LEMMA BoundedStays ==
  ASSUME IInv, NEW w \in Worker, NEW l \in {Idle} \cup Scans, Become(w, l),
         UNCHANGED <<cache, kept>>,
         l.at \in {"ask", "sleep", "keep"} =>
           /\ scan[w].at \in {"ask", "sleep", "keep"}
           /\ l.walk = scan[w].walk /\ l.ply = scan[w].ply
  PROVE  Bounded'
  <1> SUFFICES ASSUME NEW f \in Fen
               PROVE  /\ kept[f] + Cardinality(Pending(f)') <= Cardinality(Worker)
                      /\ cache[f] = Uncached <=> kept[f] = 0
    BY DEF Bounded
  <1>1. /\ scan'[w] = l /\ \A v \in Worker : v # w => scan'[v] = scan[v]
    BY DEF Become, IInv, Typed
  <1>2. Pending(f)' \in SUBSET Pending(f)
    BY <1>1 DEF Pending, Here
  <1>3. IsFiniteSet(Pending(f)) /\ Cardinality(Pending(f)) \in Nat /\ Cardinality(Worker) \in Nat
    BY WorkerCount DEF Pending
  <1>4. Cardinality(Pending(f)') \in Nat /\ Cardinality(Pending(f)') <= Cardinality(Pending(f))
    BY <1>2, <1>3, FS_Subset, FS_CardinalityType
  <1>5. kept[f] \in Nat
    BY DEF IInv, StateOK
  <1>6. kept[f] + Cardinality(Pending(f)) <= Cardinality(Worker)
    BY DEF IInv, Bounded
  <1> QED
    BY <1>3, <1>4, <1>5, <1>6 DEF IInv, Bounded

(* detect_book_exit with the count of this position in the cache.           *)
LEMMA JudgeStays ==
  ASSUME IInv, Firm, NEW w \in Worker, ~At(w, "idle"), scan[w].ply <= Len(scan[w].walk),
         NEW count \in 0 .. MaxCount, cache'[Here(w)] = count, Judge(w, count),
         popular' = popular, cache' \in [Fen -> 0 .. Uncached], kept' \in [Fen -> Nat]
  PROVE  /\ StateOK' /\ Typed' /\ OnPath' /\ Left'
         /\ \E l \in {Idle} \cup Scans : Become(w, l) /\ l.at \in {"idle", "lookup"}
  <1>1. PICK walk, ply : walk = scan[w].walk /\ ply = scan[w].ply
    OBVIOUS
  <1>2. /\ walk \in Walks /\ ply \in Nat /\ ply >= 1 /\ ply <= Len(walk) /\ Len(walk) \in Nat
        /\ scan[w] \in Scans /\ scan[w] # Idle /\ Here(w) = walk[ply] /\ Here(w) \in Fen
    BY <1>1, Standing, WalkType DEF Here, Scans
  <1>3. /\ count \in Nat /\ count # Uncached /\ Threshold \in Nat
    BY ExplorerAssumption, UncachedType
  <1>4. Settled(walk)' => Passed(walk, ply - 1)'
    <2> SUFFICES ASSUME Settled(walk)' PROVE Passed(walk, ply - 1)'
      OBVIOUS
    <2>1. Settled(walk)
      BY <1>2 DEF Firm
    <2>2. Passed(walk, ply - 1)
      BY <1>1, <1>2, <2>1 DEF IInv, OnPath, Settled, Passed
    <2> QED
      BY <1>2, <2>2, PassedStays
  <1>5. CASE count < Threshold
    <2>1. PICK x : x = [ply |-> ply - 1, flat |-> FALSE]
      OBVIOUS
    <2>2. /\ x \in Exits /\ x.ply = ply - 1 /\ Become(w, Idle)
          /\ exits' = [exits EXCEPT ![walk] = @ \cup {x}]
      BY <1>1, <1>2, <1>5, <2>1 DEF Judge, Exit, Exits
    <2>3. Sound(walk, x)'
      <3>1. walk[x.ply + 1] = Here(w) /\ x.ply <= Len(walk)
        BY <1>2, <2>2
      <3>2. ~InBook(walk[x.ply + 1])' /\ cache'[walk[x.ply + 1]] # Uncached
        BY <1>3, <1>5, <3>1 DEF InBook
      <3>3. Settled(walk)' => Passed(walk, x.ply)'
        BY <1>4, <2>2 DEF Passed
      <3> QED
        BY <3>1, <3>2, <3>3 DEF Sound
    <2>4. Left' /\ exits' \in [Walks -> SUBSET Exits]
      BY <1>2, <2>2, <2>3, LeftStays
    <2>5. OnPath' /\ scan' \in [Worker -> {Idle} \cup Scans]
      BY <2>2, OnPathStays
    <2>6. StateOK'
      BY <2>2, TypesStay
    <2> QED
      BY <2>2, <2>4, <2>5, <2>6 DEF Typed, Idle
  <1>6. CASE ~(count < Threshold)
    <2>1. PICK l : l = [scan[w] EXCEPT !.at = "lookup", !.ply = @ + 1, !.try = 1]
      OBVIOUS
    <2>2. /\ l \in Scans /\ l.at = "lookup" /\ l.ply = ply + 1 /\ l.walk = walk
          /\ Become(w, l) /\ UNCHANGED exits
      <3>1. Become(w, l) /\ UNCHANGED exits
        BY <1>6, <2>1 DEF Judge
      <3>2. 1 \in 1 .. Retries
        BY ExplorerAssumption
      <3>3. l \in Scans
        <4>1. l = [at |-> "lookup", walk |-> walk, ply |-> ply + 1, try |-> 1, got |-> scan[w].got]
          BY <1>1, <1>2, <2>1 DEF Scans
        <4>2. scan[w].got \in 0 .. MaxCount
          BY <1>2 DEF Scans
        <4> QED
          BY <1>2, <3>2, <4>1, <4>2 DEF Scans
      <3>4. l.at = "lookup" /\ l.ply = ply + 1 /\ l.walk = walk
        BY <1>1, <1>2, <2>1 DEF Scans
      <3> QED
        BY <3>1, <3>3, <3>4
    <2>3. Settled(l.walk)' => Passed(l.walk, l.ply - 1)'
      <3>1. InBook(walk[ply])'
        BY <1>2, <1>3, <1>6 DEF InBook
      <3>2. Settled(walk)' => Passed(walk, ply)'
        BY <1>2, <1>4, <3>1 DEF Passed
      <3>3. l.ply - 1 = ply
        BY <1>2, <2>2
      <3> QED
        BY <2>2, <3>2, <3>3 DEF Settled, Passed
    <2>4. Left' /\ exits' \in [Walks -> SUBSET Exits]
      BY <1>2, <2>2, LeftStays
    <2>5. OnPath' /\ scan' \in [Worker -> {Idle} \cup Scans]
      BY <2>2, <2>3, OnPathStays
    <2>6. StateOK'
      BY <1>2, <2>2, TypesStay
    <2> QED
      BY <2>2, <2>4, <2>5, <2>6 DEF Typed
  <1> QED
    BY <1>5, <1>6

-----------------------------------------------------------------------------

(* A step that fetches nothing and stands still or ends: what is left is    *)
(* that a new exit is right.                                                *)
LEMMA QuietStays ==
  ASSUME IInv, NEW w \in Worker, NEW l \in {Idle} \cup Scans, Become(w, l), ~At(w, "idle"),
         UNCHANGED <<popular, cache, kept>>,
         \/ l = Idle
         \/ /\ scan[w].at \in {"ask", "sleep", "keep"}
            /\ l.walk = scan[w].walk /\ l.ply = scan[w].ply,
         NEW own \in Walks,
         \/ UNCHANGED exits
         \/ \E x \in Exits :
              exits' = [exits EXCEPT ![own] = @ \cup {x}] /\ Sound(own, x)'
  PROVE  IInv'
  <1>1. Firm
    BY UnchangedIsFirm
  <1>2. Left' /\ exits' \in [Walks -> SUBSET Exits]
    BY <1>1, LeftStays
  <1>3. scan[w] # Idle
    BY DEF At, Idle
  <1>4. l # Idle => (Settled(l.walk)' => Passed(l.walk, l.ply - 1)')
    <2> SUFFICES ASSUME l # Idle, Settled(l.walk)'
                 PROVE  Passed(l.walk, l.ply - 1)'
      OBVIOUS
    <2>1. Settled(scan[w].walk)
      BY DEF Settled
    <2>2. Passed(scan[w].walk, scan[w].ply - 1)
      BY <1>3, <2>1 DEF IInv, OnPath
    <2> QED
      BY <2>2 DEF Passed, InBook
  <1>5. OnPath' /\ scan' \in [Worker -> {Idle} \cup Scans]
    BY <1>1, <1>4, OnPathStays
  <1>6. StateOK'
    <2>1. cache' \in [Fen -> 0 .. Uncached] /\ kept' \in [Fen -> Nat]
      BY DEF IInv, StateOK
    <2>2. l # Idle => l.ply >= 1 /\ l.ply <= Len(l.walk)
      BY Standing DEF At
    <2>3. l # Idle => Len(l.walk) \in Nat /\ l.ply \in Nat
      BY WalkType DEF Scans
    <2> QED
      BY <2>1, <2>2, <2>3, TypesStay
  <1>7. Bounded'
    BY BoundedStays DEF Idle
  <1> QED
    BY <1>2, <1>5, <1>6, <1>7 DEF IInv, Typed

(* The end of a walk whose positions were all in book.                      *)
LEMMA EndOfBook ==
  ASSUME IInv, NEW w \in Worker, At(w, "lookup"), scan[w].ply > Len(scan[w].walk),
         UNCHANGED <<popular, cache, kept>>, Exit(w, Len(scan[w].walk), FALSE)
  PROVE  IInv'
  <1>1. PICK walk, x : walk = scan[w].walk /\ x = [ply |-> Len(walk), flat |-> FALSE]
    OBVIOUS
  <1>2. ~At(w, "idle") /\ scan[w] # Idle
    BY DEF At, Idle
  <1>3. /\ walk \in Walks /\ Len(walk) \in Nat /\ scan[w].ply = Len(walk) + 1
    BY <1>1, <1>2, Standing, WalkType DEF Scans
  <1>4. x \in Exits /\ exits' = [exits EXCEPT ![walk] = @ \cup {x}] /\ Become(w, Idle)
    BY <1>1, <1>3 DEF Exit, Exits
  <1>5. Settled(walk) => Passed(walk, Len(walk))
    BY <1>1, <1>2, <1>3 DEF IInv, OnPath, Settled, Passed
  <1>6. Sound(walk, x)'
    BY <1>1, <1>3, <1>5 DEF Sound, Settled, Passed, InBook
  <1> QED
    BY <1>2, <1>3, <1>4, <1>6, QuietStays

(* A miss: no call for this position was kept, so at worst all workers ask. *)
LEMMA MissStays ==
  ASSUME IInv, NEW w \in Worker, At(w, "lookup"), scan[w].ply <= Len(scan[w].walk),
         cache[Here(w)] = Uncached,
         Become(w, [scan[w] EXCEPT !.at = "ask"]),
         UNCHANGED <<exits, popular, cache, scans, kept>>
  PROVE  IInv'
  <1>1. PICK l : l = [scan[w] EXCEPT !.at = "ask"]
    OBVIOUS
  <1>2. ~At(w, "idle") /\ scan[w] # Idle
    BY DEF At, Idle
  <1>3. scan[w] \in Scans /\ scan[w].ply \in Nat /\ scan[w].ply >= 1 /\ Here(w) \in Fen
    BY <1>2, Standing
  <1>4. /\ l \in Scans /\ l.at = "ask" /\ l.walk = scan[w].walk /\ l.ply = scan[w].ply
        /\ Become(w, l)
    BY <1>1, <1>3 DEF Scans
  <1>5. Firm
    BY UnchangedIsFirm
  <1>6. Left' /\ exits' \in [Walks -> SUBSET Exits]
    BY <1>4, <1>5, LeftStays DEF Scans
  <1>7. Settled(l.walk)' => Passed(l.walk, l.ply - 1)'
    BY <1>2, <1>4 DEF IInv, OnPath, Settled, Passed, InBook
  <1>8. OnPath' /\ scan' \in [Worker -> {Idle} \cup Scans]
    BY <1>4, <1>5, <1>7, OnPathStays
  <1>9. StateOK'
    <2>1. cache' \in [Fen -> 0 .. Uncached] /\ kept' \in [Fen -> Nat]
      BY DEF IInv, StateOK
    <2>2. l.ply >= 1 /\ l.ply <= Len(l.walk) /\ Len(l.walk) \in Nat /\ l.ply \in Nat
      BY <1>3, <1>4, WalkType DEF Scans
    <2>3. l.ply <= Len(l.walk) + 1
      BY <2>2
    <2> QED
      BY <1>4, <2>1, <2>2, <2>3, TypesStay
  <1>10. Bounded'
    <2> SUFFICES ASSUME NEW f \in Fen
                 PROVE  /\ kept[f] + Cardinality(Pending(f)') <= Cardinality(Worker)
                        /\ cache[f] = Uncached <=> kept[f] = 0
      BY DEF Bounded
    <2>1. /\ scan'[w] = l /\ \A v \in Worker : v # w => scan'[v] = scan[v]
      BY <1>4 DEF Become, IInv, Typed
    <2>2. kept[f] \in Nat /\ cache[f] = Uncached <=> kept[f] = 0
      BY DEF IInv, StateOK, Bounded
    <2>3. CASE f = Here(w)
      <3>1. kept[f] = 0
        BY <2>2, <2>3 DEF IInv, Bounded
      <3>2. Pending(f)' \in SUBSET Worker
        BY DEF Pending
      <3>3. Cardinality(Pending(f)') \in Nat /\ Cardinality(Pending(f)') <= Cardinality(Worker)
        BY <3>2, WorkerCount
      <3> QED
        BY <2>3, <3>1, <3>3
    <2>4. CASE f # Here(w)
      <3>1. Pending(f)' = Pending(f)
        BY <1>4, <2>1, <2>4 DEF Pending, Here, At
      <3> QED
        BY <3>1 DEF IInv, Bounded
    <2> QED
      BY <2>3, <2>4
  <1> QED
    BY <1>6, <1>8, <1>9, <1>10 DEF IInv, Typed

LEMMA LookupIInv ==
  ASSUME IInv, NEW w \in Worker, Lookup(w)
  PROVE  IInv'
  <1>1. ~At(w, "idle") /\ At(w, "lookup") /\ UNCHANGED <<popular, cache, scans, kept>>
    BY DEF Lookup, At, calls
  <1>2. scan[w].ply \in Nat /\ Len(scan[w].walk) \in Nat
    BY <1>1, Standing, WalkType DEF Scans
  <1>3. CASE scan[w].ply > Len(scan[w].walk)
    BY <1>1, <1>3, EndOfBook DEF Lookup
  <1>4. CASE scan[w].ply <= Len(scan[w].walk) /\ cache[Here(w)] # Uncached
    <2>1. Judge(w, cache[Here(w)]) /\ Here(w) \in Fen
      <3>1. ~(scan[w].ply > Len(scan[w].walk))
        BY <1>2, <1>4
      <3>2. Judge(w, cache[Here(w)])
        BY <1>4, <3>1 DEF Lookup
      <3> QED
        BY <1>1, <1>4, <3>2, Standing
    <2>2. /\ cache' \in [Fen -> 0 .. Uncached] /\ kept' \in [Fen -> Nat]
          /\ cache[Here(w)] \in 0 .. MaxCount
      BY <1>1, <1>4, <2>1, ExplorerAssumption DEF IInv, StateOK, Uncached
    <2>3. Firm
      BY <1>1, UnchangedIsFirm
    <2>4. PICK count : count = cache[Here(w)]
      OBVIOUS
    <2>5. count \in 0 .. MaxCount /\ Judge(w, count) /\ cache'[Here(w)] = count
      BY <1>1, <2>1, <2>2, <2>4 DEF Judge
    <2>6. /\ StateOK' /\ Typed' /\ OnPath' /\ Left'
          /\ \E l \in {Idle} \cup Scans : Become(w, l) /\ l.at \in {"idle", "lookup"}
      BY <1>1, <1>4, <2>2, <2>3, <2>5, JudgeStays
    <2>7. Bounded'
      BY <1>1, <2>6, BoundedStays
    <2> QED
      BY <2>6, <2>7 DEF IInv
  <1>5. CASE scan[w].ply <= Len(scan[w].walk) /\ cache[Here(w)] = Uncached
    <2>1. ~(scan[w].ply > Len(scan[w].walk))
      BY <1>2, <1>5
    <2>2. Become(w, [scan[w] EXCEPT !.at = "ask"]) /\ UNCHANGED exits
      BY <1>5, <2>1 DEF Lookup
    <2> QED
      BY <1>1, <1>5, <2>2, MissStays
  <1> QED
    BY <1>2, <1>3, <1>4, <1>5

LEMMA BeginIInv ==
  ASSUME IInv, NEW w \in Worker, NEW walk \in Walks, Begin(w, walk)
  PROVE  IInv'
  <1>1. PICK l : l = [at |-> "lookup", walk |-> walk, ply |-> 1, try |-> 1, got |-> 0]
    OBVIOUS
  <1>2. /\ l \in Scans /\ l.at = "lookup" /\ l.walk = walk /\ l.ply = 1 /\ Become(w, l)
        /\ UNCHANGED <<popular, cache, kept, exits>>
    BY <1>1, ExplorerAssumption DEF Begin, Scans, calls
  <1>3. Firm
    BY <1>2, UnchangedIsFirm
  <1>4. Left' /\ exits' \in [Walks -> SUBSET Exits]
    BY <1>2, <1>3, LeftStays
  <1>5. OnPath' /\ scan' \in [Worker -> {Idle} \cup Scans]
    <2>1. Passed(l.walk, l.ply - 1)'
      BY <1>2 DEF Passed
    <2> QED
      BY <1>2, <1>3, <2>1, OnPathStays
  <1>6. StateOK'
    <2>1. cache' \in [Fen -> 0 .. Uncached] /\ kept' \in [Fen -> Nat]
      BY <1>2 DEF IInv, StateOK
    <2>2. l.ply >= 1 /\ l.ply <= Len(l.walk) + 1
      BY <1>2, WalkType
    <2> QED
      BY <1>2, <2>1, <2>2, TypesStay
  <1>7. Bounded'
    BY <1>2, BoundedStays
  <1> QED
    BY <1>4, <1>5, <1>6, <1>7 DEF IInv, Typed

LEMMA CountedIInv ==
  ASSUME IInv, NEW w \in Worker, Counted(w)
  PROVE  IInv'
  <1>1. ~At(w, "idle") /\ scan[w].at = "ask" /\ UNCHANGED <<popular, cache, kept, exits>>
    BY DEF Counted, At
  <1>2. scan[w] \in Scans /\ Here(w) \in Fen
    BY <1>1, Standing DEF At
  <1>3. popular[Here(w)] \in 0 .. MaxCount
    BY <1>2 DEF IInv, StateOK
  <1>4. PICK l : l = [scan[w] EXCEPT !.at = "keep", !.got = popular[Here(w)]]
    OBVIOUS
  <1>5. /\ l \in Scans /\ l.walk = scan[w].walk /\ l.ply = scan[w].ply /\ Become(w, l)
        /\ scan[w].walk \in Walks
    BY <1>2, <1>3, <1>4 DEF Counted, Scans
  <1> QED
    BY <1>1, <1>5, QuietStays

LEMMA TooManyIInv ==
  ASSUME IInv, NEW w \in Worker, TooMany(w)
  PROVE  IInv'
  <1>1. ~At(w, "idle") /\ scan[w].at = "ask" /\ UNCHANGED <<popular, cache, kept, exits>>
    BY DEF TooMany, At, calls
  <1>2. PICK l : l = [scan[w] EXCEPT !.at = "sleep"]
    OBVIOUS
  <1>3. /\ l \in Scans /\ l.walk = scan[w].walk /\ l.ply = scan[w].ply /\ Become(w, l)
        /\ scan[w].walk \in Walks
    BY <1>1, <1>2, Standing DEF TooMany, Scans
  <1> QED
    BY <1>1, <1>3, QuietStays

(* The flat ply, after an error of the explorer or its last 429.            *)
LEMMA FlatStays ==
  ASSUME IInv, NEW w \in Worker, ~At(w, "idle"),
         UNCHANGED <<popular, cache, kept>>, Exit(w, Flat(scan[w].walk), TRUE)
  PROVE  IInv'
  <1>1. PICK walk, x : walk = scan[w].walk /\ x = [ply |-> Flat(walk), flat |-> TRUE]
    OBVIOUS
  <1>2. walk \in Walks /\ Flat(walk) \in Nat
    BY <1>1, Standing, WalkType, ExplorerAssumption DEF Scans, Flat
  <1>3. x \in Exits /\ exits' = [exits EXCEPT ![walk] = @ \cup {x}] /\ Become(w, Idle)
    BY <1>1, <1>2 DEF Exit, Exits
  <1>4. Sound(walk, x)'
    BY <1>1 DEF Sound
  <1> QED
    BY <1>2, <1>3, <1>4, QuietStays

LEMMA RejectedIInv ==
  ASSUME IInv, NEW w \in Worker, Rejected(w)
  PROVE  IInv'
  BY FlatStays DEF Rejected, At, calls

LEMMA WakeIInv ==
  ASSUME IInv, NEW w \in Worker, Wake(w)
  PROVE  IInv'
  <1>1. ~At(w, "idle") /\ scan[w].at = "sleep" /\ UNCHANGED <<popular, cache, kept>>
    BY DEF Wake, At, calls
  <1>2. CASE scan[w].try = Retries
    BY <1>1, <1>2, FlatStays DEF Wake
  <1>3. CASE scan[w].try # Retries
    <2>1. scan[w] \in Scans
      BY <1>1, Standing
    <2>2. scan[w].try + 1 \in 1 .. Retries
      BY <1>3, <2>1, ExplorerAssumption DEF Scans
    <2>3. PICK l : l = [scan[w] EXCEPT !.at = "ask", !.try = @ + 1]
      OBVIOUS
    <2>4. Become(w, l) /\ UNCHANGED exits
      BY <1>3, <2>3 DEF Wake
    <2>5. /\ l \in Scans /\ l.walk = scan[w].walk /\ l.ply = scan[w].ply
          /\ scan[w].walk \in Walks
      BY <2>1, <2>2, <2>3 DEF Scans
    <2> QED
      BY <1>1, <2>4, <2>5, QuietStays
  <1> QED
    BY <1>2, <1>3

LEMMA RaisesIInv ==
  ASSUME IInv, NEW w \in Worker, Raises(w)
  PROVE  IInv'
  <1>1. ~At(w, "idle") /\ Become(w, Idle) /\ UNCHANGED <<popular, cache, kept, exits>>
    BY DEF Raises, At
  <1>2. scan[w].walk \in Walks
    BY <1>1, Standing DEF Scans
  <1> QED
    BY <1>1, <1>2, QuietStays

(* The call that is kept was pending; what it overwrites, if anything, was  *)
(* of a position that is then no longer settled.                            *)
LEMMA KeepIInv ==
  ASSUME IInv, NEW w \in Worker, Keep(w)
  PROVE  IInv'
  <1>1. PICK f, count : f = Here(w) /\ count = scan[w].got
    OBVIOUS
  <1>2. ~At(w, "idle") /\ ~At(w, "lookup") /\ scan[w].at = "keep"
    BY DEF Keep, At
  <1>3. /\ scan[w] \in Scans /\ scan[w].ply <= Len(scan[w].walk) /\ f \in Fen
        /\ count \in 0 .. MaxCount
    BY <1>1, <1>2, Standing DEF Scans
  <1>4. /\ cache' = [cache EXCEPT ![f] = count] /\ kept' = [kept EXCEPT ![f] = @ + 1]
        /\ Judge(w, count) /\ popular' = popular
    BY <1>1 DEF Keep
  <1>5. count \in 0 .. Uncached /\ count # Uncached
    BY <1>3, ExplorerAssumption DEF Uncached
  <1>6. cache' \in [Fen -> 0 .. Uncached] /\ kept' \in [Fen -> Nat] /\ cache'[f] = count
    BY <1>3, <1>4, <1>5 DEF IInv, StateOK
  <1>7. Firm
    <2> SUFFICES ASSUME NEW walk \in Walks, Settled(walk)', NEW i \in 1 .. Len(walk)
                 PROVE  /\ kept[walk[i]] <= 1
                        /\ cache[walk[i]] # Uncached => cache'[walk[i]] = cache[walk[i]]
      BY DEF Firm, Settled
    <2>1. walk[i] \in Fen /\ kept'[walk[i]] <= 1
      BY WalkType DEF Settled
    <2>2. kept[walk[i]] \in Nat /\ (cache[walk[i]] = Uncached <=> kept[walk[i]] = 0)
      BY <2>1 DEF IInv, StateOK, Bounded
    <2> QED
      BY <1>3, <1>4, <2>1, <2>2 DEF IInv, StateOK
  <1>8. /\ StateOK' /\ Typed' /\ OnPath' /\ Left'
        /\ \E l \in {Idle} \cup Scans : Become(w, l) /\ l.at \in {"idle", "lookup"}
    BY <1>1, <1>2, <1>3, <1>4, <1>6, <1>7, JudgeStays
  <1>9. Bounded'
    <2>1. PICK l : Become(w, l) /\ l.at \in {"idle", "lookup"}
      BY <1>8
    <2>2. /\ scan'[w] = l /\ \A v \in Worker : v # w => scan'[v] = scan[v]
      BY <2>1 DEF Become, IInv, Typed
    <2> SUFFICES ASSUME NEW g \in Fen
                 PROVE  /\ kept'[g] + Cardinality(Pending(g)') <= Cardinality(Worker)
                        /\ cache'[g] = Uncached <=> kept'[g] = 0
      BY DEF Bounded, Uncached
    <2>3. /\ kept[g] \in Nat /\ kept[g] + Cardinality(Pending(g)) <= Cardinality(Worker)
          /\ cache[g] = Uncached <=> kept[g] = 0
      BY DEF IInv, StateOK, Bounded
    <2>4. /\ IsFiniteSet(Pending(g)) /\ Cardinality(Pending(g)) \in Nat
          /\ Cardinality(Worker) \in Nat
      BY WorkerCount DEF Pending
    <2>5. Pending(g)' = Pending(g) \ {w}
      BY <2>1, <2>2 DEF Pending, Here
    <2>6. CASE g = f
      <3>1. w \in Pending(g)
        BY <1>1, <1>2, <2>6 DEF Pending
      <3>2. Cardinality(Pending(g)') = Cardinality(Pending(g)) - 1
        BY <2>4, <2>5, <3>1, FS_RemoveElement
      <3>3. kept'[g] = kept[g] + 1 /\ cache'[g] # Uncached
        BY <1>3, <1>4, <1>5, <2>6 DEF IInv, StateOK
      <3> QED
        BY <2>3, <2>4, <3>2, <3>3
    <2>7. CASE g # f
      <3>1. w \notin Pending(g)
        BY <1>1, <2>7 DEF Pending
      <3>2. Pending(g)' = Pending(g) /\ kept'[g] = kept[g] /\ cache'[g] = cache[g]
        BY <1>3, <1>4, <2>5, <2>7, <3>1 DEF IInv, StateOK
      <3> QED
        BY <2>3, <3>2
    <2> QED
      BY <2>6, <2>7
  <1> QED
    BY <1>8, <1>9 DEF IInv

LEMMA GrowsIInv ==
  ASSUME IInv, NEW f \in Fen, Grows(f)
  PROVE  IInv'
  <1>1. popular' \in [Fen -> 0 .. MaxCount]
    BY ExplorerAssumption DEF Grows, IInv, StateOK
  <1>2. UNCHANGED <<cache, scan, scans, kept, exits>>
    BY DEF Grows, calls
  <1>3. Bounded'
    BY <1>2 DEF IInv, Bounded, Pending, Here
  <1>4. OnPath' /\ Left'
    BY <1>2 DEF IInv, OnPath, Left, Sound, Settled, Passed, InBook
  <1> QED
    BY <1>1, <1>2, <1>3, <1>4 DEF IInv, StateOK, Typed, At

LEMMA InitIInv == Init => IInv
  <1> SUFFICES ASSUME Init PROVE IInv
    OBVIOUS
  <1>1. /\ scan = [w \in Worker |-> Idle] /\ kept = [f \in Fen |-> 0]
        /\ cache = [f \in Fen |-> Uncached] /\ exits = [walk \in Walks |-> {}]
        /\ popular \in [Fen -> 0 .. MaxCount]
    BY DEF Init
  <1>2. Uncached \in 0 .. Uncached
    BY UncachedType
  <1>3. StateOK /\ Typed /\ OnPath /\ Left
    BY <1>1, <1>2 DEF StateOK, Typed, OnPath, Left
  <1>4. Bounded
    <2>1. \A f \in Fen : Pending(f) = {}
      BY <1>1 DEF Pending, Idle
    <2>2. Cardinality({}) = 0 /\ Cardinality(Worker) \in Nat
      BY FS_EmptySet, FS_CardinalityType, ExplorerAssumption
    <2> QED
      BY <1>1, <2>1, <2>2 DEF Bounded
  <1> QED
    BY <1>3, <1>4 DEF IInv

-----------------------------------------------------------------------------

(* A step in which nobody is answered, keeps or loses anything.             *)
LEMMA NothingAnswered ==
  ASSUME IInv, Accounted, UNCHANGED calls, NEW w \in Worker, NEW l \in {Idle} \cup Scans,
         Become(w, l), ~At(w, "keep"), l.at # "keep"
  PROVE  Accounted'
  <1>1. /\ scan'[w] = l /\ \A v \in Worker : v # w => scan'[v] = scan[v]
    BY DEF Become, IInv, Typed
  <1>2. \A f \in Fen : Answering(f)' = Answering(f)
    BY <1>1 DEF Answering, Here, At
  <1> QED
    BY <1>2 DEF Accounted, calls

(* An answer: one more of them, and of those about to be kept.              *)
LEMMA AnswerAccounted ==
  ASSUME IInv, Accounted, NEW w \in Worker, Counted(w)
  PROVE  Accounted'
  <1>1. PICK f : f = Here(w)
    OBVIOUS
  <1>2. /\ scan[w] \in Scans /\ f \in Fen /\ scan[w].at = "ask"
        /\ UNCHANGED <<kept, lost>> /\ answered' = [answered EXCEPT ![f] = @ + 1]
    BY <1>1, Standing DEF Counted, At
  <1>3. PICK l : l = [scan[w] EXCEPT !.at = "keep", !.got = popular[f]]
    OBVIOUS
  <1>4. /\ l.at = "keep" /\ l.walk = scan[w].walk /\ l.ply = scan[w].ply
        /\ scan'[w] = l /\ \A v \in Worker : v # w => scan'[v] = scan[v]
    BY <1>1, <1>2, <1>3 DEF Counted, Become, IInv, Typed, Scans
  <1> SUFFICES ASSUME NEW g \in Fen
               PROVE  answered'[g] = kept[g] + lost[g] + Cardinality(Answering(g)')
    BY <1>2 DEF Accounted
  <1>5. /\ answered[g] = kept[g] + lost[g] + Cardinality(Answering(g))
        /\ kept[g] \in Nat /\ lost[g] \in Nat /\ answered[g] \in Nat
        /\ IsFiniteSet(Answering(g)) /\ Cardinality(Answering(g)) \in Nat
    BY WorkerCount DEF Accounted, IInv, StateOK, Answering
  <1>6. CASE g = f
    <2>1. Answering(g)' = Answering(g) \cup {w} /\ w \notin Answering(g)
      BY <1>1, <1>2, <1>4, <1>6 DEF Answering, Here
    <2>2. Cardinality(Answering(g)') = Cardinality(Answering(g)) + 1
      BY <1>5, <2>1, FS_AddElement
    <2>3. answered'[g] = answered[g] + 1
      BY <1>2, <1>6 DEF Accounted
    <2> QED
      BY <1>5, <2>2, <2>3
  <1>7. CASE g # f
    <2>1. Answering(g)' = Answering(g)
      BY <1>1, <1>2, <1>4, <1>7 DEF Answering, Here
    <2>2. answered'[g] = answered[g]
      BY <1>2, <1>7 DEF Accounted
    <2> QED
      BY <1>5, <2>1, <2>2
  <1> QED
    BY <1>6, <1>7

(* Someone who was about to keep a call keeps or loses it.                  *)
LEMMA EndAccounted ==
  ASSUME IInv, Accounted, NEW w \in Worker, At(w, "keep"),
         NEW l \in {Idle} \cup Scans, Become(w, l), l.at \in {"idle", "lookup"},
         answered' = answered,
         \/ kept' = [kept EXCEPT ![Here(w)] = @ + 1] /\ lost' = lost
         \/ lost' = [lost EXCEPT ![Here(w)] = @ + 1] /\ kept' = kept
  PROVE  Accounted'
  <1>1. PICK f : f = Here(w)
    OBVIOUS
  <1>2. f \in Fen /\ scan'[w] = l /\ \A v \in Worker : v # w => scan'[v] = scan[v]
    BY <1>1, Standing DEF At, Become, IInv, Typed
  <1>3. kept \in [Fen -> Nat] /\ lost \in [Fen -> Nat] /\ answered \in [Fen -> Nat]
    BY DEF Accounted, IInv, StateOK
  <1>4. lost' \in [Fen -> Nat]
    BY <1>1, <1>2, <1>3
  <1> SUFFICES ASSUME NEW g \in Fen
               PROVE  answered[g] = kept'[g] + lost'[g] + Cardinality(Answering(g)')
    BY <1>3, <1>4 DEF Accounted
  <1>5. /\ answered[g] = kept[g] + lost[g] + Cardinality(Answering(g))
        /\ kept[g] \in Nat /\ lost[g] \in Nat /\ answered[g] \in Nat
        /\ IsFiniteSet(Answering(g)) /\ Cardinality(Answering(g)) \in Nat
    BY <1>3, WorkerCount DEF Accounted, Answering
  <1>6. Answering(g)' = Answering(g) \ {w}
    BY <1>2 DEF Answering, Here
  <1>7. CASE g = f
    <2>1. w \in Answering(g)
      BY <1>1, <1>7 DEF Answering, At
    <2>2. Cardinality(Answering(g)') = Cardinality(Answering(g)) - 1
      BY <1>5, <1>6, <2>1, FS_RemoveElement
    <2>3. \/ kept'[g] = kept[g] + 1 /\ lost'[g] = lost[g]
          \/ lost'[g] = lost[g] + 1 /\ kept'[g] = kept[g]
      BY <1>1, <1>3, <1>7
    <2>4. kept'[g] + lost'[g] = kept[g] + lost[g] + 1
      BY <1>5, <2>3
    <2>5. kept[g] + lost[g] \in Nat
      BY <1>5
    <2> QED
      BY <1>5, <2>2, <2>4, <2>5
  <1>8. CASE g # f
    <2>1. Answering(g)' = Answering(g)
      BY <1>1, <1>6, <1>8 DEF Answering
    <2>2. kept'[g] = kept[g] /\ lost'[g] = lost[g]
      BY <1>1, <1>3, <1>8
    <2> QED
      BY <1>5, <2>1, <2>2
  <1> QED
    BY <1>7, <1>8

(* The exits and the verdicts of detect_book_exit end or go on.             *)
LEMMA JudgeMoves ==
  ASSUME IInv, NEW w \in Worker, ~At(w, "idle"),
         \/ \E count : Judge(w, count)
         \/ \E i, flat : Exit(w, i, flat)
  PROVE  \E l \in {Idle} \cup Scans : Become(w, l) /\ l.at \in {"idle", "lookup"}
  <1>1. PICK l : l = [scan[w] EXCEPT !.at = "lookup", !.ply = @ + 1, !.try = 1]
    OBVIOUS
  <1>2. l \in Scans /\ l.at = "lookup"
    <2>1. scan[w] \in Scans /\ 1 \in 1 .. Retries /\ scan[w].ply + 1 \in Nat
      BY Standing, ExplorerAssumption DEF Scans
    <2> QED
      BY <1>1, <2>1 DEF Scans
  <1>3. Become(w, Idle) \/ Become(w, l)
    BY <1>1 DEF Judge, Exit
  <1>4. Idle.at = "idle"
    BY DEF Idle
  <1> QED
    BY <1>2, <1>3, <1>4

(* Every step keeps the account.                                            *)
LEMMA AccountStays ==
  ASSUME IInv, Accounted, [Next]_vars
  PROVE  Accounted'
  <1>1. CASE UNCHANGED vars
    BY <1>1 DEF vars, Accounted, Answering, Here
  <1>2. CASE \E f \in Fen : Grows(f)
    BY <1>2 DEF Grows, calls, Accounted, Answering, Here
  <1>3. ASSUME NEW w \in Worker, Step(w) \/ Raises(w) \/ \E walk \in Walks : Begin(w, walk)
        PROVE  Accounted'
    <2>1. CASE Lookup(w)
      <3>1. /\ ~At(w, "idle") /\ ~At(w, "keep") /\ UNCHANGED calls
            /\ \/ \E count : Judge(w, count)
               \/ \E i, flat : Exit(w, i, flat)
               \/ Become(w, [scan[w] EXCEPT !.at = "ask"])
        BY <2>1 DEF Lookup, At
      <3>2. CASE Become(w, [scan[w] EXCEPT !.at = "ask"])
        <4>1. PICK l : l = [scan[w] EXCEPT !.at = "ask"]
          OBVIOUS
        <4>2. l \in Scans /\ l.at = "ask" /\ Become(w, l)
          BY <3>1, <3>2, <4>1, Standing DEF Scans
        <4> QED
          BY <3>1, <4>2, NothingAnswered
      <3>3. CASE (\E count : Judge(w, count)) \/ (\E i, flat : Exit(w, i, flat))
        <4>1. PICK l \in {Idle} \cup Scans : Become(w, l) /\ l.at \in {"idle", "lookup"}
          BY <3>1, <3>3, JudgeMoves
        <4> QED
          BY <3>1, <4>1, NothingAnswered
      <3> QED
        BY <3>1, <3>2, <3>3
    <2>2. CASE Counted(w)
      BY <2>2, AnswerAccounted
    <2>3. CASE TooMany(w)
      <3>1. PICK l : l = [scan[w] EXCEPT !.at = "sleep"]
        OBVIOUS
      <3>2. ~At(w, "idle") /\ ~At(w, "keep") /\ UNCHANGED calls /\ Become(w, l)
        BY <2>3, <3>1 DEF TooMany, At
      <3>3. l \in Scans /\ l.at = "sleep"
        BY <3>1, <3>2, Standing DEF Scans
      <3> QED
        BY <3>2, <3>3, NothingAnswered
    <2>4. CASE Rejected(w) \/ (Wake(w) /\ scan[w].try = Retries)
      <3>1. ~At(w, "keep") /\ UNCHANGED calls /\ Become(w, Idle)
        BY <2>4 DEF Rejected, Wake, Exit, At
      <3>2. Idle.at = "idle"
        BY DEF Idle
      <3> QED
        BY <3>1, <3>2, NothingAnswered
    <2>5. CASE Wake(w) /\ scan[w].try # Retries
      <3>1. PICK l : l = [scan[w] EXCEPT !.at = "ask", !.try = @ + 1]
        OBVIOUS
      <3>2. ~At(w, "idle") /\ ~At(w, "keep") /\ UNCHANGED calls /\ Become(w, l)
        BY <2>5, <3>1 DEF Wake, At
      <3>3. scan[w] \in Scans /\ scan[w].try + 1 \in 1 .. Retries
        BY <2>5, <3>2, Standing, ExplorerAssumption DEF Scans
      <3>4. l \in Scans /\ l.at = "ask"
        BY <3>1, <3>3 DEF Scans
      <3> QED
        BY <3>2, <3>4, NothingAnswered
    <2>6. CASE Keep(w)
      <3>1. /\ At(w, "keep") /\ ~At(w, "idle") /\ Judge(w, scan[w].got)
            /\ kept' = [kept EXCEPT ![Here(w)] = @ + 1] /\ lost' = lost /\ answered' = answered
        BY <2>6 DEF Keep, At
      <3>2. PICK l \in {Idle} \cup Scans : Become(w, l) /\ l.at \in {"idle", "lookup"}
        BY <3>1, JudgeMoves
      <3> QED
        BY <3>1, <3>2, EndAccounted
    <2>7. CASE Raises(w)
      <3>1. Become(w, Idle) /\ Idle.at = "idle" /\ answered' = answered /\ kept' = kept
        BY <2>7 DEF Raises, Idle
      <3>2. CASE At(w, "keep")
        <4>1. lost' = [lost EXCEPT ![Here(w)] = @ + 1]
          BY <2>7, <3>2 DEF Raises
        <4> QED
          BY <3>1, <3>2, <4>1, EndAccounted
      <3>3. CASE ~At(w, "keep")
        <4>1. UNCHANGED calls
          BY <2>7, <3>1, <3>3 DEF Raises, calls
        <4> QED
          BY <3>1, <3>3, <4>1, NothingAnswered
      <3> QED
        BY <3>2, <3>3
    <2>8. CASE \E walk \in Walks : Begin(w, walk)
      <3>1. PICK walk \in Walks : Begin(w, walk)
        BY <2>8
      <3>2. PICK l : l = [at |-> "lookup", walk |-> walk, ply |-> 1, try |-> 1, got |-> 0]
        OBVIOUS
      <3>3. ~At(w, "keep") /\ UNCHANGED calls /\ Become(w, l)
        BY <3>1, <3>2 DEF Begin, At
      <3>4. l \in Scans /\ l.at = "lookup" /\ l.at # "keep"
        BY <3>2, ExplorerAssumption DEF Scans
      <3> QED
        BY <3>3, <3>4, NothingAnswered
    <2> QED
      BY <1>3, <2>1, <2>2, <2>3, <2>4, <2>5, <2>6, <2>7, <2>8 DEF Step
  <1> QED
    BY <1>1, <1>2, <1>3 DEF Next

LEMMA Invariance == Spec => [](IInv /\ Accounted)
  <1>1. IInv /\ [Next]_vars => IInv'
    <2> SUFFICES ASSUME IInv, [Next]_vars PROVE IInv'
      OBVIOUS
    <2>1. CASE UNCHANGED vars
      <3>1. Bounded'
        BY <2>1 DEF vars, IInv, Bounded, Pending, Here
      <3>2. OnPath' /\ Left'
        BY <2>1 DEF vars, IInv, OnPath, Left, Sound, Settled, Passed, InBook
      <3> QED
        BY <2>1, <3>1, <3>2 DEF vars, IInv, StateOK, Typed, At
    <2>2. CASE \E f \in Fen : Grows(f)
      BY <2>2, GrowsIInv
    <2>3. CASE \E w \in Worker : Step(w) \/ Raises(w) \/ \E walk \in Walks : Begin(w, walk)
      BY <2>3, LookupIInv, CountedIInv, TooManyIInv, RejectedIInv, WakeIInv, KeepIInv,
         RaisesIInv, BeginIInv
      DEF Step
    <2> QED
      BY <2>1, <2>2, <2>3 DEF Next
  <1>2. Init => Accounted
    <2> SUFFICES ASSUME Init PROVE Accounted
      OBVIOUS
    <2>1. \A f \in Fen : Answering(f) = {}
      BY DEF Init, Answering, Idle
    <2>2. Cardinality({}) = 0
      BY FS_EmptySet
    <2> QED
      BY <2>1, <2>2 DEF Init, Accounted
  <1>3. Accounted /\ IInv /\ [Next]_vars => Accounted'
    BY AccountStays
  <1> QED
    BY <1>1, <1>2, <1>3, InitIInv, PTL DEF Spec

(* No position costs more answered explorer calls than there are workers,   *)
(* and one for each scan that failed with the answer in hand, however many  *)
(* games pass it and however their scans overlap (book.py's cache).         *)
THEOREM CallsBounded == Spec => []CallsBoundedByOverlap
  <1>1. IInv /\ Accounted => CallsBoundedByOverlap
    <2> SUFFICES ASSUME IInv, Accounted, NEW f \in Fen
                 PROVE  answered[f] <= Cardinality(Worker) + lost[f]
      BY DEF CallsBoundedByOverlap
    <2>1. /\ IsFiniteSet(Pending(f)) /\ Cardinality(Pending(f)) \in Nat
          /\ Cardinality(Worker) \in Nat
      BY WorkerCount DEF Pending
    <2>2. Answering(f) \in SUBSET Pending(f)
      BY DEF Answering, Pending
    <2>3. Cardinality(Answering(f)) \in Nat /\ Cardinality(Answering(f)) <= Cardinality(Pending(f))
      BY <2>1, <2>2, FS_Subset, FS_CardinalityType
    <2>4. /\ kept[f] \in Nat /\ lost[f] \in Nat
          /\ kept[f] + Cardinality(Pending(f)) <= Cardinality(Worker)
          /\ answered[f] = kept[f] + lost[f] + Cardinality(Answering(f))
      BY DEF IInv, StateOK, Bounded, Accounted
    <2> QED
      BY <2>1, <2>3, <2>4
  <1> QED
    BY <1>1, Invariance, PTL

(* Types of every variable (TypeOK): a scan that asks, waits or keeps stands *)
(* at a position of its game, and has tried it no more than Retries times.  *)
THEOREM TypeCorrect == Spec => []TypeOK
  <1>1. IInv /\ Accounted => TypeOK
    BY DEF IInv, Accounted, TypeOK
  <1> QED
    BY <1>1, Invariance, PTL

(* Scans of one game agree on where it leaves book as long as each of its   *)
(* positions was kept once, whatever Lichess counts meanwhile.           *)
THEOREM ExitSettled == Spec => []BookExitSettled
  <1>1. IInv => BookExitSettled
    <2> SUFFICES ASSUME IInv, NEW walk \in Walks, Settled(walk),
                        NEW x \in exits[walk], NEW y \in exits[walk], ~x.flat, ~y.flat
                 PROVE  x = y
      BY DEF BookExitSettled, Settled
    <2>1. x \in Exits /\ y \in Exits /\ Sound(walk, x) /\ Sound(walk, y)
      BY DEF IInv, Typed, Left
    <2>2. ASSUME NEW a \in Exits, NEW b \in Exits, Sound(walk, a), Sound(walk, b),
                 ~a.flat, ~b.flat, a.ply < b.ply
          PROVE  FALSE
      <3>1. a.ply \in Nat /\ b.ply \in Nat /\ Len(walk) \in Nat
        BY WalkType DEF Exits
      <3>2. b.ply <= Len(walk) /\ Passed(walk, b.ply)
        BY <2>2 DEF Sound
      <3>3. a.ply + 1 \in 1 .. b.ply /\ a.ply < Len(walk)
        BY <2>2, <3>1, <3>2
      <3>4. InBook(walk[a.ply + 1])
        BY <3>2, <3>3 DEF Passed
      <3> QED
        BY <2>2, <3>3, <3>4 DEF Sound
    <2>3. x.ply \in Nat /\ y.ply \in Nat /\ ~(x.ply < y.ply) /\ ~(y.ply < x.ply)
      BY <2>1, <2>2 DEF Exits
    <2>4. x.ply = y.ply
      BY <2>3
    <2> QED
      BY <2>1, <2>4 DEF Exits
  <1> QED
    BY <1>1, Invariance, PTL

=============================================================================
