--------------------------- MODULE IndexCacheProofs ---------------------------
(***************************************************************************)
(* Proofs about IndexCache, for any number of blunders, games, workers,    *)
(* searches and failures.                                                  *)
(*                                                                         *)
(* Two invariants.  Clean holds always: whatever is in an index, in memory *)
(* or on disk, is there once and was committed.  Complete holds while      *)
(* nothing has been disturbed: at most one job is between load and save,   *)
(* and what it loaded or what the file holds lacks nothing.                *)
(***************************************************************************)
EXTENDS IndexCache, FiniteSetTheorems, TLAPS

(* What an index may hold.                                                 *)
Sound(x) == Once(x) /\ Indexed(x) \subseteq noted

Clean ==
  /\ file \in Index => Sound(file)
  /\ \A w \in Worker :
       /\ Sound(idx[w])
       /\ new[w] \subseteq noted \ Indexed(idx[w])
       /\ new[w] # {} => at[w] \in {"save", "saving"}
  /\ \A r \in Reader :
       /\ Indexed(found[r].idx) \subseteq noted
       /\ found[r].hits \subseteq noted
       /\ found[r].answer \subseteq noted

Inv == StateOK /\ Clean

LEMMA InitInv == Init => Inv
  <1> USE ConstantsAssumption, FileAssumption
  <1> SUFFICES ASSUME Init PROVE Inv
    OBVIOUS
  <1>1. Empty \in Index /\ Indexed(Empty) = {} /\ Once(Empty)
    BY DEF Empty, Index, Indexed, Once
  <1>2. StateOK
    BY <1>1 DEF Init, StateOK, Search0, Points, Seeks, Saving
  <1>3. Clean
    BY <1>1 DEF Init, Clean, Sound, Search0
  <1> QED
    BY <1>2, <1>3 DEF Inv

(* What a load gives.                                                      *)
LEMMA LoadedSound ==
  ASSUME Inv, file # Torn
  PROVE  Loaded \in Index /\ Sound(Loaded)
  <1>1. Rebuilt \in Index /\ Sound(Rebuilt)
    BY DEF Rebuilt, Index, Sound, Once, Indexed
  <1>2. CASE file = Missing
    BY <1>1, <1>2 DEF Loaded
  <1>3. CASE file # Missing
    BY <1>3 DEF Inv, StateOK, Clean, Loaded
  <1> QED
    BY <1>2, <1>3

(* What a save writes.                                                     *)
LEMMA ExtendedSound ==
  ASSUME Inv, NEW w \in Worker
  PROVE  /\ Extended(w) \in Index /\ Sound(Extended(w))
         /\ Indexed(Extended(w)) = Indexed(idx[w]) \cup new[w]
  <1>1. idx[w] \in Index /\ new[w] \subseteq Id
    BY DEF Inv, StateOK
  <1>2. \A i \in Id : idx[w][i] \in Nat /\ idx[w][i] <= 1
    BY <1>1 DEF Inv, Clean, Sound, Once, Index
  <1>3. \A i \in Id : i \in new[w] => idx[w][i] = 0
    BY <1>1, <1>2 DEF Inv, Clean, Indexed
  <1>4. Extended(w) \in Index /\ Once(Extended(w))
    BY <1>1, <1>2, <1>3 DEF Extended, Index, Once
  <1>5. Indexed(Extended(w)) = Indexed(idx[w]) \cup new[w]
    BY <1>1, <1>2, <1>3 DEF Extended, Indexed
  <1>6. Indexed(Extended(w)) \subseteq noted
    BY <1>5 DEF Inv, Clean, Sound
  <1> QED
    BY <1>4, <1>5, <1>6 DEF Sound

(* A worker that leaves the job, with the file untouched.                  *)
LEMMA LeaveInv ==
  ASSUME Inv, NEW w \in Worker, Leave(w),
         UNCHANGED <<born, live, noted, found, seek>>,
         wanted' \in [Game -> Nat], mixed' \subseteq mixed \ {w},
         file' \in Index \cup {Missing, Torn},
         file' \in Index => Sound(file')
  PROVE  Inv'
  <1> USE ConstantsAssumption
  <1>1. Empty \in Index /\ Indexed(Empty) = {} /\ Once(Empty)
    BY DEF Empty, Index, Indexed, Once
  <1>2. StateOK'
    BY <1>1 DEF Inv, StateOK, Leave, Points, Saving
  <1>3. Clean'
    BY <1>1, <1>2 DEF Inv, StateOK, Clean, Leave, Sound
  <1> QED
    BY <1>2, <1>3 DEF Inv

LEMMA RetriedType ==
  ASSUME StateOK, NEW g \in Game \cup {NoGame}, Retried(g)
  PROVE  wanted' \in [Game -> Nat]
  BY DEF StateOK, Retried

LEMMA DeepInv ==
  ASSUME Inv, NEW g \in Game, Deep(g)
  PROVE  Inv'
  <1> PICK gone \in SUBSET {i \in live : GameOf[i] = g},
           fresh \in SUBSET {i \in Id \ born : GameOf[i] = g} :
        /\ born' = born \cup fresh
        /\ live' = (live \ gone) \cup fresh
        /\ wanted' = [wanted EXCEPT ![g] = IF fresh = {} THEN @ ELSE @ + 1]
    BY DEF Deep
  <1>1. UNCHANGED <<noted, disk, work, search>>
    BY DEF Deep
  <1>2. StateOK'
    BY <1>1 DEF Inv, StateOK, disk, work, search, Saving
  <1>3. Clean'
    BY <1>1 DEF Inv, Clean, Sound, disk, work, search
  <1> QED
    BY <1>2, <1>3 DEF Inv

LEMMA BeginInv ==
  ASSUME Inv, NEW w \in Worker, NEW g \in Game, Begin(w, g)
  PROVE  Inv'
  <1>1. Bare(g) \subseteq born
    BY DEF Bare, Inv, StateOK
  <1>2. UNCHANGED <<born, live, noted, disk, search, idx, new>>
    BY DEF Begin, work
  <1>3. wanted' \in [Game -> Nat]
    BY DEF Begin, Inv, StateOK
  <1>4. StateOK'
    BY <1>1, <1>2, <1>3 DEF Begin, Inv, StateOK, disk, work, search, Points, Saving
  <1>5. Clean'
    BY <1>2 DEF Begin, Inv, StateOK, Clean, Sound, disk, search, work
  <1> QED
    BY <1>4, <1>5 DEF Inv

LEMMA LoadInv ==
  ASSUME Inv, NEW w \in Worker, Load(w)
  PROVE  Inv'
  <1>1. Loaded \in Index /\ Sound(Loaded)
    BY LoadedSound DEF Load
  <1>2. new[w] = {}
    BY DEF Load, Goto, Inv, Clean
  <1>3. UNCHANGED <<store, disk, game, ids, new, search>>
    BY DEF Load
  <1>4. StateOK'
    BY <1>1, <1>3 DEF Load, Goto, Inv, StateOK, store, disk, search, Points, Saving
  <1>5. Clean'
    BY <1>1, <1>2, <1>3 DEF Load, Goto, Inv, StateOK, Clean, Sound, store, disk, search
  <1> QED
    BY <1>4, <1>5 DEF Inv

LEMMA LoadFailsInv ==
  ASSUME Inv, NEW w \in Worker, LoadFails(w)
  PROVE  Inv'
  <1>1. wanted' \in [Game -> Nat]
    BY RetriedType DEF LoadFails, Inv, StateOK
  <1>2. w \notin Saving /\ mixed \subseteq Saving
    BY DEF LoadFails, Saving, Inv, StateOK
  <1>3. file \in Index \cup {Missing, Torn} /\ (file \in Index => Sound(file))
    BY DEF Inv, StateOK, Clean
  <1>4. UNCHANGED <<born, live, noted, found, seek, file, mixed>> /\ Sound(file)' = Sound(file)
    BY DEF LoadFails, disk, search, Sound
  <1> QED
    BY <1>1, <1>2, <1>3, <1>4, LeaveInv DEF LoadFails

LEMMA CommitInv ==
  ASSUME Inv, NEW w \in Worker, Commit(w)
  PROVE  Inv'
  <1> DEFINE written == ids[w] \cap Bare(game[w])
  <1>1. written \subseteq born /\ written \cap noted = {}
    BY DEF Inv, StateOK, Bare
  <1>2. CASE written = {}
    <2>1. noted' = noted
      BY <1>2 DEF Commit
    <2>2. Leave(w) /\ UNCHANGED <<born, live, noted, found, seek, file, mixed, wanted>>
      BY <1>2, <2>1 DEF Commit, disk, search
    <2>3. w \notin Saving /\ mixed \subseteq Saving
      BY DEF Commit, Saving, Inv, StateOK
    <2>4. file \in Index \cup {Missing, Torn} /\ (file \in Index => Sound(file))
      BY DEF Inv, StateOK, Clean
    <2>5. wanted' \in [Game -> Nat] /\ Sound(file)' = Sound(file)
      BY <2>2 DEF Inv, StateOK, Sound
    <2> QED
      BY <2>2, <2>3, <2>4, <2>5, LeaveInv
  <1>3. CASE written # {}
    <2>1. /\ noted' = noted \cup written
          /\ at[w] = "loaded"
          /\ at' = [at EXCEPT ![w] = "save"]
          /\ new' = [new EXCEPT ![w] = written]
          /\ UNCHANGED <<born, live, wanted, disk, search, game, ids, idx>>
      BY <1>3 DEF Commit
    <2> HIDE DEF written
    <2>2. \A v \in Worker : at'[v] \in {"save", "saving"} => new'[v] # {}
      BY <1>3, <2>1 DEF Inv, StateOK
    <2>3. StateOK'
      BY <1>1, <2>1, <2>2 DEF Inv, StateOK, disk, search, Points, Saving
    <2>4. Clean'
      BY <1>1, <2>1 DEF Inv, StateOK, Clean, Sound, disk, search
    <2> QED
      BY <2>3, <2>4 DEF Inv
  <1> QED
    BY <1>2, <1>3

LEMMA SaveBeginInv ==
  ASSUME Inv, NEW w \in Worker, SaveBegin(w)
  PROVE  Inv'
  <1>1. UNCHANGED <<store, game, ids, idx, new, search>>
    BY DEF SaveBegin
  <1>2. mixed' \subseteq mixed \cup Saving \cup {w}
    BY DEF SaveBegin
  <1>3. StateOK'
    BY <1>1, <1>2 DEF SaveBegin, Goto, Inv, StateOK, store, search, Points, Saving
  <1>4. Clean'
    BY <1>1, FileAssumption DEF SaveBegin, Goto, Inv, StateOK, Clean, Sound, store, search
  <1> QED
    BY <1>3, <1>4 DEF Inv

LEMMA SaveEndInv ==
  ASSUME Inv, NEW w \in Worker, SaveEnd(w)
  PROVE  Inv'
  <1>1. UNCHANGED <<born, live, noted, found, seek, wanted>> /\ mixed' = mixed \ {w} /\ Leave(w)
    BY DEF SaveEnd, store, search
  <1>2. file' \in Index \cup {Missing, Torn} /\ (file' \in Index => Sound(file'))
    BY ExtendedSound, FileAssumption DEF SaveEnd, Inv, StateOK, Clean
  <1>3. wanted' \in [Game -> Nat]
    BY <1>1 DEF Inv, StateOK
  <1> QED
    BY <1>1, <1>2, <1>3, LeaveInv

LEMMA FailInv ==
  ASSUME Inv, NEW w \in Worker, Fail(w)
  PROVE  Inv'
  <1>1. UNCHANGED <<born, live, noted, found, seek, file>> /\ mixed' = mixed \ {w} /\ Leave(w)
    BY DEF Fail, search
  <1>2. wanted' \in [Game -> Nat]
    BY RetriedType DEF Fail, Inv, StateOK
  <1>3. file' \in Index \cup {Missing, Torn} /\ (file' \in Index => Sound(file'))
    BY <1>1 DEF Inv, StateOK, Clean
  <1> QED
    BY <1>1, <1>2, <1>3, LeaveInv

(* A search: it reads the file and the database and writes neither.        *)
LEMMA SeekInv ==
  ASSUME Inv, NEW r \in Reader, Seek(r)
  PROVE  Inv'
  <1>1. UNCHANGED <<store, disk, work>>
    BY DEF Seek, SeekLoad, SeekFilter, SeekHits, SeekDetails
  <1>2. Empty \in Index /\ Indexed(Empty) = {}
    BY DEF Empty, Index, Indexed
  <1>3. CASE SeekLoad(r)
    <2>1. Loaded \in Index /\ Sound(Loaded)
      BY <1>3, LoadedSound DEF SeekLoad
    <2>2. Settled \subseteq born
      BY DEF Settled, Inv, StateOK
    <2>3. StateOK'
      BY <1>1, <1>3, <2>1, <2>2 DEF SeekLoad, Inv, StateOK, Search0, store, disk, work, Seeks, Saving
    <2>4. Clean'
      BY <1>1, <1>3, <2>1 DEF SeekLoad, Inv, StateOK, Clean, Sound, Search0, store, disk, work
    <2> QED
      BY <2>3, <2>4 DEF Inv
  <1>4. CASE SeekFilter(r)
    <2> PICK rows \in SUBSET live : found' = [found EXCEPT ![r].allowed = rows]
      BY <1>4 DEF SeekFilter
    <2>1. StateOK'
      BY <1>1, <1>4 DEF SeekFilter, Inv, StateOK, store, disk, work, Seeks, Saving
    <2>2. Clean'
      BY <1>1, <1>4 DEF SeekFilter, Inv, StateOK, Clean, Sound, store, disk, work
    <2> QED
      BY <2>1, <2>2 DEF Inv
  <1>5. CASE SeekHits(r)
    <2> PICK T \in Hits(r) : found' = [found EXCEPT ![r].hits = T]
      BY <1>5 DEF SeekHits
    <2>1. T \subseteq Indexed(found[r].idx) /\ T \subseteq found[r].allowed
      BY DEF Hits, Nearest
    <2>2. StateOK'
      BY <1>1, <1>5, <2>1 DEF SeekHits, Inv, StateOK, store, disk, work, Seeks, Saving
    <2>3. Clean'
      BY <1>1, <2>1 DEF Inv, StateOK, Clean, Sound, store, disk, work
    <2> QED
      BY <2>2, <2>3 DEF Inv
  <1>6. CASE SeekDetails(r)
    <2>1. StateOK'
      BY <1>1, <1>2, <1>6 DEF SeekDetails, Inv, StateOK, Search0, store, disk, work, Seeks, Saving
    <2>2. Clean'
      BY <1>1, <1>2, <1>6 DEF SeekDetails, Inv, StateOK, Clean, Sound, Search0, store, disk, work
    <2> QED
      BY <2>1, <2>2 DEF Inv
  <1> QED
    BY <1>3, <1>4, <1>5, <1>6 DEF Seek

LEMMA StepInv == Inv /\ [Next]_vars => Inv'
  <1> SUFFICES ASSUME Inv, [Next]_vars PROVE Inv'
    OBVIOUS
  <1>1. CASE UNCHANGED vars
    BY <1>1 DEF Inv, StateOK, Clean, Sound, vars, Saving
  <1>2. ASSUME NEW w \in Worker, Annotate(w) PROVE Inv'
    BY <1>2, BeginInv, LoadInv, LoadFailsInv, CommitInv, SaveBeginInv, SaveEndInv DEF Annotate
  <1> QED
    BY <1>1, <1>2, DeepInv, FailInv, SeekInv DEF Next

LEMMA Invariance == Spec => []Inv
  BY InitInv, StepInv, PTL DEF Spec

LEMMA CountersInit == Init => CountersOK
  <1> SUFFICES ASSUME Init PROVE CountersOK
    OBVIOUS
  <1>1. overlap \in BOOLEAN
    BY Zenon DEF Init
  <1> QED
    BY <1>1, ConstantsAssumption DEF Init, CountersOK

LEMMA CountersStep == CountersOK /\ [Next]_vars => CountersOK'
  <1> SUFFICES ASSUME CountersOK, [Next]_vars PROVE CountersOK'
    OBVIOUS
  <1> USE ConstantsAssumption
  <1>1. CASE UNCHANGED vars
    BY <1>1 DEF CountersOK, vars
  <1>2. ASSUME NEW g \in Game, Deep(g) PROVE CountersOK'
    BY <1>2 DEF Deep, CountersOK
  <1>3. ASSUME NEW w \in Worker, Fail(w) PROVE CountersOK'
    BY <1>3 DEF Fail, CountersOK
  <1>4. ASSUME NEW w \in Worker, Annotate(w) PROVE CountersOK'
    BY <1>4 DEF Annotate, Begin, Load, LoadFails, Noticed, Commit, SaveBegin, SaveEnd, CountersOK
  <1>5. ASSUME NEW r \in Reader, Seek(r) PROVE CountersOK'
    BY <1>5 DEF Seek, SeekLoad, SeekFilter, SeekHits, SeekDetails, CountersOK
  <1> QED
    BY <1>1, <1>2, <1>3, <1>4, <1>5 DEF Next

(* Types of every variable.                                                *)
THEOREM TypeCorrect == Spec => []TypeOK
  <1>1. Inv => StateOK
    BY DEF Inv
  <1>2. StateOK /\ CountersOK => TypeOK
    BY DEF TypeOK
  <1> QED
    BY <1>1, <1>2, CountersInit, CountersStep, Invariance, PTL DEF Spec

(* No blunder ever has two vectors in the file, however jobs overlap, fail *)
(* and are tried again.                                                    *)
THEOREM NoDouble == Spec => []NoDoubleVectors
  <1>1. Inv => NoDoubleVectors
    BY DEF Inv, Clean, Sound, NoDoubleVectors
  <1> QED
    BY <1>1, Invariance, PTL

(* Neither the file nor an answer runs ahead of the database.              *)
THEOREM AnswersCommitted == Spec => []AnswersAreAnnotated
  <1>1. Inv => AnswersAreAnnotated
    BY DEF Inv, Clean, Sound, AnswersAreAnnotated
  <1> QED
    BY <1>1, Invariance, PTL

----------------------------------------------------------------------------
(* While nothing has been disturbed.                                       *)

Quiet == failures = 0 /\ ~overlap

(* The rows an index should hold.                                          *)
Due == live \cap noted

Complete ==
  /\ mixed = {}
  /\ \A w, v \in Between : w = v
  /\ file = Torn => Saving # {}
  /\ file \in Index => Settled \subseteq Indexed(file)
  /\ \A w \in Worker :
       /\ at[w] = "loaded" => Due \subseteq Indexed(idx[w])
       /\ at[w] \in {"save", "saving"} => Due \subseteq Indexed(idx[w]) \cup new[w]
  /\ \A r \in Reader :
       /\ seek[r] \in {"loaded", "filtered"} => found[r].known \subseteq Indexed(found[r].idx)
       /\ seek[r] = "hit" => Cardinality(found[r].hits) = K
                              \/ found[r].known \cap found[r].allowed \subseteq found[r].hits

QInv == Quiet => Complete

LEMMA InitQInv == Init => QInv
  BY ConstantsAssumption, FileAssumption
  DEF Init, QInv, Complete, Between, Saving, Settled, Due

(* A failure or an overlap is never forgotten.                             *)
LEMMA QuietBefore == CountersOK /\ [Next]_vars /\ Quiet' => Quiet
  <1> SUFFICES ASSUME CountersOK, [Next]_vars, Quiet' PROVE Quiet
    OBVIOUS
  <1>1. failures' = failures \/ failures' = failures + 1
    BY DEF Next, Annotate, Seek, vars, Deep, Begin, Load, LoadFails, Commit, SaveBegin,
           SaveEnd, Fail, SeekLoad, SeekFilter, SeekHits, SeekDetails
  <1>2. UNCHANGED overlap \/ Noticed
    BY DEF Next, Annotate, Seek, vars, Deep, Begin, Load, LoadFails, Commit, SaveBegin,
           SaveEnd, Fail, SeekLoad, SeekFilter, SeekHits, SeekDetails
  <1>3. failures \in Nat
    BY ConstantsAssumption DEF CountersOK
  <1>4. failures = 0
    BY <1>1, <1>3 DEF Quiet
  <1>5. ~overlap
    BY <1>2, Zenon DEF Quiet, Noticed
  <1> QED
    BY <1>4, <1>5 DEF Quiet

(* When nobody is between commit and save, nothing is left out of Settled. *)
LEMMA SettledIsDue ==
  ASSUME Inv, \A w \in Worker : at[w] \notin {"save", "saving"}
  PROVE  Settled = Due
  BY DEF Inv, Clean, Settled, Due

LEMMA DeepQ ==
  ASSUME Inv, Complete, NEW g \in Game, Deep(g)
  PROVE  Complete'
  <1>1. UNCHANGED <<noted, disk, work, search>>
    BY DEF Deep
  <1>2. live' \cap noted \subseteq live \cap noted
    BY DEF Deep, Inv, StateOK
  <1> QED
    BY <1>1, <1>2 DEF Complete, Due, Settled, Between, Saving, disk, work, search

LEMMA BeginQ ==
  ASSUME Inv, Complete, NEW w \in Worker, NEW g \in Game, Begin(w, g)
  PROVE  Complete'
  <1>1. UNCHANGED <<live, noted, disk, search, idx, new>>
    BY DEF Begin, work
  <1>2. Between' = Between /\ Saving' = Saving
    BY DEF Begin, work, Between, Saving, Inv, StateOK
  <1>3. \A v \in Worker : at'[v] \in {"loaded", "save", "saving"} => at'[v] = at[v]
    BY DEF Begin, work, Inv, StateOK
  <1> QED
    BY <1>1, <1>2, <1>3 DEF Complete, Due, Settled, disk, search

LEMMA LoadQ ==
  ASSUME Inv, Complete, NEW w \in Worker, Load(w), Quiet'
  PROVE  Complete'
  <1>1. UNCHANGED <<live, noted, disk, search, new>>
    BY DEF Load, store
  <1>2. Between = {}
    BY DEF Load, Noticed, Quiet
  <1>3. at' = [at EXCEPT ![w] = "loaded"]
    BY DEF Load, Goto
  <1>4. Between' = {w} /\ Saving' = {} /\ Saving = {}
    BY <1>2, <1>3 DEF Between, Saving, Inv, StateOK
  <1>5. Due \subseteq Indexed(Loaded)
    <2>1. Settled = Due
      BY <1>2, SettledIsDue DEF Between
    <2>2. CASE file = Missing
      BY <2>2 DEF Loaded, Rebuilt, Indexed, Due, Inv, StateOK
    <2>3. CASE file \in Index
      BY <2>1, <2>3, FileAssumption DEF Loaded, Complete
    <2> QED
      BY <2>2, <2>3 DEF Load, Inv, StateOK
  <1>6. idx' = [idx EXCEPT ![w] = Loaded]
    BY DEF Load
  <1> QED
    BY <1>1, <1>2, <1>3, <1>4, <1>5, <1>6
    DEF Complete, Due, Settled, disk, search, Between, Inv, StateOK

(* A torn file under quiet is one that somebody is writing.                *)
LEMMA LoadFailsQ ==
  ASSUME Inv, Complete, NEW w \in Worker, LoadFails(w)
  PROVE  ~Quiet'
  <1>1. Between # {}
    BY DEF LoadFails, Complete, Saving, Between
  <1> QED
    BY <1>1 DEF LoadFails, Noticed, Quiet

LEMMA CommitQ ==
  ASSUME Inv, Complete, NEW w \in Worker, Commit(w)
  PROVE  Complete'
  <1> DEFINE written == ids[w] \cap Bare(game[w])
  <1>1. at[w] = "loaded" /\ Between = {w} /\ Saving = {}
    BY DEF Commit, Complete, Between, Saving
  <1>2. UNCHANGED <<live, disk, search>> /\ noted' = noted \cup written
    BY DEF Commit
  <1>3. Settled = Due
    BY <1>1, SettledIsDue DEF Between
  <1>4. CASE written = {}
    <2>1. Leave(w) /\ noted' = noted
      BY <1>2, <1>4 DEF Commit
    <2>2. Between' = {} /\ Saving' = {}
      BY <1>1, <2>1 DEF Leave, Between, Saving, Inv, StateOK
    <2>3. Settled' \subseteq Settled
      BY <1>2, <1>3, <2>1 DEF Settled, Due
    <2> QED
      BY <1>1, <1>2, <2>1, <2>2, <2>3 DEF Complete, Due, disk, search, Between, Saving
  <1>5. CASE written # {}
    <2>1. /\ at' = [at EXCEPT ![w] = "save"]
          /\ new' = [new EXCEPT ![w] = written]
          /\ idx' = idx
      BY <1>5 DEF Commit
    <2>2. Between' = {w} /\ Saving' = {}
      BY <1>1, <2>1 DEF Between, Saving, Inv, StateOK
    <2>3. Settled' \subseteq Settled
      <3>1. new'[w] = written
        BY <2>1 DEF Inv, StateOK
      <3> QED
        BY <1>2, <1>3, <3>1 DEF Settled, Due
    <2>4. Due' \subseteq Indexed(idx'[w]) \cup new'[w]
      BY <1>1, <1>2, <2>1 DEF Complete, Due, Inv, StateOK
    <2>5. \A v \in Worker : at'[v] \in {"loaded", "save", "saving"} => v = w /\ at'[v] = "save"
      BY <2>1, <2>2 DEF Between, Inv, StateOK
    <2> QED
      BY <1>1, <1>2, <2>1, <2>2, <2>3, <2>4, <2>5 DEF Complete, disk, search
  <1> QED
    BY <1>4, <1>5

LEMMA SaveBeginQ ==
  ASSUME Inv, Complete, NEW w \in Worker, SaveBegin(w)
  PROVE  Complete'
  <1>1. Between = {w} /\ Saving = {}
    BY DEF SaveBegin, Goto, Complete, Between, Saving
  <1>2. UNCHANGED <<live, noted, idx, new, search, mixed>> /\ file' = Torn
    BY <1>1 DEF SaveBegin, store
  <1>3. at' = [at EXCEPT ![w] = "saving"] /\ at[w] = "save"
    BY DEF SaveBegin, Goto
  <1>4. Between' = {w} /\ Saving' = {w}
    BY <1>1, <1>3 DEF Between, Saving, Inv, StateOK
  <1> QED
    BY <1>1, <1>2, <1>3, <1>4, FileAssumption
    DEF Complete, Due, search, Between, Saving, Inv, StateOK

LEMMA SaveEndQ ==
  ASSUME Inv, Complete, NEW w \in Worker, SaveEnd(w)
  PROVE  Complete'
  <1>1. at[w] = "saving" /\ Between = {w}
    BY DEF SaveEnd, Complete, Between
  <1>2. UNCHANGED <<live, noted, search>> /\ mixed' = {} /\ file' = Extended(w) /\ Leave(w)
    BY DEF SaveEnd, Complete, store
  <1>3. Between' = {} /\ Saving' = {}
    BY <1>1, <1>2 DEF Leave, Between, Saving, Inv, StateOK
  <1>4. Due \subseteq Indexed(file') /\ file' \in Index
    BY <1>1, <1>2, ExtendedSound DEF Complete
  <1>5. Settled' \subseteq Due
    BY <1>2 DEF Settled, Due
  <1> QED
    BY <1>2, <1>3, <1>4, <1>5, FileAssumption DEF Complete, search, Between, Saving

LEMMA SeekQ ==
  ASSUME Inv, Complete, NEW r \in Reader, Seek(r)
  PROVE  Complete'
  <1>1. UNCHANGED <<store, disk, work>>
    BY DEF Seek, SeekLoad, SeekFilter, SeekHits, SeekDetails
  <1> DEFINE
    Good(q) ==
      /\ seek[q] \in {"loaded", "filtered"} => found[q].known \subseteq Indexed(found[q].idx)
      /\ seek[q] = "hit" => Cardinality(found[q].hits) = K
                             \/ found[q].known \cap found[q].allowed \subseteq found[q].hits
  <1>2. \A q \in Reader : Good(q)
    BY DEF Complete
  <1>3. \A q \in Reader \ {r} : seek'[q] = seek[q] /\ found'[q] = found[q]
    BY DEF Seek, SeekLoad, SeekFilter, SeekHits, SeekDetails, Inv, StateOK
  <1> SUFFICES Good(r)'
    <2>1. \A q \in Reader : Good(q)'
      BY <1>2, <1>3
    <2>2. UNCHANGED <<mixed, Between, Saving, file, Settled, Due, at, idx, new>>
      BY <1>1 DEF store, disk, work, Between, Saving, Settled, Due
    <2> QED
      BY <2>1, <2>2 DEF Complete
  <1>4. CASE SeekLoad(r)
    <2>1. Settled \subseteq Indexed(Loaded)
      <3>1. CASE file = Missing
        BY <3>1 DEF Loaded, Rebuilt, Indexed, Settled, Inv, StateOK
      <3>2. CASE file \in Index
        BY <3>2, FileAssumption DEF Loaded, Complete
      <3> QED
        BY <1>4, <3>1, <3>2 DEF SeekLoad, Inv, StateOK
    <2>2. seek'[r] = "loaded" /\ found'[r].idx = Loaded /\ found'[r].known = Settled
      BY <1>4 DEF SeekLoad, Search0, Inv, StateOK
    <2> QED
      BY <2>1, <2>2
  <1>5. CASE SeekFilter(r)
    <2> PICK rows \in SUBSET live : found' = [found EXCEPT ![r].allowed = rows]
      BY <1>5 DEF SeekFilter
    <2>1. /\ seek[r] = "loaded" /\ seek'[r] = "filtered"
          /\ found'[r].idx = found[r].idx /\ found'[r].known = found[r].known
      BY <1>5 DEF SeekFilter, Inv, StateOK
    <2> QED
      BY <1>2, <2>1
  <1>6. CASE SeekHits(r)
    <2> PICK T \in Hits(r) : found' = [found EXCEPT ![r].hits = T]
      BY <1>6 DEF SeekHits
    <2> DEFINE S == Indexed(found[r].idx) \cap found[r].allowed
    <2>1. /\ seek[r] = "filtered" /\ seek'[r] = "hit" /\ found'[r].hits = T
          /\ found'[r].known = found[r].known /\ found'[r].allowed = found[r].allowed
      BY <1>6 DEF SeekHits, Inv, StateOK
    <2>2. IsFiniteSet(S)
      BY ConstantsAssumption, FS_Subset DEF Indexed
    <2>3. T \subseteq S /\ (Cardinality(T) = K \/ Cardinality(T) = Cardinality(S))
      BY DEF Hits, Nearest
    <2>4. Cardinality(T) = K \/ T = S
      BY <2>2, <2>3, FS_Subset
    <2> QED
      BY <1>2, <2>1, <2>4
  <1>7. CASE SeekDetails(r)
    <2>1. seek'[r] = "idle"
      BY <1>7 DEF SeekDetails, Inv, StateOK
    <2> QED
      BY <2>1
  <1> QED
    BY <1>4, <1>5, <1>6, <1>7 DEF Seek

LEMMA StepQInv == Inv /\ CountersOK /\ QInv /\ [Next]_vars => QInv'
  <1> SUFFICES ASSUME Inv, CountersOK, QInv, [Next]_vars, Quiet' PROVE Complete'
    BY DEF QInv
  <1>1. Complete
    BY QuietBefore DEF QInv
  <1>2. CASE UNCHANGED vars
    BY <1>1, <1>2 DEF Complete, Due, Settled, Between, Saving, vars
  <1>3. ASSUME NEW w \in Worker, Annotate(w) PROVE Complete'
    BY <1>1, <1>3, BeginQ, LoadQ, LoadFailsQ, CommitQ, SaveBeginQ, SaveEndQ DEF Annotate
  <1>4. ASSUME NEW w \in Worker, Fail(w) PROVE Complete'
    BY <1>4, ConstantsAssumption DEF Fail, Quiet, CountersOK
  <1> QED
    BY <1>1, <1>2, <1>3, <1>4, DeepQ, SeekQ DEF Next

LEMMA QInvariance == Spec => []QInv
  <1> QED
    BY CountersInit, CountersStep, Invariance, InitQInv, StepQInv, PTL DEF Spec

(* As long as no job failed and no two were between load and save at once, *)
(* every annotated blunder can be found.                                   *)
THEOREM Undisturbed == Spec => []RetrievableUnlessDisturbed
  <1>1. Inv /\ QInv => RetrievableUnlessDisturbed
    <2> SUFFICES ASSUME Inv, Quiet, Complete, NEW i \in live \cap noted
                 PROVE  \/ file = Missing
                        \/ file \in Index /\ i \in Indexed(file)
                        \/ InHand(i)
      BY DEF QInv, Quiet, RetrievableUnlessDisturbed, Retrievable
    <2>1. i \in Id
      BY DEF Inv, StateOK
    <2>2. CASE \E w \in Worker : at[w] \in {"save", "saving"}
      BY <2>1, <2>2 DEF Complete, Due, InHand, Indexed
    <2>3. CASE \A w \in Worker : at[w] \notin {"save", "saving"}
      <3>1. Settled = Due /\ Saving = {}
        BY <2>3, SettledIsDue DEF Saving
      <3> QED
        BY <3>1 DEF Complete, Due, Inv, StateOK
    <2> QED
      BY <2>2, <2>3
  <1> QED
    BY <1>1, Invariance, QInvariance, PTL

(* Under the same conditions a search misses nothing it should know of.    *)
THEOREM SearchComplete == Spec => []SearchMissesNothing
  <1>1. QInv => SearchMissesNothing
    BY DEF QInv, Quiet, Complete, SearchMissesNothing
  <1> QED
    BY <1>1, QInvariance, PTL

=============================================================================
