------------------------------ MODULE IndexCache ------------------------------
(***************************************************************************)
(* One user's vector index: the embeddings in the database, the file that  *)
(* caches them (retrieval.py), the annotate jobs that extend both          *)
(* (annotate_flow.py, run_annotate) and the searches that read them        *)
(* (find_similar_blunders).                                                *)
(*                                                                         *)
(* An annotate job loads the file before it writes the database, commits,  *)
(* and then writes the whole index back: load, commit and save are three   *)
(* steps, with no lock on the file.  Opening the file for writing empties  *)
(* it, so a reader may meet a file that does not load.                     *)
(*                                                                         *)
(* Vectors are left out: an index is how often it holds each blunder id,   *)
(* and any K of the allowed ids may be the nearest.  A deep pass is one    *)
(* step, with the annotate job that follows it.                            *)
(***************************************************************************)
EXTENDS Integers, FiniteSets

CONSTANTS
  Id,           (* blunders.id: drawn from a sequence, never used again     *)
  Game,         (* the user's games                                         *)
  GameOf,       (* GameOf[i]: the game blunder i is inserted for            *)
  Worker,       (* worker processes                                         *)
  Reader,       (* requests to search                                       *)
  K,            (* how many results a search asks for                       *)
  MaxPasses,    (* bound: deep passes                                       *)
  MaxFailures,  (* bound: annotate jobs that raise or are killed            *)
  MaxSearches,  (* bound: searches                                          *)
  NoGame,
  Missing,      (* the cache file when there is none                        *)
  Torn          (* the cache file when it does not load                     *)

ASSUME ConstantsAssumption ==
  /\ GameOf \in [Id -> Game]
  /\ IsFiniteSet(Id)
  /\ K \in Nat
  /\ MaxPasses \in Nat /\ MaxFailures \in Nat /\ MaxSearches \in Nat
  /\ NoGame \notin Game
  /\ Missing # Torn

(* An index: how many vectors it holds under each id.                      *)
Index == [Id -> Nat]
Empty == [i \in Id |-> 0]
Indexed(x) == {i \in Id : x[i] > 0}

ASSUME FileAssumption == Missing \notin Index /\ Torn \notin Index

VARIABLES
  born,         (* the ids given out so far                                 *)
  live,         (* the ids of the blunders rows                             *)
  noted,        (* the ids ever committed with an annotation and embedding  *)
  wanted,       (* wanted[g]: annotate jobs of g that wait                  *)
  file,         (* the cache file                                           *)
  mixed,        (* workers whose save overlapped another                    *)
  at,           (* at[w]: where worker w is in run_annotate                 *)
  game,         (* game[w]: its game                                        *)
  ids,          (* ids[w]: the rows it read                                 *)
  idx,          (* idx[w]: the index it loaded                              *)
  new,          (* new[w]: new_ids, the rows it wrote                       *)
  seek,         (* seek[r]: where search r is                               *)
  found,        (* found[r]: the index, the allowed ids, hits and answer,   *)
                (* and for the record what it should know of                *)
  passes, failures, searches,
  overlap       (* history: two jobs were between load and save at once     *)

store == <<born, live, noted, wanted>>
disk == <<file, mixed>>
work == <<at, game, ids, idx, new>>
search == <<seek, found>>
vars == <<born, live, noted, wanted, file, mixed, at, game, ids, idx, new,
          seek, found, passes, failures, searches, overlap>>

Points == {"idle", "llm", "loaded", "save", "saving"}
Seeks == {"idle", "loaded", "filtered", "hit"}
Search0 == [idx |-> Empty, allowed |-> {}, hits |-> {}, answer |-> {}, known |-> {}]

Init ==
  /\ born = {} /\ live = {} /\ noted = {}
  /\ wanted = [g \in Game |-> 0]
  /\ file = Missing /\ mixed = {}
  /\ at = [w \in Worker |-> "idle"]
  /\ game = [w \in Worker |-> NoGame]
  /\ ids = [w \in Worker |-> {}]
  /\ idx = [w \in Worker |-> Empty]
  /\ new = [w \in Worker |-> {}]
  /\ seek = [r \in Reader |-> "idle"]
  /\ found = [r \in Reader |-> Search0]
  /\ passes = 0 /\ failures = 0 /\ searches = 0
  /\ overlap = FALSE

----------------------------------------------------------------------------

(* A deep pass over g deletes blunders, embeddings included by cascade,    *)
(* and inserts others with no annotation; with any, an annotate job.       *)
Deep(g) ==
  /\ passes < MaxPasses
  /\ passes' = passes + 1
  /\ \E gone \in SUBSET {i \in live : GameOf[i] = g},
        fresh \in SUBSET {i \in Id \ born : GameOf[i] = g} :
       /\ born' = born \cup fresh
       /\ live' = (live \ gone) \cup fresh
       /\ wanted' = [wanted EXCEPT ![g] = IF fresh = {} THEN @ ELSE @ + 1]
  /\ UNCHANGED <<noted, disk, work, search, failures, searches, overlap>>

Goto(w, from, to) ==
  /\ at[w] = from
  /\ at' = [at EXCEPT ![w] = to]

Leave(w) ==
  /\ at' = [at EXCEPT ![w] = "idle"]
  /\ game' = [game EXCEPT ![w] = NoGame]
  /\ ids' = [ids EXCEPT ![w] = {}]
  /\ idx' = [idx EXCEPT ![w] = Empty]
  /\ new' = [new EXCEPT ![w] = {}]

Bare(g) == {i \in live \ noted : GameOf[i] = g}

(* A job of g starts: the rows with no annotation, or nothing to do.       *)
Begin(w, g) ==
  /\ at[w] = "idle"
  /\ wanted[g] > 0
  /\ wanted' = [wanted EXCEPT ![g] = @ - 1]
  /\ IF Bare(g) = {}
     THEN UNCHANGED work
     ELSE /\ at' = [at EXCEPT ![w] = "llm"]
          /\ game' = [game EXCEPT ![w] = g]
          /\ ids' = [ids EXCEPT ![w] = Bare(g)]
          /\ UNCHANGED <<idx, new>>
  /\ UNCHANGED <<born, live, noted, disk, search, passes, failures, searches, overlap>>

(* The user's rows of the embeddings table, each once.                     *)
Rebuilt == [i \in Id |-> IF i \in live \cap noted THEN 1 ELSE 0]

(* Mutant: the file's content is not taken over.                           *)
LoadedEmpty == IF file = Missing THEN Rebuilt ELSE Empty

(* load_user_index, of a file that is not torn: if there is a file it is   *)
(* believed.                                                               *)
Loaded == IF file = Missing THEN Rebuilt ELSE file

(* Workers that have loaded the index and not finished saving it.          *)
Between == {w \in Worker : at[w] \in {"loaded", "save", "saving"}}

Noticed == overlap' = (overlap \/ Between # {})

Load(w) ==
  /\ Goto(w, "llm", "loaded")
  /\ file # Torn
  /\ idx' = [idx EXCEPT ![w] = Loaded]
  /\ Noticed
  /\ UNCHANGED <<store, disk, game, ids, new, search, passes, failures, searches>>

(* The job ends in an exception; the queue tries it again, or no more.     *)
Retried(g) == wanted' \in {wanted, [wanted EXCEPT ![g] = @ + 1]}

LoadFails(w) ==
  /\ at[w] = "llm"
  /\ file = Torn
  /\ Retried(game[w])
  /\ Leave(w)
  /\ Noticed
  /\ UNCHANGED <<born, live, noted, disk, search, passes, failures, searches>>

(* Mutants: the index is loaded after the commit; there is no commit; the  *)
(* index is saved even if the job wrote nothing.                           *)
CommitThenLoad(w) ==
  LET written == ids[w] \cap Bare(game[w])
      rebuilt == [i \in Id |-> IF i \in live \cap (noted \cup written) THEN 1 ELSE 0]
  IN
  /\ at[w] = "loaded"
  /\ file # Torn
  /\ noted' = noted \cup written
  /\ at' = [at EXCEPT ![w] = "save"]
  /\ new' = [new EXCEPT ![w] = written]
  /\ idx' = [idx EXCEPT ![w] = IF file = Missing THEN rebuilt ELSE file]
  /\ UNCHANGED <<born, live, wanted, disk, game, ids, search, passes, failures,
                 searches, overlap>>

CommitForgotten(w) ==
  /\ Goto(w, "loaded", "save")
  /\ new' = [new EXCEPT ![w] = ids[w] \cap Bare(game[w])]
  /\ UNCHANGED <<store, disk, game, ids, idx, search, passes, failures, searches, overlap>>

CommitAlwaysSaves(w) ==
  LET written == ids[w] \cap Bare(game[w]) IN
  /\ Goto(w, "loaded", "save")
  /\ noted' = noted \cup written
  /\ new' = [new EXCEPT ![w] = written]
  /\ UNCHANGED <<born, live, wanted, disk, game, ids, idx, search, passes, failures,
                 searches, overlap>>

(* Of the rows it read, those still there and still without annotation get *)
(* one, with an embedding; with none of them there is nothing to save.     *)
Commit(w) ==
  LET written == ids[w] \cap Bare(game[w]) IN
  /\ at[w] = "loaded"
  /\ noted' = noted \cup written
  /\ IF written = {}
     THEN Leave(w)
     ELSE /\ at' = [at EXCEPT ![w] = "save"]
          /\ new' = [new EXCEPT ![w] = written]
          /\ UNCHANGED <<game, ids, idx>>
  /\ UNCHANGED <<born, live, wanted, disk, search, passes, failures, searches, overlap>>

(* The index in memory after idx.add.                                      *)
Extended(w) == [i \in Id |-> idx[w][i] + (IF i \in new[w] THEN 1 ELSE 0)]

Saving == {w \in Worker : at[w] = "saving"}

(* idx.save: the file is opened for writing, which empties it.             *)
SaveBegin(w) ==
  /\ Goto(w, "save", "saving")
  /\ file' = Torn
  /\ mixed' = IF Saving = {} THEN mixed ELSE mixed \cup Saving \cup {w}
  /\ UNCHANGED <<store, game, ids, idx, new, search, passes, failures, searches, overlap>>

(* Two that write at once may leave what either wrote or nothing that      *)
(* loads.                                                                  *)
SaveEnd(w) ==
  /\ at[w] = "saving"
  /\ file' \in {Extended(w)} \cup (IF w \in mixed THEN {file, Torn} ELSE {})
  /\ mixed' = mixed \ {w}
  /\ Leave(w)
  /\ UNCHANGED <<store, search, passes, failures, searches, overlap>>

(* The LLM, the embedder, the database or the disk raises, or the worker   *)
(* is killed (then the job is not tried again).                            *)
Fail(w) ==
  /\ at[w] # "idle"
  /\ failures < MaxFailures
  /\ failures' = failures + 1
  /\ Retried(game[w])
  /\ mixed' = mixed \ {w}
  /\ Leave(w)
  /\ UNCHANGED <<born, live, noted, file, search, passes, searches, overlap>>

----------------------------------------------------------------------------
(* find_similar_blunders: load, SQL filter, search, SQL details.  Nothing  *)
(* to find, or a file that does not load, ends it.                         *)

(* Annotated rows no worker is still about to save (history, for known).   *)
Settled == (live \cap noted) \ UNION {new[w] : w \in Worker}

SeekLoad(r) ==
  /\ seek[r] = "idle"
  /\ searches < MaxSearches
  /\ searches' = searches + 1
  /\ file # Torn
  /\ Indexed(Loaded) # {}
  /\ seek' = [seek EXCEPT ![r] = "loaded"]
  /\ found' = [found EXCEPT ![r] = [Search0 EXCEPT !.idx = Loaded, !.known = Settled]]
  /\ UNCHANGED <<store, disk, work, passes, failures, overlap>>

(* The user's rows, or those of a phase, an archetype or a severity.       *)
SeekFilter(r) ==
  /\ seek[r] = "loaded"
  /\ seek' = [seek EXCEPT ![r] = "filtered"]
  /\ \E rows \in SUBSET live : found' = [found EXCEPT ![r].allowed = rows]
  /\ UNCHANGED <<store, disk, work, passes, failures, searches, overlap>>

Nearest(S) ==
  {T \in SUBSET S : Cardinality(T) = IF Cardinality(S) < K THEN Cardinality(S) ELSE K}

(* Mutant: the nearest K of all, and then the filter.                      *)
HitsCutFirst(r) == {T \cap found[r].allowed : T \in Nearest(Indexed(found[r].idx))}

(* The nearest K of the allowed ids, whichever they are.                   *)
Hits(r) == Nearest(Indexed(found[r].idx) \cap found[r].allowed)

SeekHits(r) ==
  /\ seek[r] = "filtered"
  /\ seek' = [seek EXCEPT ![r] = "hit"]
  /\ \E T \in Hits(r) : found' = [found EXCEPT ![r].hits = T]
  /\ UNCHANGED <<store, disk, work, passes, failures, searches, overlap>>

SeekDetails(r) ==
  /\ seek[r] = "hit"
  /\ seek' = [seek EXCEPT ![r] = "idle"]
  /\ found' = [found EXCEPT ![r] = [Search0 EXCEPT !.answer = found[r].hits \cap live]]
  /\ UNCHANGED <<store, disk, work, passes, failures, searches, overlap>>

----------------------------------------------------------------------------

Annotate(w) ==
  \/ \E g \in Game : Begin(w, g)
  \/ Load(w) \/ LoadFails(w)
  \/ Commit(w)
  \/ SaveBegin(w) \/ SaveEnd(w)

Seek(r) == SeekLoad(r) \/ SeekFilter(r) \/ SeekHits(r) \/ SeekDetails(r)

Next ==
  \/ \E g \in Game : Deep(g)
  \/ \E w \in Worker : Annotate(w) \/ Fail(w)
  \/ \E r \in Reader : Seek(r)

Spec == Init /\ [][Next]_vars

----------------------------------------------------------------------------
(* Invariants.                                                             *)

(* Types.  The file is only ever opened for writing by a job that has      *)
(* something to add: one that found its rows annotated leaves it alone.    *)
StateOK ==
  /\ live \subseteq born /\ noted \subseteq born /\ born \subseteq Id
  /\ wanted \in [Game -> Nat]
  /\ \A w \in Worker : at[w] \in {"save", "saving"} => new[w] # {}
  /\ file \in Index \cup {Missing, Torn}
  /\ mixed \subseteq Saving
  /\ at \in [Worker -> Points]
  /\ game \in [Worker -> Game \cup {NoGame}]
  /\ ids \in [Worker -> SUBSET born]
  /\ idx \in [Worker -> Index]
  /\ new \in [Worker -> SUBSET born]
  /\ seek \in [Reader -> Seeks]
  /\ found \in [Reader -> [idx : Index, allowed : SUBSET born, hits : SUBSET born,
                           answer : SUBSET born, known : SUBSET born]]

CountersOK ==
  /\ passes \in 0..MaxPasses /\ failures \in 0..MaxFailures /\ searches \in 0..MaxSearches
  /\ overlap \in BOOLEAN

TypeOK == StateOK /\ CountersOK

Once(x) == \A i \in Id : x[i] <= 1

(* No blunder has two vectors in the file, however annotate jobs of the    *)
(* user overlap, fail and are tried again, and whether the file was loaded *)
(* or rebuilt from the table ("double-counting the batch in the index").   *)
NoDoubleVectors == file \in Index => Once(file)

(* The file and the searches never run ahead of the database: what a       *)
(* search answers has its annotation committed.                            *)
AnswersAreAnnotated ==
  /\ file \in Index => Indexed(file) \subseteq noted
  /\ \A r \in Reader : found[r].answer \subseteq noted

(* A worker that committed and has not saved yet has blunder i in hand.    *)
InHand(i) ==
  \E w \in Worker : at[w] \in {"save", "saving"} /\ (i \in new[w] \/ idx[w][i] > 0)

(* "Every blunder now gets a grounded, motif-tagged annotation and is      *)
(* retrievable by similarity"; "a missing or stale file is recovered       *)
(* without re-embedding": an annotated blunder is in the file, or there is *)
(* none and it will be rebuilt, or somebody is about to save it.           *)
Retrievable ==
  \A i \in live \cap noted :
    file = Missing \/ (file \in Index /\ i \in Indexed(file)) \/ InHand(i)

(* So it is as long as no annotate job failed and no two jobs of the user  *)
(* were between load and save at the same time.                            *)
RetrievableUnlessDisturbed == failures = 0 /\ ~overlap => Retrievable

(* Under the same conditions a search misses nothing: unless it has K hits *)
(* it has every annotated blunder that was settled when it began, although *)
(* the file still holds deleted ones.                                      *)
SearchMissesNothing ==
  failures = 0 /\ ~overlap =>
    \A r \in Reader : seek[r] = "hit" =>
      Cardinality(found[r].hits) = K
        \/ found[r].known \cap found[r].allowed \subseteq found[r].hits

=============================================================================
