----------------------------- MODULE Annotation -----------------------------
(* From a model's replies to annotations (annotation.py): a batch of        *)
(* blunders, one call, a strict parse of the reply, and a retry.  The model *)
(* is external: it may raise, or say anything.  A reply is [kind, items]:   *)
(* "raises", "prose" (not JSON), "value" (JSON, no array) or "array"; an    *)
(* item is [description, motif_tags, counterfactual], where a text is       *)
(* "text", "blank" or "none" (also when the item is no object) and the tags *)
(* are a set: NotATag stands in it for what is no string, or no list.       *)
EXTENDS Naturals, SequencesExt

CONSTANTS
  AllTags,     \* vocab.ALL_TAGS
  NotATag

(* Mutant: a tag that is not in the vocabulary passes.                      *)
ValidWithAnyTag(item) ==
  /\ item.description = "text" /\ item.counterfactual = "text"
  /\ NotATag \notin item.motif_tags

Valid(item) ==
  /\ item.description = "text" /\ item.counterfactual = "text"
  /\ item.motif_tags \subseteq AllTags

Parses(reply, expected) ==
  /\ reply.kind = "array"
  /\ Len(reply.items) = expected
  /\ \A i \in DOMAIN reply.items : Valid(reply.items[i])

(* annotate_batch: the first of retries + 1 calls that parses, unless one   *)
(* before it raises; <<>> is AnnotationError or the provider's exception.   *)
AnnotateBatch(size, replies, retries) ==
  LET final == {k \in 1 .. retries + 1 :
                  replies[k].kind = "raises" \/ Parses(replies[k], size)}
  IN IF final = {} \/ replies[Min(final)].kind = "raises" THEN <<>>
     ELSE replies[Min(final)].items

Chunk(items, size) ==
  [i \in 1 .. (Len(items) + size - 1) \div size |->
    SubSeq(items, (i - 1) * size + 1,
           IF i * size <= Len(items) THEN i * size ELSE Len(items))]

(* run_annotate, the c-th chunk with replies[c]: a blunder and what is to   *)
(* be written for it, or nothing at all when a chunk fails.                 *)
Annotated(blunders, size, replies, retries) ==
  LET chunks == Chunk(blunders, size)
      out == [c \in DOMAIN chunks |-> AnnotateBatch(Len(chunks[c]), replies[c], retries)]
  IN IF \E c \in DOMAIN chunks : out[c] = <<>> THEN <<>>
     ELSE FlattenSeq([c \in DOMAIN chunks |-> Zip(chunks[c], out[c])])

-----------------------------------------------------------------------------

(* Whatever the model replies, a game's blunders are annotated all and in   *)
(* order or not at all; every annotation is the item at the blunder's place *)
(* in a reply to its chunk, has both texts, and tags of the vocabulary      *)
(* only.  Nothing is annotated only if there is nothing to annotate, the    *)
(* model raised, or retries + 1 replies to one chunk did not parse.         *)
AnnotationsAligned(blunders, size, replies, retries) ==
  LET out == Annotated(blunders, size, replies, retries)
      chunks == Chunk(blunders, size)
  IN
  /\ out # <<>> => [i \in DOMAIN out |-> out[i][1]] = blunders
  /\ \A i \in DOMAIN out :
       /\ out[i][2].description = "text" /\ out[i][2].counterfactual = "text"
       /\ out[i][2].motif_tags \subseteq AllTags
       /\ \E k \in 1 .. retries + 1 :
            LET items == replies[(i - 1) \div size + 1][k].items
                place == ((i - 1) % size) + 1
            IN place <= Len(items) /\ out[i][2] = items[place]
  /\ out = <<>> =>
       \/ blunders = <<>>
       \/ \E c \in DOMAIN chunks :
            \/ \E k \in 1 .. retries + 1 : replies[c][k].kind = "raises"
            \/ \A k \in 1 .. retries + 1 : ~Parses(replies[c][k], Len(chunks[c]))

=============================================================================
