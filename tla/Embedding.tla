----------------------------- MODULE Embedding -----------------------------
(***************************************************************************)
(* The embedding service and its cache in Redis (EmbeddingService).        *)
(*                                                                         *)
(* A batch reads the cache, computes what it misses, and leaves the        *)
(* writing of the cache to background tasks.  The batches of all processes *)
(* share the cache; processes of two versions may use two models.  The     *)
(* vector of a text is the pair of the model and the text.                 *)
(***************************************************************************)
EXTENDS Naturals, Sequences, SequencesExt

CONSTANTS
    Text,
    Model,         \* settings.rag.embedding_model, of each process
    Batch,         \* calls of embed_batch that may overlap
    MaxTexts       \* bound on the texts of a batch

VARIABLES
    cache,         \* what Redis holds under emb:<key>
    batch,
    writes         \* background tasks: key and vector

emvars == <<cache, batch, writes>>

ASSUME EmbeddingAssumption == MaxTexts \in Nat /\ Model # {}

Vector == Model \X Text
Nothing == <<>>

(* _cache_key: a hash of the model and the text.                           *)
Key == Model \X Text
CacheKey(text, model) == <<model, text>>

BatchState == [pc : {"idle", "get", "compute", "done"},
               model : Model, texts : SeqOf(Text, MaxTexts),
               results : SeqOf(Vector \cup {Nothing}, MaxTexts)]
IdleBatch == [pc |-> "idle", model |-> CHOOSE m \in Model : TRUE,
              texts |-> <<>>, results |-> <<>>]

EmbeddingInit ==
    /\ cache = [k \in Key |-> Nothing]
    /\ batch = [b \in Batch |-> IdleBatch]
    /\ writes = {}

-----------------------------------------------------------------------------
EmbedBatch(b, model, texts) ==
    /\ batch[b].pc = "idle"
    /\ texts # <<>>
    /\ batch' = [batch EXCEPT ![b] =
          [pc |-> "get", model |-> model, texts |-> texts,
           results |-> [i \in 1 .. Len(texts) |-> Nothing]]]
    /\ UNCHANGED <<cache, writes>>

(* _batch_cache_get: one MGET.                                             *)
BatchCacheGet(b) ==
    /\ batch[b].pc = "get"
    /\ batch' = [batch EXCEPT
          ![b].pc = "compute",
          ![b].results = [i \in 1 .. Len(batch[b].texts) |->
                cache[CacheKey(batch[b].texts[i], batch[b].model)]]]
    /\ UNCHANGED <<cache, writes>>

(* A Redis error is a miss of every text.                                  *)
BatchCacheGetFails(b) ==
    /\ batch[b].pc = "get"
    /\ batch' = [batch EXCEPT ![b].pc = "compute"]
    /\ UNCHANGED <<cache, writes>>

(* The indices of the texts that the cache does not hold.                  *)
Uncached(b) ==
    SetToSortSeq({i \in 1 .. Len(batch[b].texts) :
                     batch[b].results[i] = Nothing}, <)

(* Mutant: the n-th vector computed is written for the n-th text.          *)
WritesShifted(b) ==
    {<<CacheKey(batch[b].texts[n], batch[b].model),
       <<batch[b].model, batch[b].texts[Uncached(b)[n]]>> >> :
        n \in 1 .. Len(Uncached(b))}
Writes(b) ==
    {<<CacheKey(batch[b].texts[Uncached(b)[n]], batch[b].model),
       <<batch[b].model, batch[b].texts[Uncached(b)[n]]>> >> :
        n \in 1 .. Len(Uncached(b))}

(* The model computes in a thread, in batches that keep the order.         *)
ComputeEmbeddings(b) ==
    /\ batch[b].pc = "compute"
    /\ batch' = [batch EXCEPT
          ![b].pc = "done",
          ![b].results = [i \in 1 .. Len(batch[b].texts) |->
                IF @[i] = Nothing THEN <<batch[b].model, batch[b].texts[i]>>
                ELSE @[i]]]
    /\ writes' = writes \cup Writes(b)
    /\ UNCHANGED cache

(* What computing raises goes to the caller.                               *)
ComputeFails(b) ==
    /\ batch[b].pc = "compute"
    /\ batch' = [batch EXCEPT ![b] = IdleBatch]
    /\ UNCHANGED <<cache, writes>>

BatchReturns(b) ==
    /\ batch[b].pc = "done"
    /\ batch' = [batch EXCEPT ![b] = IdleBatch]
    /\ UNCHANGED <<cache, writes>>

CacheWrite(w) ==
    /\ w \in writes
    /\ cache' = [cache EXCEPT ![w[1]] = w[2]]
    /\ writes' = writes \ {w}
    /\ UNCHANGED batch

(* A Redis error, or the end of the process that runs the task.            *)
CacheWriteLost(w) ==
    /\ w \in writes
    /\ writes' = writes \ {w}
    /\ UNCHANGED <<cache, batch>>

(* SETEX gave the key a time to live.                                      *)
CacheForgets(k) ==
    /\ cache[k] # Nothing
    /\ cache' = [cache EXCEPT ![k] = Nothing]
    /\ UNCHANGED <<batch, writes>>

EmbeddingNext ==
    \/ \E b \in Batch :
        \/ \E model \in Model, texts \in SeqOf(Text, MaxTexts) :
               EmbedBatch(b, model, texts)
        \/ BatchCacheGet(b)
        \/ BatchCacheGetFails(b)
        \/ ComputeEmbeddings(b)
        \/ ComputeFails(b)
        \/ BatchReturns(b)
    \/ \E w \in writes : CacheWrite(w) \/ CacheWriteLost(w)
    \/ \E k \in Key : CacheForgets(k)

EmbeddingSpec == EmbeddingInit /\ [][EmbeddingNext]_emvars

-----------------------------------------------------------------------------
(* "Returns list of embedding vectors in same order as input.": whatever   *)
(* mix of hits, misses, repeated texts, expiries and late writes of other  *)
(* batches and other models there was, the n-th vector is the one of the   *)
(* n-th text under the model of the caller (embed_batch); upsert_chunks    *)
(* zips them with the chunks.                                              *)
VectorsMatch ==
    \A b \in Batch :
        batch[b].pc = "done" =>
            batch[b].results =
                [i \in 1 .. Len(batch[b].texts) |->
                    <<batch[b].model, batch[b].texts[i]>>]

=============================================================================
