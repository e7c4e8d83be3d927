----------------------------- MODULE TextProofs -----------------------------
(***************************************************************************)
(* Proofs about Reading, for any pages and any number of attempts, about   *)
(* Embedding, for any texts, models and overlapping batches, and about     *)
(* Retrieval, for any chunks and any lengths.                              *)
(***************************************************************************)
EXTENDS Reading, Embedding, Retrieval, FiniteSetTheorems, FunctionTheorems,
        SequenceTheorems, TLAPS

-----------------------------------------------------------------------------
ReadingShape ==
    rd = [pc |-> rd.pc, type |-> rd.type, extension |-> rd.extension,
          content |-> rd.content, pages |-> rd.pages,
          attempt |-> rd.attempt, read |-> rd.read]

(* After the OCR the content is one that could be opened, after the        *)
(* extraction the type is one that has an extractor.                       *)
DInv ==
    /\ ReadingShape
    /\ rd.type \in DocumentType
    /\ rd.pc \in {"clean", "extract", "chunk", "verified"} =>
           rd.content \in {"pdf", "image"}
    /\ rd.pc \in {"chunk", "verified"} => Extracts(rd.type)

LEMMA ExtractedTypes ==
  ASSUME NEW type \in DocumentType, Extracts(type)
  PROVE  type \in {"aadhaar", "pan_card", "salary_slip", "bank_statement",
                    "form_16"}
  BY DEF Extracts, SupportedType, Extractors, DocumentType

LEMMA IdleReadingInv ==
  /\ rd = IdleReading => DInv
  /\ rd' = IdleReading => DInv'
  BY DEF IdleReading, DInv, ReadingShape, DocumentType

LEMMA ReadingStep ==
  ASSUME DInv, [ReadingNext]_rd
  PROVE  DInv'
<1>1. CASE UNCHANGED rd
  BY <1>1 DEF DInv, ReadingShape
<1>2. ASSUME NEW type \in DocumentType, NEW extension, NEW content, NEW pages,
             Read(type, extension, content, pages)
      PROVE  DInv'
  BY <1>2 DEF Read, IdleReading, DInv, ReadingShape
<1>3. CASE OcrExtract
  <2>1. rd.content \in {"pdf", "image"}
    BY <1>3 DEF OcrExtract, Opens
  <2>2. PICK read : rd' = [rd EXCEPT !.pc = "clean", !.read = read]
    BY <1>3 DEF OcrExtract
  <2> QED
    BY <2>1, <2>2 DEF DInv, ReadingShape
<1>4. CASE OcrRaises
  BY <1>4 DEF OcrRaises, DInv, ReadingShape
<1>5. CASE \/ \E malicious \in BOOLEAN : ValidateBytes(malicious)
           \/ CleanText \/ ExtractMetadata \/ ChunkStage
  BY <1>5 DEF ValidateBytes, CleanText, ExtractMetadata, ChunkStage, DInv,
              ReadingShape
<1>6. CASE ReadingEnds
  BY <1>6, IdleReadingInv DEF ReadingEnds
<1> QED
  BY <1>1, <1>2, <1>3, <1>4, <1>5, <1>6 DEF ReadingNext

(* Only five of the 23 types are ever verified, and only from a PDF or an  *)
(* image.                                                                  *)
THEOREM OnlyReadable == ReadingSpec => []OnlyReadableVerified
<1>1. DInv => OnlyReadableVerified
  BY ExtractedTypes DEF DInv, OnlyReadableVerified
<1>2. ReadingInit => DInv
  BY IdleReadingInv DEF ReadingInit
<1> QED
  BY <1>1, <1>2, ReadingStep, PTL DEF ReadingSpec

-----------------------------------------------------------------------------
(* A key of the cache is the vector it stands for: what the cache or a     *)
(* write holds for a key can only be that vector, so a batch that takes    *)
(* what it finds takes what it would have computed.                        *)
CacheTrue ==
    /\ cache \in [Key -> Key \cup {Nothing}]
    /\ \A k \in Key : cache[k] \in {Nothing, k}
    /\ \A w \in writes : w[1] = w[2]

BatchShape == [pc : {"idle", "get", "compute", "done"}, model : Model,
               texts : Seq(Text), results : Seq(Vector \cup {Nothing})]

VectorOf(b, i) == <<batch[b].model, batch[b].texts[i]>>

BatchesTrue ==
    /\ batch \in [Batch -> BatchShape]
    /\ \A b \in Batch :
          /\ Len(batch[b].results) = Len(batch[b].texts)
          /\ \A i \in 1 .. Len(batch[b].texts) :
                batch[b].results[i] \in {Nothing, VectorOf(b, i)}
          /\ batch[b].pc = "done" =>
                \A i \in 1 .. Len(batch[b].texts) :
                    batch[b].results[i] = VectorOf(b, i)

EInv == CacheTrue /\ BatchesTrue

LEMMA SeqOfInSeq ==
  ASSUME NEW S, NEW n \in Nat, NEW s \in SeqOf(S, n)
  PROVE  s \in Seq(S)
<1>1. PICK m \in 0 .. n : s \in [1 .. m -> S]
  BY DEF SeqOf
<1> QED
  BY <1>1

LEMMA FunctionIsSeq ==
  ASSUME NEW S, NEW n \in Nat, NEW f \in [1 .. n -> S]
  PROVE  f \in Seq(S) /\ Len(f) = n
  OBVIOUS

LEMMA IdleBatchShape ==
  /\ IdleBatch \in BatchShape
  /\ IdleBatch.pc = "idle" /\ IdleBatch.texts = <<>> /\ IdleBatch.results = <<>>
<1>1. (CHOOSE m \in Model : TRUE) \in Model
  BY EmbeddingAssumption
<1> QED
  BY <1>1 DEF IdleBatch, BatchShape

LEMMA EmbeddingInitInv == EmbeddingInit => EInv
<1> SUFFICES ASSUME EmbeddingInit PROVE EInv
  OBVIOUS
<1>1. CacheTrue
  BY DEF EmbeddingInit, CacheTrue
<1>2. BatchesTrue
  BY IdleBatchShape DEF EmbeddingInit, BatchesTrue
<1> QED
  BY <1>1, <1>2 DEF EInv

(* One batch moves on, and the cache stays.                                *)
LEMMA BatchStep ==
  ASSUME EInv, NEW b \in Batch, NEW next \in BatchShape,
         batch' = [batch EXCEPT ![b] = next],
         Len(next.results) = Len(next.texts),
         \A i \in 1 .. Len(next.texts) :
             /\ next.results[i] \in {Nothing, <<next.model, next.texts[i]>>}
             /\ next.pc = "done" =>
                    next.results[i] = <<next.model, next.texts[i]>>
  PROVE  BatchesTrue'
<1>1. /\ batch' \in [Batch -> BatchShape] /\ batch'[b] = next
      /\ \A a \in Batch : a # b => batch'[a] = batch[a]
  BY DEF EInv, BatchesTrue
<1> QED
  BY <1>1 DEF EInv, BatchesTrue, VectorOf

LEMMA BatchIdles ==
  ASSUME EInv, NEW b \in Batch, batch' = [batch EXCEPT ![b] = IdleBatch]
  PROVE  BatchesTrue'
<1>1. /\ Len(IdleBatch.results) = Len(IdleBatch.texts)
      /\ \A i \in 1 .. Len(IdleBatch.texts) : FALSE
  BY IdleBatchShape
<1> QED
  BY <1>1, IdleBatchShape, BatchStep

LEMMA EmbeddingStep ==
  ASSUME EInv, [EmbeddingNext]_emvars
  PROVE  EInv'
<1>1. CASE UNCHANGED emvars
  BY <1>1 DEF emvars, EInv, CacheTrue, BatchesTrue, VectorOf
<1>2. ASSUME NEW b \in Batch, NEW model \in Model,
             NEW texts \in SeqOf(Text, MaxTexts), EmbedBatch(b, model, texts)
      PROVE  EInv'
  <2> DEFINE results == [i \in 1 .. Len(texts) |-> Nothing]
             next == [pc |-> "get", model |-> model, texts |-> texts,
                      results |-> results]
  <2>1. texts \in Seq(Text)
    BY SeqOfInSeq, EmbeddingAssumption
  <2>2. /\ results \in Seq(Vector \cup {Nothing})
        /\ Len(results) = Len(texts)
        /\ \A i \in 1 .. Len(texts) : results[i] = Nothing
    BY <2>1
  <2>3. batch' = [batch EXCEPT ![b] = next]
    BY <1>2 DEF EmbedBatch
  <2> HIDE DEF results
  <2>4. /\ next \in BatchShape /\ next.results = results
        /\ next.texts = texts /\ next.pc = "get"
    BY <2>1, <2>2 DEF BatchShape
  <2> HIDE DEF next
  <2>5. BatchesTrue'
    BY <2>2, <2>3, <2>4, BatchStep
  <2> QED
    BY <1>2, <2>5 DEF EmbedBatch, EInv, CacheTrue
<1>3. ASSUME NEW b \in Batch, BatchCacheGet(b)
      PROVE  EInv'
  <2> DEFINE results == [i \in 1 .. Len(batch[b].texts) |->
                            cache[CacheKey(batch[b].texts[i], batch[b].model)]]
             next == [batch[b] EXCEPT !.pc = "compute", !.results = results]
  <2>1. batch[b] \in BatchShape
    BY DEF EInv, BatchesTrue
  <2>2. \A i \in 1 .. Len(batch[b].texts) :
            /\ VectorOf(b, i) \in Key
            /\ CacheKey(batch[b].texts[i], batch[b].model) = VectorOf(b, i)
    BY <2>1 DEF BatchShape, VectorOf, Key, CacheKey
  <2>3. \A i \in 1 .. Len(batch[b].texts) :
            results[i] \in {Nothing, VectorOf(b, i)}
    BY <2>2 DEF EInv, CacheTrue
  <2>4. /\ results \in Seq(Vector \cup {Nothing})
        /\ Len(results) = Len(batch[b].texts)
    <3>1. \A i \in 1 .. Len(batch[b].texts) :
              results[i] \in Vector \cup {Nothing}
      BY <2>2, <2>3 DEF Vector, Key
    <3>2. Len(batch[b].texts) \in Nat
      BY <2>1 DEF BatchShape
    <3>3. results \in [1 .. Len(batch[b].texts) -> Vector \cup {Nothing}]
      BY <3>1
    <3> QED
      BY <3>2, <3>3, FunctionIsSeq
  <2>5. batch' = [batch EXCEPT ![b] = next]
        /\ UNCHANGED <<cache, writes>>
    BY <1>3 DEF BatchCacheGet
  <2> HIDE DEF results
  <2>6. /\ next \in BatchShape /\ next.results = results
        /\ next.texts = batch[b].texts /\ next.model = batch[b].model
        /\ next.pc = "compute"
    BY <2>1, <2>4 DEF BatchShape
  <2> HIDE DEF next
  <2>7. BatchesTrue'
    BY <2>3, <2>4, <2>5, <2>6, BatchStep DEF VectorOf
  <2> QED
    BY <2>5, <2>7 DEF EInv, CacheTrue
<1>4. ASSUME NEW b \in Batch, BatchCacheGetFails(b)
      PROVE  EInv'
  <2> DEFINE next == [batch[b] EXCEPT !.pc = "compute"]
  <2>1. batch[b] \in BatchShape
    BY DEF EInv, BatchesTrue
  <2>2. batch' = [batch EXCEPT ![b] = next]
        /\ UNCHANGED <<cache, writes>>
    BY <1>4 DEF BatchCacheGetFails
  <2>3. /\ next \in BatchShape /\ next.results = batch[b].results
        /\ next.texts = batch[b].texts /\ next.model = batch[b].model
        /\ next.pc = "compute"
    BY <2>1 DEF BatchShape
  <2> HIDE DEF next
  <2>4. BatchesTrue'
    BY <2>2, <2>3, BatchStep DEF EInv, BatchesTrue, VectorOf
  <2> QED
    BY <2>2, <2>4 DEF EInv, CacheTrue
<1>5. ASSUME NEW b \in Batch, ComputeEmbeddings(b)
      PROVE  EInv'
  <2> DEFINE results == [i \in 1 .. Len(batch[b].texts) |->
                            IF batch[b].results[i] = Nothing
                            THEN VectorOf(b, i) ELSE batch[b].results[i]]
             next == [batch[b] EXCEPT !.pc = "done", !.results = results]
  <2>1. batch[b] \in BatchShape
    BY DEF EInv, BatchesTrue
  <2>2. \A i \in 1 .. Len(batch[b].texts) : results[i] = VectorOf(b, i)
    BY DEF EInv, BatchesTrue
  <2>3. \A i \in 1 .. Len(batch[b].texts) : VectorOf(b, i) \in Vector
    BY <2>1 DEF BatchShape, VectorOf, Vector
  <2>4. /\ results \in Seq(Vector \cup {Nothing})
        /\ Len(results) = Len(batch[b].texts)
    <3>1. Len(batch[b].texts) \in Nat
      BY <2>1 DEF BatchShape
    <3>2. results \in [1 .. Len(batch[b].texts) -> Vector \cup {Nothing}]
      BY <2>2, <2>3
    <3> QED
      BY <3>1, <3>2, FunctionIsSeq
  <2>5. batch' = [batch EXCEPT ![b] = next]
    BY <1>5, <2>1 DEF ComputeEmbeddings, BatchShape, EInv, BatchesTrue, VectorOf
  <2> HIDE DEF results
  <2>6. /\ next \in BatchShape /\ next.results = results
        /\ next.texts = batch[b].texts /\ next.model = batch[b].model
    BY <2>1, <2>4 DEF BatchShape
  <2> HIDE DEF next
  <2>7. BatchesTrue'
    BY <2>2, <2>4, <2>5, <2>6, BatchStep DEF VectorOf
  <2>8. \A w \in Writes(b) : w[1] = w[2]
    BY DEF Writes, CacheKey
  <2>9. CacheTrue'
    BY <1>5, <2>8 DEF ComputeEmbeddings, EInv, CacheTrue
  <2> QED
    BY <2>7, <2>9 DEF EInv
<1>6. ASSUME NEW b \in Batch, ComputeFails(b) \/ BatchReturns(b)
      PROVE  EInv'
  BY <1>6, BatchIdles DEF ComputeFails, BatchReturns, EInv, CacheTrue
<1>7. ASSUME NEW w \in writes, CacheWrite(w) \/ CacheWriteLost(w)
      PROVE  EInv'
  BY <1>7 DEF CacheWrite, CacheWriteLost, EInv, CacheTrue, BatchesTrue, VectorOf
<1>8. ASSUME NEW k \in Key, CacheForgets(k)
      PROVE  EInv'
  BY <1>8 DEF CacheForgets, EInv, CacheTrue, BatchesTrue, VectorOf
<1> QED
  BY <1>1, <1>2, <1>3, <1>4, <1>5, <1>6, <1>7, <1>8 DEF EmbeddingNext

(* Whatever mix of hits, misses, expiries and late writes there was, a     *)
(* batch returns the vectors of its texts, in their order.                 *)
THEOREM VectorsInOrder == EmbeddingSpec => []VectorsMatch
<1>1. EInv => VectorsMatch
  <2> SUFFICES ASSUME EInv, NEW b \in Batch, batch[b].pc = "done"
               PROVE  batch[b].results =
                          [i \in 1 .. Len(batch[b].texts) |-> VectorOf(b, i)]
    BY DEF VectorsMatch, VectorOf
  <2>1. /\ batch[b].results \in Seq(Vector \cup {Nothing})
        /\ Len(batch[b].results) = Len(batch[b].texts)
        /\ \A i \in 1 .. Len(batch[b].texts) :
               batch[b].results[i] = VectorOf(b, i)
    BY DEF EInv, BatchesTrue, BatchShape
  <2> QED
    BY <2>1
<1> QED
  BY <1>1, EmbeddingInitInv, EmbeddingStep, PTL DEF EmbeddingSpec

-----------------------------------------------------------------------------
(* A retrieval is a record with the fields of the idle one.                *)
Shape ==
    rt = [pc |-> rt.pc, of |-> rt.of, filter |-> rt.filter,
          match |-> rt.match, kbs |-> rt.kbs, top |-> rt.top,
          alpha |-> rt.alpha, rerank |-> rt.rerank,
          semantic |-> rt.semantic, bm25 |-> rt.bm25, fused |-> rt.fused,
          results |-> rt.results, lost |-> rt.lost, label |-> rt.label,
          next |-> rt.next, total |-> rt.total, parts |-> rt.parts,
          length |-> rt.length]

(* The running total is ahead of the length of the text by the separator   *)
(* that the next part will need, until the part that ends it.              *)
Laid ==
    /\ rt.total \in Nat /\ rt.length \in Nat /\ rt.parts \in Nat
    /\ rt.parts = 0 => rt.total = 0 /\ rt.length = 0
    /\ rt.parts > 0 /\ rt.pc # "done" => rt.total = rt.length + 2

RInv == Shape /\ Laid /\ ContextFits

LEMMA IdleInv ==
  ASSUME rt' = IdleRetrieval
  PROVE  RInv'
<1>1. Shape'
  BY DEF IdleRetrieval, Shape
<1>2. rt'.total = 0 /\ rt'.length = 0 /\ rt'.parts = 0
  BY DEF IdleRetrieval
<1>3. Laid' /\ ContextFits'
  BY <1>2, RetrievalAssumption DEF Laid, ContextFits
<1> QED
  BY <1>1, <1>3 DEF RInv

LEMMA RetrievalInitInv == RetrievalInit => RInv
<1> SUFFICES ASSUME RetrievalInit PROVE RInv
  OBVIOUS
<1>1. rt = IdleRetrieval
  BY DEF RetrievalInit
<1>2. Shape
  BY <1>1 DEF IdleRetrieval, Shape
<1>3. rt.total = 0 /\ rt.length = 0 /\ rt.parts = 0
  BY <1>1 DEF IdleRetrieval
<1>4. Laid /\ ContextFits
  BY <1>3, RetrievalAssumption DEF Laid, ContextFits
<1> QED
  BY <1>2, <1>4 DEF RInv

(* A step that lays out no text keeps what is laid out.                    *)
LEMMA KeepsText ==
  ASSUME RInv, Shape', rt.pc # "done",
         rt'.total = rt.total, rt'.parts = rt.parts, rt'.length = rt.length
  PROVE  RInv'
  BY DEF RInv, Laid, ContextFits

LEMMA RequestStep ==
  ASSUME RInv, NEW of, NEW filter, NEW match, NEW kbs, NEW top, NEW alpha,
         NEW rerank, Request(of, filter, match, kbs, top, alpha, rerank)
  PROVE  RInv'
<1>1. rt' = [IdleRetrieval EXCEPT
          !.pc = "semantic", !.of = of, !.filter = filter, !.match = match,
          !.kbs = kbs, !.top = top, !.alpha = alpha, !.rerank = rerank]
  BY DEF Request
<1>2. Shape' /\ rt'.total = 0 /\ rt'.parts = 0 /\ rt'.length = 0
  BY <1>1 DEF IdleRetrieval, Shape
<1> QED
  BY <1>2, RetrievalAssumption DEF RInv, Laid, ContextFits

(* The last cut forgets what was searched, and no text is laid out yet.    *)
LEMMA CutStep ==
  ASSUME RInv, Cut
  PROVE  RInv'
<1>1. PICK results, lost :
          /\ rt.pc = "cut"
          /\ \/ rt' = [rt EXCEPT !.pc = "semantic", !.kbs = Tail(@),
                                 !.semantic = <<>>, !.bm25 = <<>>,
                                 !.fused = <<>>, !.results = results,
                                 !.lost = lost]
             \/ rt' = [IdleRetrieval EXCEPT !.pc = "merge", !.top = rt.top,
                                 !.rerank = rt.rerank, !.results = results,
                                 !.lost = lost]
  BY DEF Cut
<1>2. CASE rt' = [IdleRetrieval EXCEPT !.pc = "merge", !.top = rt.top,
                                 !.rerank = rt.rerank, !.results = results,
                                 !.lost = lost]
  <2>1. Shape' /\ rt'.total = 0 /\ rt'.parts = 0 /\ rt'.length = 0
    BY <1>2 DEF IdleRetrieval, Shape
  <2> QED
    BY <2>1, RetrievalAssumption DEF RInv, Laid, ContextFits
<1>3. CASE rt' = [rt EXCEPT !.pc = "semantic", !.kbs = Tail(@),
                            !.semantic = <<>>, !.bm25 = <<>>,
                            !.fused = <<>>, !.results = results,
                            !.lost = lost]
  <2>1. /\ Shape'
        /\ rt'.total = rt.total /\ rt'.parts = rt.parts
        /\ rt'.length = rt.length
    BY <1>3 DEF RInv, Shape
  <2> QED
    BY <1>1, <2>1, KeepsText
<1> QED
  BY <1>1, <1>2, <1>3

(* The other steps between the request and the text.                       *)
LEMMA RankStep ==
  ASSUME RInv,
         \/ SemanticSearch
         \/ Bm25Search
         \/ RrfFuse
         \/ \E score : Rerank(score)
         \/ Merge
         \/ ScoreRetrieval
  PROVE  RInv'
<1> DEFINE Kept == /\ Shape' /\ rt.pc # "done"
                   /\ rt'.total = rt.total /\ rt'.parts = rt.parts
                   /\ rt'.length = rt.length
<1>1. SUFFICES Kept
  BY KeepsText
<1>2. CASE SemanticSearch
  BY <1>2 DEF SemanticSearch, RInv, Shape
<1>3. CASE Bm25Search
  BY <1>3 DEF Bm25Search, RInv, Shape
<1>4. CASE RrfFuse
  BY <1>4 DEF RrfFuse, RInv, Shape
<1>5. CASE \E score : Rerank(score)
  BY <1>5 DEF Rerank, RInv, Shape
<1>6. CASE Merge
  BY <1>6 DEF Merge, RInv, Shape
<1>7. CASE ScoreRetrieval
  BY <1>7 DEF ScoreRetrieval, RInv, Shape
<1> QED
  BY <1>2, <1>3, <1>4, <1>5, <1>6, <1>7

LEMMA FormatStep ==
  ASSUME RInv, NEW text \in TextLengths, FormatResult(text)
  PROVE  RInv'
<1> DEFINE size == Header + 1 + text
           rest == MaxContext - rt.total - Header - 4
<1>1. /\ MaxContext \in Nat /\ MinTail \in Nat /\ Header \in Nat
      /\ text \in Nat /\ size \in Nat
  BY RetrievalAssumption
<1>2. /\ rt.pc = "window"
      /\ rt.total \in Nat /\ rt.length \in Nat /\ rt.parts \in Nat
      /\ rt.parts = 0 => rt.total = 0 /\ rt.length = 0
      /\ rt.parts > 0 => rt.total = rt.length + 2
      /\ rt.length <= MaxContext
  BY DEF FormatResult, RInv, Laid, ContextFits
<1>3. CASE /\ rt.total + size <= MaxContext
           /\ rt' = [rt EXCEPT !.next = @ + 1, !.parts = @ + 1,
                               !.length = Lengthened(size),
                               !.total = @ + size + 2]
  <2>1. /\ Shape'
        /\ rt'.pc = rt.pc /\ rt'.parts = rt.parts + 1
        /\ rt'.length = Lengthened(size) /\ rt'.total = rt.total + size + 2
    BY <1>3 DEF RInv, Shape
  <2>2. Lengthened(size) = rt.total + size
    BY <1>1, <1>2 DEF Lengthened
  <2> HIDE DEF size
  <2>3. Laid' /\ ContextFits'
    BY <1>1, <1>2, <1>3, <2>1, <2>2 DEF Laid, ContextFits
  <2> QED
    BY <2>1, <2>3 DEF RInv
<1>4. CASE /\ rest > MinTail
           /\ rt' = [rt EXCEPT !.pc = "done", !.parts = @ + 1,
                        !.length = Lengthened(Header + 1 + rest + 3)]
  <2> DEFINE last == Header + 1 + rest + 3
  <2>1. /\ Shape'
        /\ rt'.pc = "done" /\ rt'.parts = rt.parts + 1
        /\ rt'.length = Lengthened(last) /\ rt'.total = rt.total
    BY <1>4 DEF RInv, Shape
  <2>2. last = MaxContext - rt.total
    BY <1>1, <1>2
  <2>3. Lengthened(last) = MaxContext
    <3> HIDE DEF last
    <3> QED
      BY <1>1, <1>2, <2>2 DEF Lengthened
  <2>4. Laid' /\ ContextFits'
    BY <1>1, <1>2, <2>1, <2>3 DEF Laid, ContextFits
  <2> QED
    BY <2>1, <2>4 DEF RInv
<1>5. CASE rt' = [rt EXCEPT !.pc = "done"]
  <2>1. /\ Shape'
        /\ rt'.total = rt.total /\ rt'.parts = rt.parts
        /\ rt'.length = rt.length
    BY <1>5 DEF RInv, Shape
  <2> QED
    BY <1>2, <2>1, KeepsText DEF RInv
<1> QED
  BY <1>3, <1>4, <1>5 DEF FormatResult, Remaining

LEMMA FormatEndsStep ==
  ASSUME RInv, FormatEnds
  PROVE  RInv'
<1>1. /\ rt.pc = "window" /\ rt' = [rt EXCEPT !.pc = "done"]
  BY DEF FormatEnds
<1>2. /\ Shape'
      /\ rt'.total = rt.total /\ rt'.parts = rt.parts
      /\ rt'.length = rt.length
  BY <1>1 DEF RInv, Shape
<1> QED
  BY <1>1, <1>2, KeepsText DEF RInv

LEMMA RetrievalStep ==
  ASSUME RInv, [RetrievalNext]_rt
  PROVE  RInv'
<1>1. CASE UNCHANGED rt
  BY <1>1 DEF RInv, Shape, Laid, ContextFits
<1>2. CASE RetrievalFails \/ Respond
  BY <1>2, IdleInv DEF RetrievalFails, Respond
<1>3. CASE \E of \in [Chunk -> Kb], filter \in Filter, match \in SUBSET Chunk,
             kbs \in Contexts, top \in TopFinal, alpha \in Weights,
             rerank \in BOOLEAN :
                 Request(of, filter, match, kbs, top, alpha, rerank)
  BY <1>3, RequestStep
<1>4. CASE Cut
  BY <1>4, CutStep
<1>5. CASE \/ SemanticSearch
           \/ Bm25Search
           \/ RrfFuse
           \/ \E score \in [Chunk -> RerankScore] : Rerank(score)
           \/ Merge
           \/ ScoreRetrieval
  BY <1>5, RankStep
<1>6. CASE FormatEnds \/ \E text \in TextLengths : FormatResult(text)
  BY <1>6, FormatStep, FormatEndsStep
<1> QED
  BY <1>1, <1>2, <1>3, <1>4, <1>5, <1>6 DEF RetrievalNext

LEMMA RetrievalInvariance == RetrievalSpec => []RInv
  BY RetrievalInitInv, RetrievalStep, PTL DEF RetrievalSpec

(* The context window is never longer than it may be, whatever the texts   *)
(* and headers are.                                                        *)
THEOREM WindowFits == RetrievalSpec => []ContextFits
<1>1. RInv => ContextFits
  BY DEF RInv
<1> QED
  BY <1>1, RetrievalInvariance, PTL

-----------------------------------------------------------------------------
Ahead(score, at, x, y) ==
    score[x] > score[y] \/ (score[x] = score[y] /\ at[x] < at[y])

(* Ordered lists every item once, and what is ahead first.                 *)
LEMMA OrderedLists ==
  ASSUME NEW items, IsFiniteSet(items), NEW score \in [items -> Int],
         NEW at \in [items -> Int],
         \A x, y \in items : at[x] = at[y] => x = y,
         NEW list, list = Ordered(items, score, at),
         NEW size, size = Cardinality(items)
  PROVE  /\ size \in Nat /\ list \in [1 .. size -> items]
         /\ \A x \in items : \E n \in 1 .. size : list[n] = x
         /\ \A m, n \in 1 .. size :
               m < n => Ahead(score, at, list[m], list[n])
<1> DEFINE N == Cardinality(items)
           upto(x) == {y \in items : \/ score[y] > score[x]
                                     \/ score[y] = score[x] /\ at[y] <= at[x]}
           place == [x \in items |-> Cardinality(upto(x))]
           order == Ordered(items, score, at)
<1>1. N \in Nat
  BY FS_CardinalityType
<1>2. \A x \in items : /\ upto(x) \in SUBSET items /\ x \in upto(x)
                       /\ IsFiniteSet(upto(x))
                       /\ place[x] \in 1 .. N
  <2> SUFFICES ASSUME NEW x \in items
               PROVE  /\ upto(x) \in SUBSET items /\ x \in upto(x)
                      /\ IsFiniteSet(upto(x)) /\ place[x] \in 1 .. N
    OBVIOUS
  <2>1. upto(x) \in SUBSET items /\ x \in upto(x)
    OBVIOUS
  <2> HIDE DEF upto
  <2>2. /\ IsFiniteSet(upto(x)) /\ Cardinality(upto(x)) <= N
        /\ Cardinality(upto(x)) \in Nat
    BY <2>1, FS_Subset, FS_CardinalityType
  <2>3. Cardinality(upto(x)) # 0
    BY <2>1, <2>2, FS_EmptySet
  <2> QED
    BY <1>1, <2>1, <2>2, <2>3
<1>3. \A x, y \in items : Ahead(score, at, x, y) => place[x] < place[y]
  <2> SUFFICES ASSUME NEW x \in items, NEW y \in items, Ahead(score, at, x, y)
               PROVE  place[x] < place[y]
    OBVIOUS
  <2>1. upto(x) \in SUBSET upto(y) /\ y \notin upto(x)
    BY DEF Ahead
  <2> HIDE DEF upto
  <2>2. upto(x) # upto(y)
    BY <1>2, <2>1
  <2>3. /\ Cardinality(upto(x)) <= Cardinality(upto(y))
        /\ Cardinality(upto(x)) # Cardinality(upto(y))
    BY <1>2, <2>1, <2>2, FS_Subset
  <2>4. Cardinality(upto(x)) \in Nat /\ Cardinality(upto(y)) \in Nat
    BY <1>2, FS_CardinalityType
  <2> QED
    BY <2>3, <2>4
<1>4. \A x, y \in items : x # y => Ahead(score, at, x, y) \/ Ahead(score, at, y, x)
  BY DEF Ahead
<1> HIDE DEF upto
<1>5. \A x, y \in items : place[x] = place[y] => x = y
  BY <1>2, <1>3, <1>4
<1>6. \A n \in 1 .. N : \E x \in items : place[x] = n
  <2>1. place \in Injection(items, 1 .. N)
    BY <1>2, <1>5 DEF Injection, IsInjective
  <2>2. IsFiniteSet(1 .. N) /\ Cardinality(1 .. N) = N
    BY <1>1, FS_Interval
  <2>3. place \in Surjection(items, 1 .. N)
    BY <2>1, <2>2, FS_Injection
  <2> QED
    BY <2>3 DEF Surjection
<1>7. \A n \in 1 .. N : order[n] \in items /\ place[order[n]] = n
  <2> SUFFICES ASSUME NEW n \in 1 .. N
               PROVE  order[n] \in items /\ place[order[n]] = n
    OBVIOUS
  <2>1. \A x \in items : Place(items, score, at, x) = place[x]
    BY DEF Place, upto
  <2>2. order[n] = CHOOSE x \in items : Place(items, score, at, x) = n
    BY DEF Ordered
  <2>3. \E x \in items : Place(items, score, at, x) = n
    BY <1>6, <2>1
  <2> HIDE DEF order, place
  <2> QED
    BY <2>1, <2>2, <2>3
<1>8. order \in [1 .. N -> items]
  BY <1>7 DEF Ordered
<1> HIDE DEF order, place
<1>9. \A x \in items : \E n \in 1 .. N : order[n] = x
  BY <1>2, <1>5, <1>7
<1>10. \A m, n \in 1 .. N : m < n => Ahead(score, at, order[m], order[n])
  BY <1>1, <1>3, <1>4, <1>7
<1> QED
  BY <1>1, <1>8, <1>9, <1>10 DEF order

(* The same without the ties.                                              *)
LEMMA OrderedKeys ==
  ASSUME NEW items, IsFiniteSet(items), NEW score \in [items -> Int],
         NEW at \in [items -> Int],
         \A x, y \in items : at[x] = at[y] => x = y,
         NEW list, list = Ordered(items, score, at),
         NEW size, size = Cardinality(items)
  PROVE  /\ size \in Nat /\ list \in [1 .. size -> items]
         /\ \A x \in items : \E n \in 1 .. size : list[n] = x
         /\ \A m, n \in 1 .. size :
               m <= n => score[list[m]] >= score[list[n]]
<1>1. /\ size \in Nat /\ list \in [1 .. size -> items]
      /\ \A x \in items : \E n \in 1 .. size : list[n] = x
      /\ \A m, n \in 1 .. size :
            m < n => Ahead(score, at, list[m], list[n])
  BY OrderedLists
<1>2. ASSUME NEW m \in 1 .. size, NEW n \in 1 .. size, m <= n
      PROVE  score[list[m]] >= score[list[n]]
  <2>1. score[list[m]] \in Int /\ score[list[n]] \in Int
    BY <1>1
  <2>2. CASE m = n
    BY <2>1, <2>2
  <2>3. CASE m < n
    BY <1>1, <2>1, <2>3 DEF Ahead
  <2> QED
    BY <1>1, <1>2, <2>2, <2>3
<1> QED
  BY <1>1, <1>2

LEMMA IntervalSize ==
  ASSUME NEW n \in Nat
  PROVE  IsFiniteSet(1 .. n) /\ Cardinality(1 .. n) = n
  BY FS_Interval

(* SortedBy is the same items, the greater key first.                      *)
LEMMA SortedByOrder ==
  ASSUME NEW S, NEW s \in Seq(S), NEW key \in [1 .. Len(s) -> Int]
  PROVE  /\ SortedBy(s, key) \in Seq(S) /\ Len(SortedBy(s, key)) = Len(s)
         /\ \E order \in [1 .. Len(s) -> 1 .. Len(s)] :
               /\ \A i \in 1 .. Len(s) : \E n \in 1 .. Len(s) : order[n] = i
               /\ \A n \in 1 .. Len(s) : SortedBy(s, key)[n] = s[order[n]]
               /\ \A m, n \in 1 .. Len(s) :
                     m <= n => key[order[m]] >= key[order[n]]
<1> DEFINE D == DOMAIN s
           at == [i \in D |-> i]
           order == Ordered(D, key, at)
           N == Len(s)
<1>1. N \in Nat /\ D = 1 .. N
  OBVIOUS
<1>2. IsFiniteSet(D) /\ N = Cardinality(D)
  <2> HIDE DEF D
  <2>1. IsFiniteSet(1 .. N) /\ Cardinality(1 .. N) = N
    BY <1>1, IntervalSize
  <2> QED
    BY <1>1, <2>1
<1>3. at \in [D -> Int] /\ \A i, j \in D : at[i] = at[j] => i = j
  BY <1>1
<1>4. key \in [D -> Int]
  BY <1>1
<1>5. /\ order \in [1 .. N -> 1 .. N]
      /\ \A i \in 1 .. N : \E n \in 1 .. N : order[n] = i
      /\ \A m, n \in 1 .. N : m <= n => key[order[m]] >= key[order[n]]
  <2> DEFINE M == Cardinality(D)
  <2> HIDE DEF D, at, order, N, M
  <2>1. /\ M \in Nat /\ order \in [1 .. M -> D]
        /\ \A i \in D : \E n \in 1 .. M : order[n] = i
        /\ \A m, n \in 1 .. M : m <= n => key[order[m]] >= key[order[n]]
    BY <1>2, <1>3, <1>4, OrderedKeys DEF order, M
  <2>2. M = N
    BY <1>2 DEF M
  <2> QED
    BY <1>1, <2>1, <2>2
<1>6. SortedBy(s, key) = [n \in 1 .. N |-> s[order[n]]]
  BY <1>1 DEF SortedBy
<1> HIDE DEF D, at, order
<1>7. \A n \in 1 .. N : s[order[n]] \in S
  <2>1. \A n \in 1 .. N : order[n] \in 1 .. N
    BY <1>5
  <2>2. \A i \in 1 .. N : s[i] \in S
    BY <1>1
  <2> QED
    BY <2>1, <2>2
<1>8. SortedBy(s, key) \in [1 .. N -> S]
  BY <1>6, <1>7
<1>9. SortedBy(s, key) \in Seq(S) /\ Len(SortedBy(s, key)) = N
  BY <1>1, <1>8
<1>10. \A n \in 1 .. N : SortedBy(s, key)[n] = s[order[n]]
  BY <1>6
<1> QED
  BY <1>5, <1>9, <1>10

-----------------------------------------------------------------------------

LEMMA Quotient ==
  ASSUME NEW u \in Nat, NEW d \in Nat \ {0}
  PROVE  /\ u \div d \in Nat
         /\ (u \div d) * d <= u /\ u < (u \div d) * d + d
  BY SMT

LEMMA ShareIs ==
  ASSUME NEW r \in 1 .. 100
  PROVE  /\ Share(r) \in Nat
         /\ Share(r) * (60 + r) <= Unit /\ Unit < Share(r) * (60 + r) + 60 + r
<1> DEFINE d == 60 + r
           u == Unit
<1>1. u \in Nat /\ d \in Nat \ {0} /\ Share(r) = u \div d
  BY DEF Unit, Share, RrfK
<1> HIDE DEF d, u
<1>2. Share(r) \in Nat /\ Share(r) * d <= u /\ u < Share(r) * d + d
  BY <1>1, Quotient
<1> QED
  BY <1>2 DEF d, u

(* Two ranks never have the same share.                                    *)
LEMMA ShareFalls ==
  ASSUME NEW r \in 1 .. 100, NEW q \in 1 .. 100, r < q
  PROVE  Share(q) < Share(r)
<1> DEFINE a == Share(r)
           b == Share(q)
<1>1. /\ a \in Nat /\ b \in Nat
      /\ Unit < a * (60 + r) + 60 + r
      /\ b * (60 + q) <= Unit /\ Unit < b * (60 + q) + 60 + q
  BY ShareIs
<1> HIDE DEF a, b
<1>2. b > 160
  <2>1. SUFFICES ASSUME b <= 160 PROVE FALSE
    BY <1>1
  <2>2. b * (60 + q) <= 160 * 160
    BY <1>1, <2>1
  <2> QED
    BY <1>1, <2>2 DEF Unit
<1>3. SUFFICES ASSUME b >= a PROVE FALSE
  BY <1>1 DEF a, b
<1>4. b * (60 + q) >= b * (60 + r) + b
  BY <1>1
<1>5. a * (60 + r) <= b * (60 + r)
  BY <1>1, <1>3
<1> DEFINE x == b * (60 + r)
           y == b * (60 + q)
           z == a * (60 + r)
<1>6. x \in Nat /\ y \in Nat /\ z \in Nat /\ Unit \in Nat
  BY <1>1 DEF Unit
<1> HIDE DEF x, y, z
<1>7. Unit < z + 60 + r /\ y <= Unit /\ y >= x + b /\ z <= x
  BY <1>1, <1>4, <1>5 DEF x, y, z
<1> QED
  BY <1>1, <1>2, <1>6, <1>7

LEMMA ShareBounds ==
  ASSUME NEW r \in 1 .. 100
  PROVE  Share(r) \in 1 .. Share(1)
<1>1. Share(r) <= Share(1)
  BY ShareIs, ShareFalls
<1>2. Share(r) # 0
  BY ShareIs DEF Unit
<1> QED
  BY <1>1, <1>2, ShareIs

-----------------------------------------------------------------------------
(* A list that a search returns, in which a chunk may be twice.            *)
Ranking(s) == s \in Seq(Chunk) /\ Len(s) <= TopHybrid

LEMMA RankingsAre ==
  ASSUME NEW S \in SUBSET Chunk, NEW s \in Rankings(S)
  PROVE  Ranking(s)
<1>1. TopHybrid \in Nat
  BY RetrievalAssumption
<1>2. s \in SeqOf(S, TopHybrid)
  BY DEF Rankings
<1>3. PICK m \in 0 .. TopHybrid : s \in [1 .. m -> S]
  BY <1>1, <1>2 DEF SeqOf
<1>4. s \in Seq(Chunk) /\ Len(s) = m
  BY <1>3
<1> QED
  BY <1>1, <1>4 DEF Ranking

(* The places of a chunk in a list have a first and a last.                *)
LEMMA RankOf ==
  ASSUME NEW s, Ranking(s), NEW c \in Range(s)
  PROVE  /\ RankIn(s, c) \in 1 .. Len(s) /\ s[RankIn(s, c)] = c
         /\ RankIn(s, c) \in 1 .. 100 /\ c \in Chunk
         /\ LastIn(s, c) \in 1 .. 100
<1> DEFINE P == Places(s, c)
           at == [i \in P |-> i]
           ups == Ordered(P, at, at)
           N == Cardinality(P)
<1>1. /\ s \in Seq(Chunk) /\ Len(s) \in Nat /\ DOMAIN s = 1 .. Len(s)
      /\ Len(s) <= 100
  BY RetrievalAssumption DEF Ranking
<1>2. P # {}
  <2>1. PICK i \in DOMAIN s : c = s[i]
    BY DEF Range
  <2> QED
    BY <2>1 DEF Places
<1>3. \A i \in P : i \in 1 .. Len(s) /\ s[i] = c /\ i \in 1 .. 100
  <2>1. \A i \in P : i \in 1 .. Len(s) /\ s[i] = c
    BY <1>1 DEF Places
  <2>2. 1 .. Len(s) \subseteq 1 .. 100
    <3> DEFINE n == Len(s)
    <3>1. n \in Nat /\ n <= 100
      BY <1>1
    <3> HIDE DEF n
    <3>2. 1 .. n \subseteq 1 .. 100
      BY <3>1
    <3> QED
      BY <3>2 DEF n
  <2> QED
    BY <2>1, <2>2
<1>4. IsFiniteSet(P)
  <2>1. P \in SUBSET (1 .. Len(s)) /\ IsFiniteSet(1 .. Len(s))
    BY <1>1, <1>3, IntervalSize
  <2> QED
    BY <2>1, FS_Subset
<1> HIDE DEF P
<1>5. /\ at \in [P -> Int]
      /\ \A i, j \in P : at[i] = at[j] => i = j
      /\ \A i \in P : at[i] = i /\ i \in Int
  BY <1>3
<1> HIDE DEF at, ups, N
<1>6. /\ N \in Nat /\ ups \in [1 .. N -> P]
      /\ \A i \in P : \E n \in 1 .. N : ups[n] = i
      /\ \A m, n \in 1 .. N : m <= n => at[ups[m]] >= at[ups[n]]
  <2>1. at \in [P -> Int] /\ \A i, j \in P : at[i] = at[j] => i = j
    BY <1>5
  <2>2. ups = Ordered(P, at, at) /\ N = Cardinality(P)
    BY DEF ups, N
  <2> QED
    BY <1>4, <2>1, <2>2, OrderedKeys
<1>7. 1 \in 1 .. N /\ N \in 1 .. N /\ \A n \in 1 .. N : 1 <= n /\ n <= N
  BY <1>2, <1>6
<1>8. ups[1] \in P /\ \A j \in P : ups[1] >= j
  BY <1>5, <1>6, <1>7
<1>9. ups[N] \in P /\ \A j \in P : ups[N] <= j
  BY <1>5, <1>6, <1>7
<1>10. RankIn(s, c) \in P
  <2>1. \E i \in P : \A j \in P : i <= j
    BY <1>9
  <2> QED
    BY <2>1 DEF RankIn, P
<1>11. LastIn(s, c) \in P
  <2>1. \E i \in P : \A j \in P : i >= j
    BY <1>8
  <2> QED
    BY <2>1 DEF LastIn, P
<1>12. s[RankIn(s, c)] \in Chunk
  BY <1>1, <1>3, <1>10
<1> QED
  BY <1>3, <1>10, <1>11, <1>12

LEMMA ShareInBounds ==
  ASSUME NEW s, Ranking(s), NEW c
  PROVE  /\ ShareIn(s, c) \in 0 .. 2 * Share(1)
         /\ c \in Range(s) => ShareIn(s, c) >= Share(RankIn(s, c))
         /\ ShareIn(s, c) > 0 <=> c \in Range(s)
<1>1. CASE c \in Range(s)
  <2>1. RankIn(s, c) \in 1 .. 100 /\ LastIn(s, c) \in 1 .. 100
    BY <1>1, RankOf
  <2>2. /\ Share(RankIn(s, c)) \in 1 .. Share(1)
        /\ Share(LastIn(s, c)) \in 1 .. Share(1) /\ Share(1) \in Nat
    BY <2>1, ShareBounds, ShareIs
  <2> QED
    BY <1>1, <2>2 DEF ShareIn
<1>2. CASE c \notin Range(s)
  <2>1. Share(1) \in Nat
    BY ShareIs
  <2> QED
    BY <1>2, <2>1 DEF ShareIn
<1> QED
  BY <1>1, <1>2

(* Whoever is not behind in a list has no smaller share of it than a chunk *)
(* that the list holds once.                                               *)
LEMMA AheadShares ==
  ASSUME NEW s, Ranking(s), NEW c, NEW d, ~Repeated(s, d)
  PROVE  /\ ~Behind(s, c, d) => ShareIn(s, c) >= ShareIn(s, d)
         /\ Behind(s, d, c) => ShareIn(s, c) > ShareIn(s, d)
<1>1. CASE c \in Range(s) /\ d \in Range(s)
  <2>1. /\ RankIn(s, c) \in 1 .. 100 /\ RankIn(s, d) \in 1 .. 100
        /\ Share(RankIn(s, c)) \in Nat /\ Share(RankIn(s, d)) \in Nat
        /\ ShareIn(s, c) \in Nat /\ ShareIn(s, c) >= Share(RankIn(s, c))
    <3>1. RankIn(s, c) \in 1 .. 100 /\ RankIn(s, d) \in 1 .. 100
      BY <1>1, RankOf
    <3>2. Share(RankIn(s, c)) \in Nat /\ Share(RankIn(s, d)) \in Nat
      BY <3>1, ShareIs
    <3>3. /\ ShareIn(s, c) \in 0 .. 2 * Share(1) /\ Share(1) \in Nat
          /\ ShareIn(s, c) >= Share(RankIn(s, c))
      BY <1>1, ShareInBounds, ShareIs
    <3> QED
      BY <3>1, <3>2, <3>3
  <2>2. ShareIn(s, d) = Share(RankIn(s, d))
    BY <1>1 DEF ShareIn, Repeated
  <2>3. RankIn(s, d) > RankIn(s, c) => ShareIn(s, c) > ShareIn(s, d)
    BY <2>1, <2>2, ShareFalls
  <2>4. RankIn(s, d) = RankIn(s, c) => ShareIn(s, c) >= ShareIn(s, d)
    BY <2>1, <2>2
  <2> QED
    BY <1>1, <2>1, <2>2, <2>3, <2>4 DEF Behind
<1>2. CASE c \notin Range(s) \/ d \notin Range(s)
  BY <1>2, ShareInBounds, ShareIs DEF Behind
<1> QED
  BY <1>1, <1>2

Best == 20 * Share(1)
Item == [chunk : Chunk, hybrid : 0 .. Best]

Searched ==
    /\ Ranking(rt.semantic) /\ Ranking(rt.bm25)
    /\ rt.alpha \in 0 .. 10

LEMMA RrfBounds ==
  ASSUME Searched, NEW c
  PROVE  Rrf(c) \in 0 .. Best
<1> DEFINE x == ShareIn(rt.semantic, c)
           y == ShareIn(rt.bm25, c)
           a == rt.alpha
           most == 2 * Share(1)
<1>1. x \in 0 .. most /\ y \in 0 .. most /\ a \in 0 .. 10 /\ most \in Nat
  BY ShareInBounds, ShareIs DEF Searched
<1>0. Best = 10 * most
  BY ShareIs DEF Best
<1> HIDE DEF x, y, a, most
<1>2. a * x \in Nat /\ a * x <= a * most
  BY <1>1
<1>3. (10 - a) * y \in Nat /\ (10 - a) * y <= (10 - a) * most
  BY <1>1
<1>4. a * most + (10 - a) * most = 10 * most
  BY <1>1
<1>5. a * most \in Nat /\ (10 - a) * most \in Nat
  BY <1>1
<1>6. a * x + (10 - a) * y \in 0 .. 10 * most
  BY <1>2, <1>3, <1>4, <1>5
<1> QED
  BY <1>0, <1>6 DEF Rrf, x, y, a

LEMMA MetBounds ==
  ASSUME Searched
  PROVE  /\ \A c \in Found : MetAt(c) \in Int
         /\ \A c, d \in Found : MetAt(c) = MetAt(d) => c = d
         /\ IsFiniteSet(Found) /\ Found \in SUBSET Chunk
<1>1. /\ Len(rt.semantic) \in Nat /\ Len(rt.bm25) \in Nat
      /\ DOMAIN rt.semantic = 1 .. Len(rt.semantic)
      /\ DOMAIN rt.bm25 = 1 .. Len(rt.bm25)
  BY DEF Searched, Ranking
<1>2. \A c \in Range(rt.semantic) :
          /\ RankIn(rt.semantic, c) \in 1 .. Len(rt.semantic)
          /\ rt.semantic[RankIn(rt.semantic, c)] = c /\ c \in Chunk
  BY RankOf DEF Searched
<1>3. \A c \in Range(rt.bm25) :
          /\ RankIn(rt.bm25, c) \in 1 .. Len(rt.bm25)
          /\ rt.bm25[RankIn(rt.bm25, c)] = c /\ c \in Chunk
  BY RankOf DEF Searched
<1>4. \A c \in Found : MetAt(c) \in Int
  BY <1>1, <1>2, <1>3 DEF Found, MetAt
<1>5. \A c, d \in Found : MetAt(c) = MetAt(d) => c = d
  BY <1>1, <1>2, <1>3 DEF Found, MetAt
<1>6. IsFiniteSet(Range(rt.semantic)) /\ IsFiniteSet(Range(rt.bm25))
  <2>1. ASSUME NEW s, Ranking(s) PROVE IsFiniteSet(Range(s))
    <3>1. s \in Seq(Chunk) /\ Len(s) \in Nat /\ DOMAIN s = 1 .. Len(s)
      BY <2>1 DEF Ranking
    <3>2. IsFiniteSet(DOMAIN s)
      BY <3>1, IntervalSize
    <3>0. s \in [DOMAIN s -> Chunk]
      BY <3>1
    <3>3. s \in Surjection(DOMAIN s, Range(s))
      BY <3>0, Fun_RangeProperties
    <3> QED
      BY <3>2, <3>3, FS_Surjection
  <2> QED
    BY <2>1 DEF Searched
<1>7. IsFiniteSet(Found)
  BY <1>6, FS_Union DEF Found
<1> QED
  BY <1>2, <1>3, <1>4, <1>5, <1>7 DEF Found

LEMMA FusedLists ==
  ASSUME Searched
  PROVE  LET order == [n \in DOMAIN Fused |-> Fused[n].chunk]
             score == [c \in Found |-> Rrf(c)]
             at == [c \in Found |-> MetAt(c)]
         IN  /\ Fused \in Seq(Item)
             /\ \A n \in DOMAIN Fused :
                   order[n] \in Found /\ Fused[n].hybrid = Rrf(order[n])
             /\ \A m, n \in DOMAIN Fused :
                   m < n => Ahead(score, at, order[m], order[n])
<1> DEFINE score == [c \in Found |-> Rrf(c)]
           at == [c \in Found |-> MetAt(c)]
           order == Ordered(Found, score, at)
           N == Cardinality(Found)
<1>1. /\ score \in [Found -> Int] /\ at \in [Found -> Int]
      /\ \A c, d \in Found : at[c] = at[d] => c = d
  BY RrfBounds, MetBounds
<1>2. /\ N \in Nat /\ order \in [1 .. N -> Found]
      /\ \A m, n \in 1 .. N : m < n => Ahead(score, at, order[m], order[n])
  <2> HIDE DEF score, at
  <2> QED
    BY <1>1, MetBounds, OrderedLists
<1>3. Fused = [n \in 1 .. N |-> [chunk |-> order[n], hybrid |-> Rrf(order[n])]]
  BY <1>2 DEF Fused
<1> HIDE DEF order
<1>4. Fused \in [1 .. N -> Item]
  <2>1. \A n \in 1 .. N : order[n] \in Chunk /\ Rrf(order[n]) \in 0 .. Best
    BY <1>2, MetBounds, RrfBounds
  <2> QED
    BY <1>3, <2>1 DEF Item
<1>5. Fused \in Seq(Item) /\ DOMAIN Fused = 1 .. N
  BY <1>2, <1>4
<1>6. \A n \in 1 .. N : /\ Fused[n].chunk = order[n]
                         /\ Fused[n].hybrid = Rrf(order[n])
  BY <1>3
<1> HIDE DEF score, at, N
<1>7. \A m, n \in DOMAIN Fused :
          m < n => Ahead(score, at, Fused[m].chunk, Fused[n].chunk)
  BY <1>2, <1>5, <1>6
<1> QED
  BY <1>2, <1>5, <1>6, <1>7 DEF score, at

(* A chunk that dominates another is ahead of it, by its score or by where *)
(* the fusion met it.                                                      *)
LEMMA DominantAhead ==
  ASSUME Searched, NEW c \in Found, NEW d \in Found, Dominates(c, d)
  PROVE  Rrf(c) > Rrf(d) \/ (Rrf(c) = Rrf(d) /\ MetAt(c) < MetAt(d))
<1> DEFINE a == rt.alpha
           xc == ShareIn(rt.semantic, c)
           xd == ShareIn(rt.semantic, d)
           yc == ShareIn(rt.bm25, c)
           yd == ShareIn(rt.bm25, d)
<1>1. /\ a \in 0 .. 10 /\ xc \in Nat /\ xd \in Nat /\ yc \in Nat /\ yd \in Nat
      /\ xc >= xd /\ yc >= yd
      /\ Behind(rt.semantic, d, c) => xc > xd
      /\ Behind(rt.bm25, d, c) => yc > yd
      /\ Behind(rt.semantic, d, c) \/ Behind(rt.bm25, d, c)
  BY ShareInBounds, AheadShares, ShareIs DEF Searched, Dominates
<1>2. Rrf(c) = a * xc + (10 - a) * yc /\ Rrf(d) = a * xd + (10 - a) * yd
  BY DEF Rrf
<1>3. CASE (a > 0 /\ xc > xd) \/ (a < 10 /\ yc > yd)
  <2> HIDE DEF a, xc, xd, yc, yd
  <2>1. a * xc \in Nat /\ a * xd \in Nat /\ a * xc >= a * xd
        /\ (10 - a) * yc \in Nat /\ (10 - a) * yd \in Nat
        /\ (10 - a) * yc >= (10 - a) * yd
    BY <1>1
  <2>2. CASE a > 0 /\ xc > xd
    <3>1. a * xc > a * xd
      BY <1>1, <2>2
    <3> QED
      BY <1>2, <2>1, <3>1
  <2>3. CASE a < 10 /\ yc > yd
    <3>1. (10 - a) * yc > (10 - a) * yd
      BY <1>1, <2>3
    <3> QED
      BY <1>2, <2>1, <3>1
  <2> QED
    BY <1>3, <2>2, <2>3
<1>4. /\ Len(rt.semantic) \in Nat
      /\ \A e \in Range(rt.semantic) :
             RankIn(rt.semantic, e) \in 1 .. Len(rt.semantic)
      /\ \A e \in Range(rt.bm25) : RankIn(rt.bm25, e) \in 1 .. Len(rt.bm25)
      /\ Len(rt.bm25) \in Nat
  BY RankOf DEF Searched, Ranking
<1>5. CASE a = 0 /\ yc = yd
  <2>1. Rrf(c) = Rrf(d)
    <3> HIDE DEF a, xc, xd, yc, yd
    <3> QED
      BY <1>1, <1>2, <1>5
  <2>2. Behind(rt.semantic, d, c)
    BY <1>1, <1>5
  <2>3. c \in Range(rt.semantic)
    BY <2>2 DEF Behind
  <2>4. MetAt(c) < MetAt(d)
    BY <1>4, <2>2, <2>3 DEF MetAt, Behind, Found
  <2> QED
    BY <2>1, <2>4
<1>6. CASE a = 10 /\ xc = xd
  <2>1. Rrf(c) = Rrf(d)
    <3> HIDE DEF a, xc, xd, yc, yd
    <3> QED
      BY <1>1, <1>2, <1>6
  <2>2. Behind(rt.bm25, d, c) /\ ~Behind(rt.semantic, d, c)
        /\ ~Behind(rt.semantic, c, d)
    BY <1>1, <1>6 DEF Dominates
  <2>3. c \in Range(rt.bm25) /\ c # d
    BY <1>4, <2>2 DEF Behind
  <2>4. c \notin Range(rt.semantic) /\ d \notin Range(rt.semantic)
    <3>1. c \in Range(rt.semantic) <=> d \in Range(rt.semantic)
      BY <2>2 DEF Behind
    <3>2. ASSUME c \in Range(rt.semantic), d \in Range(rt.semantic) PROVE FALSE
      <4>1. RankIn(rt.semantic, c) = RankIn(rt.semantic, d)
        BY <1>4, <2>2, <3>2 DEF Behind
      <4>2. /\ rt.semantic[RankIn(rt.semantic, c)] = c
            /\ rt.semantic[RankIn(rt.semantic, d)] = d
        BY <3>2, RankOf DEF Searched
      <4> QED
        BY <2>3, <4>1, <4>2
    <3> QED
      BY <3>1, <3>2
  <2>5. MetAt(c) < MetAt(d)
    BY <1>4, <2>2, <2>3, <2>4 DEF MetAt, Behind, Found
  <2> QED
    BY <2>1, <2>5
<1> QED
  <2> HIDE DEF a, xc, xd, yc, yd
  <2> QED
    BY <1>1, <1>3, <1>5, <1>6

LEMMA FusedInOrder ==
  ASSUME Searched, rt.fused = Fused
  PROVE  FusedDominates
<1> DEFINE score == [c \in Found |-> Rrf(c)]
           at == [c \in Found |-> MetAt(c)]
<1>1. /\ DOMAIN rt.fused = 1 .. Len(rt.fused) /\ Len(rt.fused) \in Nat
      /\ \A n \in DOMAIN rt.fused : rt.fused[n].chunk \in Found
      /\ \A m, n \in DOMAIN rt.fused :
            m < n => Ahead(score, at, rt.fused[m].chunk, rt.fused[n].chunk)
  BY FusedLists
<1>2. \A c, d \in Found :
          Ahead(score, at, c, d) <=>
              (Rrf(c) > Rrf(d) \/ (Rrf(c) = Rrf(d) /\ MetAt(c) < MetAt(d)))
  BY DEF Ahead
<1>3. \A c, d \in Found : Rrf(c) \in Int /\ MetAt(c) \in Int
  BY RrfBounds, MetBounds
<1> HIDE DEF score, at
<1>4. ASSUME NEW m \in DOMAIN rt.fused, NEW n \in DOMAIN rt.fused
      PROVE  /\ Dominates(rt.fused[m].chunk, rt.fused[n].chunk) => m < n
             /\ rt.fused[m].chunk = rt.fused[n].chunk => m = n
  <2> DEFINE c == rt.fused[m].chunk
             d == rt.fused[n].chunk
  <2>1. c \in Found /\ d \in Found
    BY <1>1
  <2>2. /\ m < n => Ahead(score, at, c, d)
        /\ n < m => Ahead(score, at, d, c)
        /\ m = n => c = d
        /\ m \in Nat /\ n \in Nat
    BY <1>1
  <2>3. Dominates(c, d) => Ahead(score, at, c, d)
    BY <1>2, <2>1, DominantAhead
  <2> HIDE DEF c, d
  <2>4. ~(Ahead(score, at, c, d) /\ Ahead(score, at, d, c))
        /\ (c = d => ~Ahead(score, at, c, d) /\ ~Ahead(score, at, d, c))
    BY <1>2, <1>3, <2>1
  <2>5. (Dominates(c, d) => m < n) /\ (c = d => m = n)
    BY <2>2, <2>3, <2>4
  <2> QED
    BY <2>5 DEF c, d
<1> QED
  BY <1>4 DEF FusedDominates

-----------------------------------------------------------------------------
(* The scores are of the two lists until the results are cut, and no item  *)
(* ever has a score that is better than the best of the fusion.            *)
Scored ==
    /\ rt.pc # "idle" => Searched /\ rt.top \in Nat
    /\ rt.fused \in Seq(Item) /\ rt.results \in Seq(Item)
    /\ rt.pc = "rerank" => rt.rerank
    /\ rt.pc = "rerank" \/ (rt.pc = "cut" /\ ~rt.rerank) => rt.fused = Fused
    /\ QualityPoor

LEMMA ItemIs ==
  ASSUME NEW x \in Item
  PROVE  /\ x.chunk \in Chunk /\ x.hybrid \in Nat /\ x.hybrid <= Best
         /\ Best \in Nat /\ Best * 61 <= 20 * Unit
<1>1. Share(1) \in Nat /\ Share(1) * 61 <= Unit
  BY ShareIs
<1> QED
  BY <1>1 DEF Item, Best, Unit

LEMMA FirstOf ==
  ASSUME NEW S, NEW s \in Seq(S), NEW n \in Nat
  PROVE  First(s, n) \in Seq(S)
<1> DEFINE m == IF Len(s) < n THEN Len(s) ELSE n
<1>1. m \in 0 .. Len(s) /\ Len(s) \in Nat
  OBVIOUS
<1>2. \A i \in 1 .. m : s[i] \in S
  BY <1>1
<1> HIDE DEF m
<1>3. SubSeq(s, 1, m) \in Seq(S)
  BY <1>1, <1>2, SubSeqProperties
<1> QED
  BY <1>3 DEF First, m

LEMMA RerankedItems ==
  ASSUME rt.fused \in Seq(Item), rt.top \in Nat,
         NEW score \in [Chunk -> RerankScore]
  PROVE  Reranked(score) \in Seq(Item)
<1> DEFINE keys == [i \in DOMAIN rt.fused |->
              IF rt.fused[i] \in Range(First(SortedBy(First(rt.fused, TopHybrid),
                     [k \in DOMAIN First(rt.fused, TopHybrid) |->
                         score[First(rt.fused, TopHybrid)[k].chunk]]), rt.top))
              THEN [k \in DOMAIN rt.fused |-> score[rt.fused[k].chunk]][i] ELSE 0]
<1>1. Reranked(score) = SortedBy(rt.fused, keys)
  BY DEF Reranked
<1>2. keys \in [1 .. Len(rt.fused) -> Int]
  <2>1. DOMAIN rt.fused = 1 .. Len(rt.fused)
    OBVIOUS
  <2>2. \A i \in DOMAIN rt.fused : score[rt.fused[i].chunk] \in Int
    <3>1. \A i \in DOMAIN rt.fused : rt.fused[i] \in Item
      BY <2>1
    <3>2. \A i \in DOMAIN rt.fused : rt.fused[i].chunk \in Chunk
      BY <3>1, ItemIs
    <3> QED
      BY <3>2 DEF RerankScore
  <2> QED
    BY <2>1, <2>2
<1> HIDE DEF keys
<1> QED
  BY <1>1, <1>2, SortedByOrder

LEMMA HybridKeys ==
  ASSUME NEW s \in Seq(Item)
  PROVE  /\ [i \in DOMAIN s |-> s[i].hybrid] \in [1 .. Len(s) -> Int]
         /\ DOMAIN s = 1 .. Len(s)
<1>1. DOMAIN s = 1 .. Len(s)
  OBVIOUS
<1>2. \A i \in DOMAIN s : s[i] \in Item
  BY <1>1
<1>3. \A i \in DOMAIN s : s[i].hybrid \in Int
  BY <1>2, ItemIs
<1> QED
  BY <1>1, <1>3

LEMMA MergedItems ==
  ASSUME NEW s \in Seq(Item)
  PROVE  SortedResults(s) \in Seq(Item)
<1> DEFINE keys == [i \in DOMAIN s |-> s[i].hybrid]
<1>1. keys \in [1 .. Len(s) -> Int]
  BY HybridKeys
<1>2. SortedResults(s) = SortedBy(s, keys)
  BY DEF SortedResults
<1> HIDE DEF keys
<1> QED
  BY <1>1, <1>2, SortedByOrder

(* The labels need three tenths, and no fused score is above 2 / 61.       *)
LEMMA PoorItems ==
  ASSUME NEW s \in Seq(Item)
  PROVE  Quality(s) = "poor"
<1>1. CASE s = <<>>
  BY <1>1 DEF Quality
<1>2. CASE s # <<>>
  <2>1. s[1] \in Item
    BY <1>2
  <2>3. s[1].hybrid \in Nat /\ s[1].hybrid < 3 * Unit
    BY <2>1, ItemIs DEF Unit
  <2>4. /\ ~(s[1].hybrid >= 3 * Unit) /\ ~(s[1].hybrid >= 5 * Unit)
        /\ ~(s[1].hybrid >= 7 * Unit)
    BY <2>3 DEF Unit
  <2> QED
    BY <1>2, <2>4 DEF Quality
<1> QED
  BY <1>1, <1>2

LEMMA EmptyLists == Ranking(<<>>) /\ <<>> \in Seq(Item)
  BY RetrievalAssumption DEF Ranking

LEMMA IdleScored ==
  ASSUME rt' = IdleRetrieval
  PROVE  Scored'
  BY EmptyLists DEF IdleRetrieval, Scored, QualityPoor

LEMMA ScoredStep ==
  ASSUME Shape, Scored, [RetrievalNext]_rt
  PROVE  Scored'
<1>1. CASE UNCHANGED rt
  BY <1>1 DEF Scored, Searched, QualityPoor, Fused, Found, MetAt, Rrf
<1>2. CASE RetrievalFails \/ Respond
  BY <1>2, IdleScored DEF RetrievalFails, Respond
<1>3. ASSUME NEW of, NEW filter, NEW match, NEW kbs, NEW top \in TopFinal,
             NEW alpha \in Weights, NEW rerank,
             Request(of, filter, match, kbs, top, alpha, rerank)
      PROVE  Scored'
  <2>1. rt' = [IdleRetrieval EXCEPT
            !.pc = "semantic", !.of = of, !.filter = filter, !.match = match,
            !.kbs = kbs, !.top = top, !.alpha = alpha, !.rerank = rerank]
    BY <1>3 DEF Request
  <2>2. /\ rt'.pc = "semantic" /\ rt'.top = top /\ rt'.alpha = alpha
        /\ rt'.semantic = <<>> /\ rt'.bm25 = <<>> /\ rt'.fused = <<>>
        /\ rt'.results = <<>> /\ rt'.label = "none"
    BY <2>1 DEF IdleRetrieval
  <2>3. top \in Nat /\ alpha \in 0 .. 10
    BY RetrievalAssumption
  <2> QED
    BY <2>2, <2>3, EmptyLists DEF Scored, Searched, QualityPoor
<1>4. CASE SemanticSearch \/ Bm25Search
  <2> DEFINE Adopts(ranking) ==
               /\ rt.pc \in {"semantic", "bm25"}
               /\ \/ rt' = [rt EXCEPT !.pc = "bm25", !.semantic = ranking]
                  \/ rt' = [rt EXCEPT !.pc = "fuse", !.bm25 = ranking]
  <2>0. \E S \in SUBSET Chunk : \E ranking \in Rankings(S) : Adopts(ranking)
    BY <1>4 DEF SemanticSearch, Bm25Search
  <2>1. PICK S \in SUBSET Chunk : \E ranking \in Rankings(S) : Adopts(ranking)
    BY <2>0
  <2>2. PICK ranking \in Rankings(S) : Adopts(ranking)
    BY <2>1
  <2>4. Ranking(ranking)
    BY RankingsAre
  <2>3. /\ rt.pc # "idle" /\ rt'.pc \in {"bm25", "fuse"}
        /\ rt'.semantic \in {rt.semantic, ranking}
        /\ rt'.bm25 \in {rt.bm25, ranking}
        /\ rt'.alpha = rt.alpha /\ rt'.top = rt.top /\ rt'.fused = rt.fused
        /\ rt'.results = rt.results /\ rt'.label = rt.label
    BY <2>2 DEF Shape
  <2> QED
    BY <2>3, <2>4 DEF Scored, Searched, QualityPoor
<1>5. CASE RrfFuse
  <2>1. Searched /\ rt.pc = "fuse"
    BY <1>5 DEF RrfFuse, Scored
  <2>2. /\ rt'.pc \in {"rerank", "cut"} /\ (rt'.pc = "rerank" => rt.rerank)
        /\ rt'.rerank = rt.rerank
        /\ rt'.semantic = rt.semantic /\ rt'.bm25 = rt.bm25
        /\ rt'.alpha = rt.alpha /\ rt'.top = rt.top /\ rt'.fused = Fused
        /\ rt'.results = rt.results /\ rt'.label = rt.label
    BY <1>5 DEF RrfFuse, Shape
  <2>3. Fused' = Fused
    BY <2>2 DEF Fused, Found, MetAt, Rrf
  <2> QED
    BY <2>1, <2>2, <2>3, FusedLists DEF Scored, Searched, QualityPoor
<1>6. ASSUME NEW score \in [Chunk -> RerankScore], Rerank(score)
      PROVE  Scored'
  <2>1. Searched /\ rt.pc = "rerank" /\ rt.rerank /\ rt.top \in Nat
    BY <1>6 DEF Rerank, Scored
  <2>2. /\ rt'.pc = "cut" /\ rt'.rerank = rt.rerank
        /\ rt'.semantic = rt.semantic /\ rt'.bm25 = rt.bm25
        /\ rt'.alpha = rt.alpha /\ rt'.top = rt.top
        /\ rt'.fused = Reranked(score)
        /\ rt'.results = rt.results /\ rt'.label = rt.label
    BY <1>6 DEF Rerank, Shape
  <2> QED
    BY <2>1, <2>2, RerankedItems DEF Scored, Searched, QualityPoor
<1>7. CASE Cut
  <2> DEFINE results == rt.results \o First(rt.fused, rt.top)
             lost == rt.lost \cup Left(rt.fused, rt.top)
  <2>1. Searched /\ rt.pc = "cut" /\ rt.top \in Nat
    BY <1>7 DEF Cut, Scored
  <2>2. First(rt.fused, rt.top) \in Seq(Item)
    BY <2>1, FirstOf DEF Scored
  <2>3. results \in Seq(Item)
    BY <2>2, ConcatProperties DEF Scored
  <2> HIDE DEF results, lost
  <2>4. /\ rt'.pc \in {"semantic", "merge"}
        /\ rt'.semantic = <<>> /\ rt'.bm25 = <<>> /\ rt'.fused = <<>>
        /\ rt'.alpha \in {rt.alpha, 0} /\ rt'.top = rt.top
        /\ rt'.results = results /\ rt'.label \in {rt.label, "none"}
    <3>1. CASE rt' = [rt EXCEPT !.pc = "semantic", !.kbs = Tail(@),
                                !.semantic = <<>>, !.bm25 = <<>>,
                                !.fused = <<>>, !.results = results,
                                !.lost = lost]
      BY <3>1 DEF Shape
    <3>2. CASE rt' = [IdleRetrieval EXCEPT !.pc = "merge", !.top = rt.top,
                                !.rerank = rt.rerank, !.results = results,
                                !.lost = lost]
      BY <3>2 DEF IdleRetrieval
    <3> QED
      BY <1>7, <3>1, <3>2 DEF Cut, results, lost
  <2> QED
    BY <2>1, <2>3, <2>4, EmptyLists DEF Scored, Searched, QualityPoor
<1>8. CASE Merge
  <2>1. Searched /\ rt.pc = "merge" /\ rt.top \in Nat
    BY <1>8 DEF Merge, Scored
  <2>2. /\ rt'.pc = "score"
        /\ rt'.semantic = rt.semantic /\ rt'.bm25 = rt.bm25
        /\ rt'.alpha = rt.alpha /\ rt'.top = rt.top /\ rt'.fused = rt.fused
        /\ rt'.results = First(SortedResults(rt.results), rt.top)
        /\ rt'.label = rt.label
    BY <1>8 DEF Merge, Shape
  <2>3. rt'.results \in Seq(Item)
    BY <2>1, <2>2, MergedItems, FirstOf DEF Scored
  <2> QED
    BY <2>1, <2>2, <2>3 DEF Scored, Searched, QualityPoor
<1>9. CASE ScoreRetrieval
  <2>1. Searched /\ rt.pc = "score"
    BY <1>9 DEF ScoreRetrieval, Scored
  <2>2. /\ rt'.pc = "window"
        /\ rt'.semantic = rt.semantic /\ rt'.bm25 = rt.bm25
        /\ rt'.alpha = rt.alpha /\ rt'.top = rt.top /\ rt'.fused = rt.fused
        /\ rt'.results = rt.results /\ rt'.label = Quality(rt.results)
    BY <1>9 DEF ScoreRetrieval, Shape
  <2> QED
    BY <2>1, <2>2, PoorItems DEF Scored, Searched, QualityPoor
<1>10. ASSUME FormatEnds \/ \E text \in TextLengths : FormatResult(text)
       PROVE  Scored'
  <2>1. /\ rt.pc = "window" /\ rt'.pc \in {"window", "done"}
        /\ rt'.semantic = rt.semantic /\ rt'.bm25 = rt.bm25
        /\ rt'.alpha = rt.alpha /\ rt'.top = rt.top /\ rt'.fused = rt.fused
        /\ rt'.results = rt.results /\ rt'.label = rt.label
    BY <1>10, ZenonT(40) DEF FormatEnds, FormatResult, Shape
  <2> QED
    BY <2>1 DEF Scored, Searched, QualityPoor
<1> QED
  BY <1>1, <1>2, <1>3, <1>4, <1>5, <1>6, <1>7, <1>8, <1>9, <1>10
     DEF RetrievalNext

LEMMA ScoredInvariance == RetrievalSpec => [](RInv /\ Scored)
<1>1. RetrievalInit => Scored
  BY EmptyLists DEF RetrievalInit, IdleRetrieval, Scored, QualityPoor
<1>2. RInv => Shape
  BY DEF RInv
<1> QED
  BY <1>1, <1>2, RetrievalInitInv, RetrievalStep, ScoredStep, PTL
     DEF RetrievalSpec

(* The fusion puts what both lists prefer first and nothing twice, for     *)
(* every weight and any two rankings (FusedDominates).                     *)
THEOREM FusionDominates == RetrievalSpec => []FusedDominates
<1>1. RInv /\ Scored => FusedDominates
  BY FusedInOrder DEF Scored, FusedDominates
<1> QED
  BY <1>1, ScoredInvariance, PTL

(* No answer is ever labelled better than poor.                            *)
THEOREM AlwaysPoor == RetrievalSpec => []QualityPoor
<1>1. RInv /\ Scored => QualityPoor
  BY DEF Scored
<1> QED
  BY <1>1, ScoredInvariance, PTL

-----------------------------------------------------------------------------
(* What was cut from a knowledge base has top_k results that are as good,  *)
(* and those stay until the merge, which keeps the top_k best.             *)
Good(s, x) == {i \in DOMAIN s : s[i].hybrid >= x}

Covered ==
    /\ rt.lost \subseteq Nat
    /\ rt.pc \notin {"idle", "score", "window", "done"} /\ ~rt.rerank =>
          \A x \in rt.lost : Cardinality(Good(rt.results, x)) >= rt.top
    /\ BestKept

LEMMA HybridIs ==
  ASSUME NEW s \in Seq(Item)
  PROVE  /\ Len(s) \in Nat /\ DOMAIN s = 1 .. Len(s)
         /\ \A i \in 1 .. Len(s) : s[i].hybrid \in Nat
<1>1. Len(s) \in Nat /\ DOMAIN s = 1 .. Len(s)
  OBVIOUS
<1>2. \A i \in 1 .. Len(s) : s[i] \in Item
  OBVIOUS
<1> QED
  BY <1>1, <1>2, ItemIs

LEMMA GoodSize ==
  ASSUME NEW s \in Seq(Item), NEW x \in Nat
  PROVE  /\ Good(s, x) \in SUBSET (1 .. Len(s)) /\ IsFiniteSet(Good(s, x))
         /\ Cardinality(Good(s, x)) \in 0 .. Len(s)
<1>1. Len(s) \in Nat /\ Good(s, x) \in SUBSET (1 .. Len(s))
  BY HybridIs DEF Good
<1>2. IsFiniteSet(1 .. Len(s)) /\ Cardinality(1 .. Len(s)) = Len(s)
  BY <1>1, IntervalSize
<1>3. /\ IsFiniteSet(Good(s, x)) /\ Cardinality(Good(s, x)) \in Nat
      /\ Cardinality(Good(s, x)) <= Len(s)
  BY <1>1, <1>2, FS_Subset, FS_CardinalityType
<1> QED
  BY <1>1, <1>3

LEMMA FirstIs ==
  ASSUME NEW s \in Seq(Item), NEW n \in Nat
  PROVE  /\ First(s, n) \in Seq(Item)
         /\ Len(First(s, n)) = IF Len(s) < n THEN Len(s) ELSE n
         /\ \A i \in 1 .. Len(First(s, n)) : First(s, n)[i] = s[i]
<1> DEFINE m == IF Len(s) < n THEN Len(s) ELSE n
<1>1. m \in 0 .. Len(s) /\ Len(s) \in Nat
  OBVIOUS
<1>2. First(s, n) = SubSeq(s, 1, m)
  BY DEF First
<1> HIDE DEF m
<1>3. Len(SubSeq(s, 1, m)) = m /\ \A i \in 1 .. m : SubSeq(s, 1, m)[i] = s[i]
  BY <1>1, SubSeqProperties
<1> QED
  BY <1>2, <1>3, FirstOf DEF m

(* What has enough results keeps them when others are appended.            *)
LEMMA AppendedKeeps ==
  ASSUME NEW s \in Seq(Item), NEW t \in Seq(Item), NEW x \in Nat
  PROVE  Cardinality(Good(s \o t, x)) >= Cardinality(Good(s, x))
<1>1. /\ s \o t \in Seq(Item)
      /\ Len(s) \in Nat /\ Len(s \o t) = Len(s) + Len(t) /\ Len(t) \in Nat
      /\ \A i \in 1 .. Len(s) : (s \o t)[i] = s[i]
  BY ConcatProperties
<1>2. Good(s, x) \subseteq Good(s \o t, x)
  BY <1>1, HybridIs DEF Good
<1> QED
  BY <1>1, <1>2, GoodSize, FS_Subset

(* What is no better than any of the appended results has as many.         *)
LEMMA AppendedCovers ==
  ASSUME NEW s \in Seq(Item), NEW t \in Seq(Item), NEW x \in Nat,
         \A i \in 1 .. Len(t) : t[i].hybrid >= x
  PROVE  Cardinality(Good(s \o t, x)) >= Len(t)
<1> DEFINE places == (Len(s) + 1) .. (Len(s) + Len(t))
<1>1. /\ s \o t \in Seq(Item)
      /\ Len(s) \in Nat /\ Len(s \o t) = Len(s) + Len(t) /\ Len(t) \in Nat
      /\ \A i \in 1 .. Len(t) : (s \o t)[Len(s) + i] = t[i]
  BY ConcatProperties
<1>2. ASSUME NEW j \in places PROVE j \in Good(s \o t, x)
  <2>1. j - Len(s) \in 1 .. Len(t) /\ j = Len(s) + (j - Len(s))
    BY <1>1
  <2>2. (s \o t)[j] = t[j - Len(s)]
    BY <1>1, <2>1
  <2>3. j \in DOMAIN (s \o t)
    BY <1>1
  <2> QED
    BY <2>1, <2>2, <2>3 DEF Good
<1>3. IsFiniteSet(places) /\ Cardinality(places) = Len(t)
  <2>1. Len(s) + 1 \in Int /\ Len(s) + Len(t) \in Int
    BY <1>1
  <2>2. /\ IsFiniteSet(places)
        /\ Cardinality(places) = IF Len(s) + 1 > Len(s) + Len(t) THEN 0
                                 ELSE (Len(s) + Len(t)) - (Len(s) + 1) + 1
    BY <2>1, FS_Interval
  <2> HIDE DEF places
  <2> QED
    BY <1>1, <2>2
<1> HIDE DEF places
<1>4. places \in SUBSET Good(s \o t, x)
  BY <1>2
<1> QED
  BY <1>1, <1>3, <1>4, GoodSize, FS_Subset

(* What the sort of the merge returns.                                     *)
LEMMA ResultsDescend ==
  ASSUME NEW s \in Seq(Item)
  PROVE  /\ SortedResults(s) \in Seq(Item)
         /\ Len(SortedResults(s)) = Len(s)
         /\ \E order \in [1 .. Len(s) -> 1 .. Len(s)] :
               /\ \A i \in 1 .. Len(s) : \E n \in 1 .. Len(s) : order[n] = i
               /\ \A n \in 1 .. Len(s) : SortedResults(s)[n] = s[order[n]]
               /\ \A m, n \in 1 .. Len(s) : m <= n =>
                     SortedResults(s)[m].hybrid >= SortedResults(s)[n].hybrid
<1> DEFINE keys == [i \in DOMAIN s |-> s[i].hybrid]
<1>1. keys \in [1 .. Len(s) -> Int] /\ SortedResults(s) = SortedBy(s, keys)
  BY HybridKeys DEF SortedResults
<1>2. \A i \in 1 .. Len(s) : keys[i] = s[i].hybrid
  BY HybridKeys
<1> HIDE DEF keys
<1>3. /\ SortedBy(s, keys) \in Seq(Item) /\ Len(SortedBy(s, keys)) = Len(s)
      /\ \E order \in [1 .. Len(s) -> 1 .. Len(s)] :
            /\ \A i \in 1 .. Len(s) : \E n \in 1 .. Len(s) : order[n] = i
            /\ \A n \in 1 .. Len(s) : SortedBy(s, keys)[n] = s[order[n]]
            /\ \A m, n \in 1 .. Len(s) :
                  m <= n => keys[order[m]] >= keys[order[n]]
  BY <1>1, SortedByOrder
<1>4. PICK order \in [1 .. Len(s) -> 1 .. Len(s)] :
        /\ \A i \in 1 .. Len(s) : \E n \in 1 .. Len(s) : order[n] = i
        /\ \A n \in 1 .. Len(s) : SortedBy(s, keys)[n] = s[order[n]]
        /\ \A m, n \in 1 .. Len(s) :
              m <= n => keys[order[m]] >= keys[order[n]]
  BY <1>3
<1>5. \A n \in 1 .. Len(s) : keys[order[n]] = SortedBy(s, keys)[n].hybrid
  BY <1>2, <1>4
<1>6. \A m, n \in 1 .. Len(s) : m <= n =>
         SortedBy(s, keys)[m].hybrid >= SortedBy(s, keys)[n].hybrid
  BY <1>4, <1>5
<1>7. /\ SortedResults(s) \in Seq(Item) /\ Len(SortedResults(s)) = Len(s)
      /\ \A n \in 1 .. Len(s) : SortedResults(s)[n] = s[order[n]]
      /\ \A m, n \in 1 .. Len(s) : m <= n =>
            SortedResults(s)[m].hybrid >= SortedResults(s)[n].hybrid
  <2>1. SortedBy(s, keys) = SortedResults(s)
    BY <1>1
  <2> QED
    BY <2>1, <1>3, <1>4, <1>6
<1> QED
  BY <1>4, <1>7, Zenon

(* The merge keeps the best.                                               *)
LEMMA MergeKeeps ==
  ASSUME NEW s \in Seq(Item), NEW top \in Nat
  PROVE  LET sorted == SortedResults(s)
             kept == First(sorted, top)
         IN  \A x \in Nat :
                 x \in Left(sorted, top) \/ Cardinality(Good(s, x)) >= top =>
                     /\ Len(kept) = top
                     /\ \A i \in 1 .. Len(kept) : kept[i].hybrid >= x
<1> DEFINE N == Len(s)
           sorted == SortedResults(s)
           kept == First(sorted, top)
<1>1. N \in Nat /\ DOMAIN s = 1 .. N /\ \A i \in 1 .. N : s[i].hybrid \in Nat
  BY HybridIs
<1>2. sorted \in Seq(Item) /\ Len(sorted) = N
  BY ResultsDescend
<1>3. PICK order \in [1 .. N -> 1 .. N] :
        /\ \A i \in 1 .. N : \E n \in 1 .. N : order[n] = i
        /\ \A n \in 1 .. N : sorted[n] = s[order[n]]
        /\ \A m, n \in 1 .. N : m <= n => sorted[m].hybrid >= sorted[n].hybrid
  BY ResultsDescend
<1> HIDE DEF sorted
<1>4. DOMAIN sorted = 1 .. N /\ \A n \in 1 .. N : sorted[n].hybrid \in Nat
  BY <1>2, HybridIs
<1>5. \A m, n \in 1 .. N : m <= n => sorted[m].hybrid >= sorted[n].hybrid
  BY <1>3
<1>6. /\ Len(kept) = IF N < top THEN N ELSE top
      /\ \A i \in 1 .. Len(kept) : kept[i] = sorted[i]
  BY <1>2, FirstIs
<1> HIDE DEF kept
<1>7. ASSUME NEW x \in Nat, x \in Left(sorted, top)
      PROVE  /\ Len(kept) = top
             /\ \A i \in 1 .. Len(kept) : kept[i].hybrid >= x
  <2>1. PICK j \in DOMAIN sorted : j > top /\ x = sorted[j].hybrid
    BY <1>7 DEF Left
  <2>2. j \in 1 .. N
    BY <1>4, <2>1
  <2> HIDE DEF N
  <2>3. Len(kept) = top /\ \A i \in 1 .. top : i \in 1 .. N /\ i <= j
    BY <1>1, <1>6, <2>1, <2>2
  <2> QED
    BY <1>5, <1>6, <2>1, <2>2, <2>3
<1> HIDE DEF N
<1>8. ASSUME NEW x \in Nat, Cardinality(Good(s, x)) >= top
      PROVE  /\ Len(kept) = top
             /\ \A i \in 1 .. Len(kept) : kept[i].hybrid >= x
  <2>1. N \in Nat /\ Cardinality(Good(s, x)) \in 0 .. N
    BY <1>1, GoodSize DEF N
  <2>2. Len(kept) = top /\ top <= N
    BY <1>6, <1>8, <2>1
  <2>3. SUFFICES ASSUME NEW i \in 1 .. top, sorted[i].hybrid < x
                 PROVE  FALSE
    <3>1. \A i \in 1 .. top : i \in 1 .. N /\ kept[i] = sorted[i]
      BY <1>6, <2>1, <2>2
    <3> QED
      BY <1>4, <2>2, <3>1
  <2> DEFINE before == 1 .. (i - 1)
             names == [n \in before |-> order[n]]
             image == {names[n] : n \in before}
  <2>4. i \in 1 .. N /\ i - 1 \in Nat /\ i - 1 < top
    BY <2>1, <2>2
  <2>5. ASSUME NEW y \in Good(s, x) PROVE y \in image
    <3>1. y \in 1 .. N /\ s[y].hybrid >= x
      BY <1>1 DEF Good, N
    <3>2. PICK n \in 1 .. N : order[n] = y
      BY <1>3, <3>1
    <3>3. sorted[n].hybrid >= x
      BY <1>3, <3>1, <3>2 DEF N
    <3>4. ~(i <= n)
      BY <1>4, <1>5, <2>3, <2>4, <3>3
    <3>5. n \in before
      BY <2>4, <3>4
    <3> QED
      BY <3>2, <3>5
  <2>6. /\ IsFiniteSet(before) /\ Cardinality(before) = i - 1
    BY <2>4, IntervalSize
  <2> HIDE DEF before
  <2>7. IsFiniteSet(image) /\ Cardinality(image) <= i - 1
    <3>1. names \in Surjection(before, image)
      BY DEF Surjection
    <3> HIDE DEF names, image
    <3> QED
      BY <2>6, <3>1, FS_Surjection
  <2> HIDE DEF image
  <2>8. Good(s, x) \in SUBSET image
    BY <2>5
  <2>9. Cardinality(Good(s, x)) <= Cardinality(image)
    BY <2>7, <2>8, FS_Subset
  <2>10. Cardinality(image) \in Nat
    BY <2>7, FS_CardinalityType
  <2> QED
    BY <1>8, <2>1, <2>4, <2>7, <2>9, <2>10
<1> QED
  BY <1>7, <1>8 DEF kept, sorted

LEMMA FusedDescends ==
  ASSUME Searched
  PROVE  \A m, n \in DOMAIN Fused :
             m <= n => Fused[m].hybrid >= Fused[n].hybrid
<1> DEFINE score == [c \in Found |-> Rrf(c)]
           at == [c \in Found |-> MetAt(c)]
<1>1. /\ Fused \in Seq(Item)
      /\ \A n \in DOMAIN Fused : /\ Fused[n].chunk \in Found
                                 /\ Fused[n].hybrid = Rrf(Fused[n].chunk)
      /\ \A m, n \in DOMAIN Fused :
            m < n => Ahead(score, at, Fused[m].chunk, Fused[n].chunk)
  BY FusedLists
<1>2. \A n \in DOMAIN Fused : /\ score[Fused[n].chunk] = Fused[n].hybrid
                              /\ Fused[n].hybrid \in Nat
  BY <1>1, RrfBounds, HybridIs
<1> HIDE DEF score, at
<1>3. ASSUME NEW m \in DOMAIN Fused, NEW n \in DOMAIN Fused, m <= n
      PROVE  Fused[m].hybrid >= Fused[n].hybrid
  <2>1. m \in Nat /\ n \in Nat
    BY <1>1, HybridIs
  <2>2. CASE m = n
    BY <1>2, <2>2
  <2>3. CASE m < n
    BY <1>1, <1>2, <2>3 DEF Ahead
  <2> QED
    BY <1>3, <2>1, <2>2, <2>3
<1> QED
  BY <1>3

(* A cut leaves out nothing that is better than what it keeps.             *)
LEMMA CutCovers ==
  ASSUME NEW s \in Seq(Item), NEW top \in Nat, NEW results \in Seq(Item),
         \A m, n \in DOMAIN s : m <= n => s[m].hybrid >= s[n].hybrid,
         NEW x \in Left(s, top)
  PROVE  x \in Nat /\ Cardinality(Good(results \o First(s, top), x)) >= top
<1>1. PICK j \in DOMAIN s : j > top /\ x = s[j].hybrid
  BY DEF Left
<1>2. /\ Len(s) \in Nat /\ j \in 1 .. Len(s) /\ x \in Nat
      /\ DOMAIN s = 1 .. Len(s)
  BY <1>1, HybridIs
<1>3. /\ First(s, top) \in Seq(Item)
      /\ Len(First(s, top)) = IF Len(s) < top THEN Len(s) ELSE top
      /\ \A i \in 1 .. Len(First(s, top)) : First(s, top)[i] = s[i]
  BY FirstIs
<1>4. Len(First(s, top)) = top
  <2> DEFINE n == Len(s)
             k == Len(First(s, top))
  <2>1. n \in Nat /\ j \in 1 .. n /\ j > top /\ top \in Nat
    BY <1>1, <1>2
  <2>2. k = IF n < top THEN n ELSE top
    BY <1>3
  <2> HIDE DEF n, k
  <2>3. k = top
    BY <2>1, <2>2
  <2> QED
    BY <2>3 DEF k
<1>5. \A i \in 1 .. top : i \in DOMAIN s /\ i <= j
  BY <1>1, <1>2
<1>6. \A i \in 1 .. top : s[i].hybrid >= x
  BY <1>1, <1>5
<1>7. \A i \in 1 .. Len(First(s, top)) : First(s, top)[i].hybrid >= x
  BY <1>3, <1>4, <1>6
<1> QED
  BY <1>2, <1>3, <1>4, <1>7, AppendedCovers

LEMMA CoveredStep ==
  ASSUME Shape, Scored, Scored', Covered, [RetrievalNext]_rt
  PROVE  Covered'
<1>1. CASE UNCHANGED rt
  BY <1>1 DEF Covered, BestKept, Good
<1>2. CASE RetrievalFails \/ Respond
  BY <1>2 DEF RetrievalFails, Respond, IdleRetrieval, Covered, BestKept
<1>3. ASSUME NEW of, NEW filter, NEW match, NEW kbs, NEW top, NEW alpha,
             NEW rerank, Request(of, filter, match, kbs, top, alpha, rerank)
      PROVE  Covered'
  BY <1>3 DEF Request, IdleRetrieval, Covered, BestKept
<1>4. CASE \/ SemanticSearch \/ Bm25Search \/ RrfFuse
           \/ \E score \in [Chunk -> RerankScore] : Rerank(score)
  <2>1. /\ rt.pc \in {"semantic", "bm25", "fuse", "rerank"}
        /\ rt'.pc \in {"bm25", "fuse", "rerank", "cut"}
        /\ rt'.results = rt.results /\ rt'.lost = rt.lost
        /\ rt'.top = rt.top /\ rt'.rerank = rt.rerank
    <3>1. CASE SemanticSearch
      BY <3>1 DEF SemanticSearch, Shape
    <3>2. CASE Bm25Search
      BY <3>2 DEF Bm25Search, Shape
    <3>3. CASE RrfFuse
      BY <3>3 DEF RrfFuse, Shape
    <3>4. ASSUME NEW score, Rerank(score)
          PROVE  /\ rt.pc = "rerank" /\ rt'.pc = "cut"
                 /\ rt'.results = rt.results /\ rt'.lost = rt.lost
                 /\ rt'.top = rt.top /\ rt'.rerank = rt.rerank
      BY <3>4 DEF Rerank, Shape
    <3> QED
      BY <1>4, <3>1, <3>2, <3>3, <3>4
  <2> QED
    BY <2>1 DEF Covered, BestKept, Good
<1>5. CASE Cut
  <2> DEFINE results == rt.results \o First(rt.fused, rt.top)
             lost == rt.lost \cup Left(rt.fused, rt.top)
  <2>1. /\ rt.pc = "cut" /\ Searched /\ rt.top \in Nat
        /\ rt.fused \in Seq(Item) /\ rt.results \in Seq(Item)
        /\ ~rt.rerank => rt.fused = Fused
    BY <1>5 DEF Cut, Scored
  <2>2. /\ rt'.pc \in {"semantic", "merge"}
        /\ rt'.results = results /\ rt'.lost = lost
        /\ rt'.top = rt.top /\ rt'.rerank = rt.rerank
    <3> HIDE DEF results, lost
    <3>1. CASE rt' = [rt EXCEPT !.pc = "semantic", !.kbs = Tail(@),
                                !.semantic = <<>>, !.bm25 = <<>>,
                                !.fused = <<>>, !.results = results,
                                !.lost = lost]
      BY <3>1 DEF Shape
    <3>2. CASE rt' = [IdleRetrieval EXCEPT !.pc = "merge", !.top = rt.top,
                                !.rerank = rt.rerank, !.results = results,
                                !.lost = lost]
      BY <3>2 DEF IdleRetrieval
    <3> QED
      BY <1>5, <3>1, <3>2 DEF Cut, results, lost
  <2>3. lost \subseteq Nat
    <3>1. Left(rt.fused, rt.top) \subseteq Nat
      BY <2>1, HybridIs DEF Left
    <3> QED
      BY <3>1 DEF Covered
  <2>4. ASSUME ~rt.rerank, NEW x \in lost
        PROVE  Cardinality(Good(results, x)) >= rt.top
    <3>1. CASE x \in rt.lost
      <4>1. x \in Nat /\ Cardinality(Good(rt.results, x)) >= rt.top
        BY <2>1, <2>4, <3>1 DEF Covered
      <4>2. First(rt.fused, rt.top) \in Seq(Item)
        BY <2>1, FirstIs
      <4>3. results \in Seq(Item)
        BY <2>1, <4>2, ConcatProperties
      <4>4. Cardinality(Good(results, x)) >= Cardinality(Good(rt.results, x))
        BY <2>1, <4>1, <4>2, AppendedKeeps
      <4>5. Cardinality(Good(rt.results, x)) \in Nat
        <5>1. Cardinality(Good(rt.results, x)) \in 0 .. Len(rt.results)
          BY <2>1, <4>1, GoodSize
        <5> QED
          BY <2>1, <5>1, HybridIs
      <4>6. Cardinality(Good(results, x)) \in Nat
        <5> HIDE DEF results
        <5>1. Cardinality(Good(results, x)) \in 0 .. Len(results)
          BY <4>1, <4>3, GoodSize
        <5> QED
          BY <4>3, <5>1, HybridIs
      <4> HIDE DEF results
      <4> QED
        BY <2>1, <4>1, <4>4, <4>5, <4>6
    <3>2. CASE x \in Left(rt.fused, rt.top)
      <4>1. \A m, n \in DOMAIN rt.fused :
                m <= n => rt.fused[m].hybrid >= rt.fused[n].hybrid
        BY <2>1, <2>4, FusedDescends
      <4> QED
        BY <2>1, <3>2, <4>1, CutCovers
    <3> QED
      BY <2>4, <3>1, <3>2
  <2> HIDE DEF results, lost
  <2> QED
    BY <2>2, <2>3, <2>4 DEF Covered, BestKept, Good
<1>6. CASE Merge
  <2> DEFINE sorted == SortedResults(rt.results)
             kept == First(sorted, rt.top)
             left == Left(sorted, rt.top)
  <2>1. /\ rt.pc = "merge" /\ rt.top \in Nat /\ rt.results \in Seq(Item)
    BY <1>6 DEF Merge, Scored
  <2>2. sorted \in Seq(Item)
    BY <2>1, MergedItems
  <2>3. left \subseteq Nat
    <3> HIDE DEF sorted
    <3> QED
      BY <2>2, HybridIs DEF Left
  <2>4. \A x \in Nat :
            x \in left \/ Cardinality(Good(rt.results, x)) >= rt.top =>
                /\ Len(kept) = rt.top
                /\ \A i \in 1 .. Len(kept) : kept[i].hybrid >= x
    BY <2>1, MergeKeeps
  <2>5. DOMAIN kept = 1 .. Len(kept)
    <3> HIDE DEF sorted
    <3> QED
      BY <2>1, <2>2, FirstIs
  <2>6. /\ rt'.pc = "score" /\ rt'.results = kept
        /\ rt'.lost = rt.lost \cup left
        /\ rt'.top = rt.top /\ rt'.rerank = rt.rerank
    <3> HIDE DEF sorted, kept, left
    <3>1. rt' = [rt EXCEPT !.pc = "score", !.results = kept,
                           !.lost = rt.lost \cup left]
      BY <1>6 DEF Merge, sorted, kept, left
    <3> QED
      BY <3>1 DEF Shape
  <2> HIDE DEF sorted, kept, left
  <2>7. rt'.lost \subseteq Nat
    BY <2>3, <2>6 DEF Covered
  <2>8. ASSUME ~rt.rerank, NEW x \in rt'.lost
        PROVE  /\ Len(kept) = rt.top
               /\ \A i \in 1 .. Len(kept) : kept[i].hybrid >= x
    <3>1. x \in Nat
      BY <2>7
    <3>2. x \in rt.lost => Cardinality(Good(rt.results, x)) >= rt.top
      BY <2>1, <2>8 DEF Covered
    <3> QED
      BY <2>4, <2>6, <3>1, <3>2
  <2>9. BestKept'
    BY <2>5, <2>6, <2>8 DEF BestKept
  <2> QED
    BY <2>6, <2>7, <2>9 DEF Covered
<1>7. CASE \/ ScoreRetrieval \/ FormatEnds
           \/ \E text \in TextLengths : FormatResult(text)
  <2>1. /\ rt.pc \in {"score", "window"} /\ rt'.pc \in {"window", "done"}
        /\ rt'.results = rt.results /\ rt'.lost = rt.lost
        /\ rt'.top = rt.top /\ rt'.rerank = rt.rerank
    BY <1>7, ZenonT(40) DEF ScoreRetrieval, FormatEnds, FormatResult, Shape
  <2> QED
    BY <2>1 DEF Covered, BestKept
<1> QED
  BY <1>1, <1>2, <1>3, <1>4, <1>5, <1>6, <1>7 DEF RetrievalNext

(* An answer that was not reranked holds the best of what was found in all *)
(* of its knowledge bases, whatever the rankings and the limits.           *)
THEOREM BestResultsKept == RetrievalSpec => []BestKept
<1>1. RetrievalInit => Covered
  BY DEF RetrievalInit, IdleRetrieval, Covered, BestKept
<1>2. RInv => Shape
  BY DEF RInv
<1>3. Covered => BestKept
  BY DEF Covered
<1> QED
  BY <1>1, <1>2, <1>3, ScoredInvariance, CoveredStep, PTL DEF RetrievalSpec

=============================================================================
