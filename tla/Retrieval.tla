----------------------------- MODULE Retrieval -----------------------------
(***************************************************************************)
(* One retrieval: POST /rag/retrieve, HybridRetrievalService.retrieve, the *)
(* vector search, the reranker, and the context window of the answer.      *)
(*                                                                         *)
(* For every knowledge base of its context a request searches the vectors  *)
(* and the BM25 corpus, fuses the two rankings by reciprocal rank, reranks *)
(* them, and cuts them.  The results of all are then merged by their fused *)
(* score and laid into a text of bounded length.  Requests share nothing   *)
(* here: the corpus that they do share is CorpusCache's.                   *)
(***************************************************************************)
EXTENDS Integers, Sequences, SequencesExt, FiniteSets

CONSTANTS
    Chunk,         \* chunk_id of the rows of document_vectors
    Kb,
    TopHybrid,     \* settings.rag.top_k_hybrid
    TopFinal,      \* the values of top_k
    Weights,       \* the values of alpha, in tenths
    MaxContext,    \* max_context_chars
    MinTail,       \* shortest text worth a cut
    Header,        \* length of the header of a result
    TextLengths    \* lengths of the text of a result

VARIABLE rt

ASSUME RetrievalAssumption ==
    /\ TopHybrid \in 1 .. 100 /\ TopFinal \subseteq Nat \ {0}
    /\ Weights \subseteq 0 .. 10
    /\ MaxContext \in Nat /\ MinTail \in Nat
    /\ Header \in Nat \ {0} /\ TextLengths \subseteq Nat

(* (chunk_id, embedding_model) is unique and no search names a model: when *)
(* chunks were indexed by two models, a list may hold a chunk twice.       *)
Rankings(eligible) ==
    {s \in SeqOf(eligible, TopHybrid) :
        \A i, j, k \in DOMAIN s :
            s[i] = s[j] /\ s[j] = s[k] => i = j \/ j = k \/ i = k}

(* The place of x: a better score is ahead, and a tie is ordered by at.    *)
Place(items, score, at, x) ==
    Cardinality({y \in items : \/ score[y] > score[x]
                               \/ score[y] = score[x] /\ at[y] <= at[x]})
Ordered(items, score, at) ==
    [n \in 1 .. Cardinality(items) |->
        CHOOSE x \in items : Place(items, score, at, x) = n]

(* Positions are kept among items with the same key, as Python's sort does.*)
SortedBy(s, key) ==
    LET order == Ordered(DOMAIN s, key, [i \in DOMAIN s |-> i])
    IN  [n \in DOMAIN s |-> s[order[n]]]

First(s, n) == SubSeq(s, 1, IF Len(s) < n THEN Len(s) ELSE n)

-----------------------------------------------------------------------------
(* A request: the knowledge base of each row, the filter it sets and the   *)
(* rows that pass it, the knowledge bases still to search.                 *)
Filter == {"none", "document_type", "document_id", "user_id"}
IdleRetrieval ==
    [pc |-> "idle", of |-> <<>>, filter |-> "none", match |-> {},
     kbs |-> <<>>, top |-> 0, alpha |-> 0, rerank |-> FALSE,
     semantic |-> <<>>, bm25 |-> <<>>, fused |-> <<>>,
     results |-> <<>>, lost |-> {}, label |-> "none",
     next |-> 1, total |-> 0, parts |-> 0, length |-> 0]

RetrievalInit == rt = IdleRetrieval

(* get_context, build_filters: a context has one or two knowledge bases.   *)
Contexts == {s \in SeqOf(Kb, 2) : s # <<>> /\ (Len(s) = 2 => s[1] # s[2])}

Request(of, filter, match, kbs, top, alpha, rerank) ==
    /\ rt.pc = "idle"
    /\ filter = "none" => match = Chunk
    /\ rt' = [IdleRetrieval EXCEPT
          !.pc = "semantic", !.of = of, !.filter = filter, !.match = match,
          !.kbs = kbs, !.top = top, !.alpha = alpha, !.rerank = rerank]

(* upsert_chunks writes is_indexed = false, and nothing ever sets it.      *)
Indexed(c) == FALSE

(* "kb AND is_indexed = true OR is_indexed = false AND filters": the two   *)
(* sides of an OR without parentheses.  semantic_search has no parameter   *)
(* for a document_id.                                                      *)
Selected(c) ==
    \/ rt.of[c] = Head(rt.kbs) /\ Indexed(c)
    \/ ~Indexed(c) /\ (rt.filter # "document_id" => c \in rt.match)

SemanticSearch ==
    /\ rt.pc = "semantic"
    /\ \E ranking \in Rankings({c \in Chunk : Selected(c)}) :
           rt' = [rt EXCEPT !.pc = "bm25", !.semantic = ranking]

(* The corpus is the one of the knowledge base; of the filters only those  *)
(* of the document are looked at.                                          *)
Held(c) ==
    /\ rt.of[c] = Head(rt.kbs)
    /\ rt.filter \in {"document_type", "document_id"} => c \in rt.match

Bm25Search ==
    /\ rt.pc = "bm25"
    /\ \E ranking \in Rankings({c \in Chunk : Held(c)}) :
           rt' = [rt EXCEPT !.pc = "fuse", !.bm25 = ranking]

(* Mutant: the constant of the fusion is left out.                         *)
RrfZero == 0
RrfK == 60

(* Scores are multiples of 1 / (10 * Unit): exact for the first four ranks,*)
(* and different for each two of the ranks that TopHybrid may ask for.     *)
Unit == 61 * 62 * 63 * 64
Share(rank) == Unit \div (RrfK + rank)

Places(s, c) == {i \in DOMAIN s : s[i] = c}
RankIn(s, c) == CHOOSE i \in Places(s, c) : \A j \in Places(s, c) : i <= j
LastIn(s, c) == CHOOSE i \in Places(s, c) : \A j \in Places(s, c) : i >= j
ShareIn(s, c) ==
    IF c \notin Range(s) THEN 0
    ELSE IF LastIn(s, c) = RankIn(s, c) THEN Share(RankIn(s, c))
    ELSE Share(RankIn(s, c)) + Share(LastIn(s, c))

(* Mutant: the contribution of BM25 replaces the one of the vectors.       *)
RrfReplaced(c) ==
    IF c \in Range(rt.bm25) THEN (10 - rt.alpha) * ShareIn(rt.bm25, c)
    ELSE rt.alpha * ShareIn(rt.semantic, c)
Rrf(c) == rt.alpha * ShareIn(rt.semantic, c)
            + (10 - rt.alpha) * ShareIn(rt.bm25, c)

(* The order in which _rrf_fuse meets the chunks decides a tie.            *)
Found == Range(rt.semantic) \cup Range(rt.bm25)
MetAt(c) ==
    IF c \in Range(rt.semantic) THEN RankIn(rt.semantic, c)
    ELSE Len(rt.semantic) + RankIn(rt.bm25, c)

Fused ==
    LET order == Ordered(Found, [c \in Found |-> Rrf(c)],
                         [c \in Found |-> MetAt(c)])
    IN  [n \in DOMAIN order |->
            [chunk |-> order[n], hybrid |-> Rrf(order[n])]]

RrfFuse ==
    /\ rt.pc = "fuse"
    /\ rt' = [rt EXCEPT
          !.pc = IF rt.rerank /\ Found # {} THEN "rerank" ELSE "cut",
          !.fused = Fused]

(* The reranker scores the first TopHybrid and returns the best of them;   *)
(* what it did not return sorts with score 0, and the scores of a          *)
(* cross-encoder may be negative.                                          *)
RerankScore == {-1, 1}

Reranked(score) ==
    LET Scores(s) == [i \in DOMAIN s |-> score[s[i].chunk]]
        candidates == First(rt.fused, TopHybrid)
        returned == Range(First(SortedBy(candidates, Scores(candidates)), rt.top))
    IN  SortedBy(rt.fused, [i \in DOMAIN rt.fused |->
            IF rt.fused[i] \in returned THEN Scores(rt.fused)[i] ELSE 0])

Rerank(score) ==
    /\ rt.pc = "rerank"
    /\ rt' = [rt EXCEPT !.pc = "cut", !.fused = Reranked(score)]

(* The scores that a cut of s after n leaves out (for the property below). *)
Left(s, n) == {s[i].hybrid : i \in {j \in DOMAIN s : j > n}}

(* The next knowledge base is searched, or the answer is put together,     *)
(* for which what was searched is of no more use.                          *)
Cut ==
    LET results == rt.results \o First(rt.fused, rt.top)
        lost == rt.lost \cup Left(rt.fused, rt.top)
    IN  /\ rt.pc = "cut"
        /\ rt' = IF Len(rt.kbs) > 1
                 THEN [rt EXCEPT !.pc = "semantic", !.kbs = Tail(@),
                                 !.semantic = <<>>, !.bm25 = <<>>,
                                 !.fused = <<>>, !.results = results,
                                 !.lost = lost]
                 ELSE [IdleRetrieval EXCEPT !.pc = "merge", !.top = rt.top,
                                 !.rerank = rt.rerank, !.results = results,
                                 !.lost = lost]

(* Mutant: the answer is filled in the order of the knowledge bases.       *)
UnsortedResults(found) == found

(* all_results.sort(key=hybrid_score, reverse=True)                        *)
SortedResults(found) ==
    SortedBy(found, [i \in DOMAIN found |-> found[i].hybrid])

Merge ==
    LET sorted == SortedResults(rt.results)
    IN  /\ rt.pc = "merge"
        /\ rt' = [rt EXCEPT !.pc = "score", !.results = First(sorted, rt.top),
                            !.lost = @ \cup Left(sorted, rt.top)]

Sum(s) == FoldLeft(LAMBDA x, y : x + y.hybrid, 0, s)

(* top is the best score, and average the mean: the thresholds are tenths. *)
Quality(s) ==
    LET top == s[1].hybrid
        average == Sum(s) \div Len(s)
    IN  IF s = <<>> THEN "poor"
        ELSE IF top >= 7 * Unit /\ average >= 5 * Unit THEN "excellent"
        ELSE IF top >= 5 * Unit /\ average >= (35 * Unit) \div 10 THEN "good"
        ELSE IF top >= 3 * Unit THEN "fair"
        ELSE "poor"

ScoreRetrieval ==
    /\ rt.pc = "score"
    /\ rt' = [rt EXCEPT !.pc = "window", !.label = Quality(rt.results)]

-----------------------------------------------------------------------------
(* Mutant: the line break and the dots of a cut text are not counted.      *)
RemainingRaw(total) == MaxContext - total - Header
Remaining(total) == MaxContext - total - Header - 4

(* The parts are joined by two line breaks.                                *)
Lengthened(size) == IF rt.parts = 0 THEN size ELSE rt.length + 2 + size

(* One turn of the loop of format_context_window.                          *)
FormatResult(text) ==
    LET size == Header + 1 + text
        rest == Remaining(rt.total)
    IN  /\ rt.pc = "window"
        /\ rt.next <= Len(rt.results)
        /\ \/ /\ rt.total + size <= MaxContext
              /\ rt' = [rt EXCEPT !.next = @ + 1, !.parts = @ + 1,
                                  !.length = Lengthened(size),
                                  !.total = @ + size + 2]
           \/ /\ rt.total + size > MaxContext
              /\ rest > MinTail
              /\ rt' = [rt EXCEPT !.pc = "done", !.parts = @ + 1,
                           !.length = Lengthened(Header + 1 + rest + 3)]
           \/ /\ rt.total + size > MaxContext
              /\ rest <= MinTail
              /\ rt' = [rt EXCEPT !.pc = "done"]

FormatEnds ==
    /\ rt.pc = "window"
    /\ rt.next > Len(rt.results)
    /\ rt' = [rt EXCEPT !.pc = "done"]

(* The embedding, PostgreSQL or the reranker raises: status 500.           *)
RetrievalFails ==
    /\ rt.pc \in {"semantic", "bm25", "rerank"}
    /\ rt' = IdleRetrieval

Respond ==
    /\ rt.pc = "done"
    /\ rt' = IdleRetrieval

RetrievalNext ==
    \/ \E of \in [Chunk -> Kb], filter \in Filter, match \in SUBSET Chunk,
          kbs \in Contexts, top \in TopFinal, alpha \in Weights,
          rerank \in BOOLEAN :
              Request(of, filter, match, kbs, top, alpha, rerank)
    \/ SemanticSearch
    \/ Bm25Search
    \/ RrfFuse
    \/ \E score \in [Chunk -> RerankScore] : Rerank(score)
    \/ Cut
    \/ Merge
    \/ ScoreRetrieval
    \/ \E text \in TextLengths : FormatResult(text)
    \/ FormatEnds
    \/ RetrievalFails
    \/ Respond

RetrievalSpec == RetrievalInit /\ [][RetrievalNext]_rt

-----------------------------------------------------------------------------
(* c is behind d in no list and ahead of it in one, and no list holds d    *)
(* twice; a chunk that a list does not hold is behind those it holds.      *)
Behind(s, c, d) ==
    d \in Range(s) /\ (c \in Range(s) => RankIn(s, c) > RankIn(s, d))
Repeated(s, c) == c \in Range(s) /\ LastIn(s, c) # RankIn(s, c)
Dominates(c, d) ==
    /\ ~Behind(rt.semantic, c, d) /\ ~Behind(rt.bm25, c, d)
    /\ Behind(rt.semantic, d, c) \/ Behind(rt.bm25, d, c)
    /\ ~Repeated(rt.semantic, d) /\ ~Repeated(rt.bm25, d)

(* "merges two ranked lists": for every weight, and with ties and chunks   *)
(* that only one list holds, a chunk that both lists prefer is fused       *)
(* before the other, unless a list holds the other twice and adds up its   *)
(* shares, and no chunk is fused twice (_rrf_fuse).                        *)
FusedDominates ==
    rt.pc = "rerank" \/ (rt.pc = "cut" /\ ~rt.rerank) =>
        /\ \A m, n \in DOMAIN rt.fused :
              Dominates(rt.fused[m].chunk, rt.fused[n].chunk) => m < n
        /\ \A m, n \in DOMAIN rt.fused :
              rt.fused[m].chunk = rt.fused[n].chunk => m = n

(* Each knowledge base gives its top_k best and the answer is the top_k    *)
(* best of those: without a reranker no result of an answer is worse than  *)
(* anything found and left out on the way, and nothing is left out of an   *)
(* answer that has a place (retrieve, the endpoint's merge).               *)
BestKept ==
    rt.pc \in {"score", "window", "done"} /\ ~rt.rerank =>
        /\ \A score \in rt.lost, i \in DOMAIN rt.results :
               rt.results[i].hybrid >= score
        /\ rt.lost # {} => Len(rt.results) = rt.top

(* Every answer is labelled "poor": the labels were made for similarities  *)
(* and are given to fused scores, which are below 1/30 (score_retrieval,   *)
(* _rrf_fuse).                                                             *)
QualityPoor == rt.label \in {"none", "poor"}

(* "Truncates to max_chars": the context window is never longer, with the  *)
(* separators and the dots of a cut result (format_context_window).        *)
ContextFits == rt.length <= MaxContext

(* "knowledge_base: KB name to search within": what a search returns is of *)
(* the knowledge base it was asked for (retrieve).                         *)
SearchedWithin ==
    \A c \in Range(rt.semantic) \cup Range(rt.bm25) :
        rt.of[c] = Head(rt.kbs)

=============================================================================
