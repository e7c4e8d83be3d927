------------------------- MODULE CorpusCacheProofs --------------------------
(***************************************************************************)
(* Proofs about CorpusCache for any finite set of documents, any knowledge *)
(* bases and any number of overlapping requests.                           *)
(***************************************************************************)
EXTENDS CorpusCache, FiniteSetTheorems, TLAPS

(* Requests under way have what their steps use, and of the requests that  *)
(* write a document at most one holds its rows.                            *)
RequestOK(r) ==
    /\ req[r].op = "search" =>
           /\ req[r].kb \in Kb
           /\ req[r].pc \in {"get", "select", "set"}
           /\ req[r].rows \X {req[r].kb} \subseteq entered
    /\ req[r].op \in {"index", "delete"} =>
           /\ req[r].kb \in Kb /\ req[r].doc \in Doc
           /\ req[r].pc \in {"write", "invalidate", "stats", "commit"}
    /\ req[r].op = "none" => req[r].pc = "idle"
    /\ req[r].held => req[r].op \in {"index", "delete"}
    /\ req[r].aborted => req[r].pc = "commit"
    /\ req[r].op = "delete" => req[r].pc # "stats"
    /\ req[r].held /\ req[r].op = "delete"
           => vectors[req[r].doc] \in Kb /\ ~req[r].aborted

HoldersDiffer ==
    \A q, r \in Request :
        /\ req[q].held /\ ~req[q].aborted
        /\ req[r].held /\ ~req[r].aborted
        /\ req[q].doc = req[r].doc
        => q = r

VectorsEntered ==
    \A d \in Doc : vectors[d] \in Kb => <<d, vectors[d]>> \in entered

(* Why a stale corpus is excused: the rows that a search has read are the  *)
(* present ones unless a write overlapped it, and a write that has         *)
(* invalidated the corpus finds none when it commits.                      *)
OverlapExcused ==
    \A q, r \in Request, kb \in Kb :
        Searching(q, kb) /\ Writing(r, kb) => kb \in excused
RowsFresh ==
    \A r \in Request : req[r].op = "search" /\ req[r].pc = "set" =>
        req[r].rows = Content(req[r].kb) \/ req[r].kb \in excused
InvalidatedFirst ==
    \A r \in Request :
        req[r].op \in {"index", "delete"} /\ req[r].pc \in {"stats", "commit"}
            => corpus[req[r].kb] = {} \/ req[r].kb \in excused

Shape == TypeOK /\ (\A r \in Request : RequestOK(r)) /\ HoldersDiffer
Freshness == OverlapExcused /\ RowsFresh /\ InvalidatedFirst /\ StaleExcused
IInv == Shape /\ VectorsEntered /\ CorpusCommitted /\ Freshness /\ CountCovers


-----------------------------------------------------------------------------
LEMMA IdleIsWellTyped == IdleRequest \in RequestState
  BY DEF IdleRequest, RequestState, Op, Pc

LEMMA InitIInv == Init => IInv
<1> SUFFICES ASSUME Init PROVE IInv
  OBVIOUS
<1>1. Shape
  BY IdleIsWellTyped
     DEF Init, Shape, TypeOK, RequestOK, HoldersDiffer, IdleRequest
<1>2. VectorsEntered /\ CorpusCommitted
  BY CorpusAssumption DEF Init, VectorsEntered, CorpusCommitted
<1>3. Freshness
  BY DEF Init, Freshness, OverlapExcused, RowsFresh, InvalidatedFirst,
         StaleExcused, IdleRequest, Searching, Writing
<1>4. CountCovers
  <2>1. ASSUME NEW kb \in Kb
        PROVE  chunk_count[kb] >= Cardinality(Content(kb))
    <3>1. Content(kb) = {} /\ chunk_count[kb] = 0
      BY CorpusAssumption DEF Init, Content
    <3> QED
      BY <3>1, FS_EmptySet
  <2> QED
    BY <2>1 DEF CountCovers
<1> QED
  BY <1>1, <1>2, <1>3, <1>4 DEF IInv

-----------------------------------------------------------------------------
(* Steps of one request that neither commit nor fill a corpus: what the    *)
(* request becomes is all there is to look at.                             *)
LEMMA RequestStep ==
  ASSUME IInv, NEW r \in Request,
         UNCHANGED <<vectors, chunk_count, entered>>,
         writes' \in Nat, faults' \in Nat,
         corpus' \in [Kb -> SUBSET Doc],
         \A kb \in Kb : corpus'[kb] \in {{}, corpus[kb]},
         excused \subseteq excused', excused' \subseteq Kb,
         req' \in [Request -> RequestState],
         \A q \in Request \ {r} : req'[q] = req[q],
         RequestOK(r)',
         req'[r].held /\ ~req'[r].aborted =>
             \A q \in Request \ {r} :
                 ~(req[q].held /\ ~req[q].aborted /\ req[q].doc = req'[r].doc),
         \A q \in Request \ {r}, kb \in Kb :
             \/ Searching(r, kb)' /\ Writing(q, kb)
             \/ Searching(q, kb) /\ Writing(r, kb)'
             => kb \in excused',
         req'[r].op = "search" /\ req'[r].pc = "set" =>
             req'[r].rows = Content(req'[r].kb) \/ req'[r].kb \in excused',
         req'[r].op \in {"index", "delete"} /\ req'[r].pc \in {"stats", "commit"}
             => corpus'[req'[r].kb] = {} \/ req'[r].kb \in excused'
  PROVE  IInv'
<1>1. TypeOK'
  BY DEF IInv, Shape, TypeOK
<1>2. \A q \in Request : RequestOK(q)'
  BY DEF IInv, Shape, RequestOK
<1>3. HoldersDiffer'
  BY DEF IInv, Shape, HoldersDiffer
<1>4. VectorsEntered' /\ CountCovers'
  BY DEF IInv, VectorsEntered, CountCovers, Content
<1>5. CorpusCommitted'
  BY DEF IInv, CorpusCommitted
<1>6. OverlapExcused'
  BY DEF IInv, Freshness, OverlapExcused, Searching, Writing
<1>7. RowsFresh'
  BY DEF IInv, Freshness, RowsFresh, Content
<1>8. InvalidatedFirst'
  <2>1. \A q \in Request \ {r} :
          req[q].op \in {"index", "delete"} => req[q].kb \in Kb
    BY DEF IInv, Shape, RequestOK
  <2> QED
    BY <2>1 DEF IInv, Freshness, InvalidatedFirst
<1>9. StaleExcused'
  BY DEF IInv, Freshness, StaleExcused, Content
<1> QED
  BY <1>1, <1>2, <1>3, <1>4, <1>5, <1>6, <1>7, <1>8, <1>9
     DEF IInv, Shape, Freshness

-----------------------------------------------------------------------------
LEMMA WriteArrivesStep ==
  ASSUME IInv, NEW r \in Request, NEW op \in {"index", "delete"},
         NEW d \in Doc, NEW kb \in Kb, WriteArrives(r, op, d, kb)
  PROVE  IInv'
<1> USE DEF WriteArrives, Arrive
<1>1. TypeOK /\ excused' \subseteq Kb /\ writes' \in Nat /\ excused \subseteq excused'
  BY DEF IInv, Shape, TypeOK
<1> DEFINE next == [IdleRequest EXCEPT !.op = op, !.pc = "write",
                                       !.doc = d, !.kb = kb]
<1>2. /\ next \in RequestState /\ next.op = op /\ next.pc = "write"
      /\ next.doc = d /\ next.kb = kb /\ ~next.held /\ ~next.aborted
  BY DEF IdleRequest, RequestState, Op, Pc
<1>3. req' = [req EXCEPT ![r] = next]
  OBVIOUS
<1> HIDE DEF next
<1>4. /\ req' \in [Request -> RequestState] /\ req'[r] = next
      /\ \A q \in Request \ {r} : req'[q] = req[q]
  BY <1>1, <1>2, <1>3 DEF TypeOK
<1>5. RequestOK(r)'
  BY <1>2, <1>4 DEF RequestOK
<1>6. \A q \in Request : Searching(q, kb) => kb \in excused'
  OBVIOUS
<1> QED
  BY <1>1, <1>2, <1>4, <1>5, <1>6, RequestStep, ZenonT(40)
     DEF TypeOK, Searching, Writing

LEMMA SearchArrivesStep ==
  ASSUME IInv, NEW r \in Request, NEW kb \in Kb, SearchArrives(r, kb)
  PROVE  IInv'
<1> USE DEF SearchArrives, Arrive
<1>1. TypeOK /\ excused' \subseteq Kb /\ excused \subseteq excused'
  BY DEF IInv, Shape, TypeOK
<1> DEFINE next == [IdleRequest EXCEPT !.op = "search", !.pc = "get",
                                       !.doc = NoDoc, !.kb = kb]
<1>2. /\ next \in RequestState /\ next.op = "search" /\ next.pc = "get"
      /\ next.kb = kb /\ ~next.held /\ ~next.aborted /\ next.rows = {}
  BY DEF IdleRequest, RequestState, Op, Pc
<1>3. req' = [req EXCEPT ![r] = next]
  OBVIOUS
<1> HIDE DEF next
<1>4. /\ req' \in [Request -> RequestState] /\ req'[r] = next
      /\ \A q \in Request \ {r} : req'[q] = req[q]
  BY <1>1, <1>2, <1>3 DEF TypeOK
<1>5. RequestOK(r)'
  BY <1>2, <1>4 DEF RequestOK
<1>6. \A q \in Request : Writing(q, kb) => kb \in excused'
  OBVIOUS
<1> QED
  BY <1>1, <1>2, <1>4, <1>5, <1>6, RequestStep, CorpusAssumption
     DEF TypeOK, counters, Searching, Writing

(* The end of a request that commits nothing and fills no corpus.          *)
LEMMA EndStep ==
  ASSUME IInv, NEW r \in Request, End(r),
         UNCHANGED <<vectors, chunk_count, corpus, writes, entered, excused>>,
         faults' \in Nat
  PROVE  IInv'
<1>1. TypeOK
  BY DEF IInv, Shape
<1>2. /\ req' \in [Request -> RequestState] /\ req'[r] = IdleRequest
      /\ \A q \in Request \ {r} : req'[q] = req[q]
  BY <1>1, IdleIsWellTyped DEF TypeOK, End
<1>3. /\ IdleRequest.op = "none" /\ IdleRequest.pc = "idle"
      /\ ~IdleRequest.held /\ ~IdleRequest.aborted
  BY DEF IdleRequest
<1>4. RequestOK(r)'
  BY <1>2, <1>3 DEF RequestOK
<1> QED
  BY <1>1, <1>2, <1>3, <1>4, RequestStep DEF TypeOK, Searching, Writing

(* Steps that only move a request on, or make it hold its rows.            *)
LEMMA WriterStep ==
  ASSUME IInv, NEW r \in Request,
         \/ UpsertChunks(r) \/ DeleteDocumentVectors(r)
         \/ UpdateKbStats(r) \/ UpdateKbStatsFails(r)
         \/ InvalidateCache(r) \/ InvalidateFails(r)
  PROVE  IInv'
<1>1. /\ TypeOK /\ RequestOK(r) /\ req[r] \in RequestState
      /\ req \in [Request -> RequestState]
  BY DEF IInv, Shape, TypeOK
<1>2. ASSUME req[r].op \in {"index", "delete"}, ~req[r].aborted,
             NEW pc \in {"invalidate", "stats", "commit"},
             req'[r].pc = pc,
             req' \in [Request -> RequestState],
             \A q \in Request \ {r} : req'[q] = req[q],
             req'[r].op = req[r].op,
             req'[r].doc = req[r].doc, req'[r].kb = req[r].kb,
             req'[r].held => req[r].held \/ DocFree(r, req[r].doc),
             req'[r].aborted => pc = "commit",
             req[r].op = "delete" => pc # "stats",
             req'[r].held /\ req[r].op = "delete" =>
                 vectors[req[r].doc] \in Kb /\ ~req'[r].aborted,
             UNCHANGED <<vectors, chunk_count, entered, writes>>,
             faults' \in Nat,
             \/ corpus' = [corpus EXCEPT ![req[r].kb] = {}]
             \/ corpus' = corpus,
             excused' \in {excused, excused \cup {req[r].kb}},
             pc \in {"stats", "commit"} =>
                 corpus'[req[r].kb] = {} \/ req[r].kb \in excused'
      PROVE  IInv'
  <2>2. req[r].kb \in Kb /\ req[r].doc \in Doc
    BY <1>1, <1>2 DEF RequestOK
  <2>3. RequestOK(r)'
    BY <1>1, <1>2, <2>2 DEF RequestOK
  <2>4. corpus' \in [Kb -> SUBSET Doc]
        /\ \A kb \in Kb : corpus'[kb] \in {{}, corpus[kb]}
    BY <1>1, <1>2 DEF TypeOK
  <2>5. req'[r].held /\ ~req'[r].aborted =>
          \A q \in Request \ {r} :
              ~(req[q].held /\ ~req[q].aborted /\ req[q].doc = req'[r].doc)
    BY <1>2 DEF DocFree, IInv, Shape, HoldersDiffer
  <2>6. \A q \in Request \ {r}, kb \in Kb :
            \/ Searching(r, kb)' /\ Writing(q, kb)
            \/ Searching(q, kb) /\ Writing(r, kb)'
            => kb \in excused'
    BY <1>2 DEF Searching, Writing, IInv, Freshness, OverlapExcused
  <2>7. excused \subseteq excused' /\ excused' \subseteq Kb /\ writes' \in Nat
    BY <1>1, <1>2, <2>2 DEF TypeOK
  <2>8. req'[r].op # "search" /\
        (req'[r].pc \in {"stats", "commit"} =>
            corpus'[req'[r].kb] = {} \/ req'[r].kb \in excused')
    BY <1>2
  <2> QED
    BY ONLY IInv, <1>2, <2>3, <2>4, <2>5, <2>6, <2>7, <2>8, RequestStep
<1>3. UNCHANGED faults \/ faults' = faults + 1 => faults' \in Nat
  BY <1>1 DEF TypeOK
<1>4. CASE UpsertChunks(r)
  <2> USE DEF UpsertChunks, counters
  <2>1. req[r].op = "index" /\ ~req[r].aborted
    BY <1>1, <1>4 DEF RequestOK
  <2>2. /\ req' \in [Request -> RequestState]
        /\ req'[r] = [req[r] EXCEPT !.pc = "invalidate", !.held = TRUE]
        /\ \A q \in Request \ {r} : req'[q] = req[q]
    BY <1>1, <1>4 DEF RequestState, Pc
  <2>3. /\ req'[r].pc = "invalidate" /\ req'[r].op = req[r].op
        /\ req'[r].doc = req[r].doc /\ req'[r].kb = req[r].kb
        /\ req'[r].aborted = req[r].aborted
    BY <1>1, <2>2 DEF RequestState
  <2> QED
    BY <1>2, <1>3, <1>4, <2>1, <2>2, <2>3
<1>5. CASE DeleteDocumentVectors(r)
  <2> USE DEF DeleteDocumentVectors, counters
  <2> DEFINE found == vectors[req[r].doc] # NoKb
  <2>1. req[r].op = "delete" /\ ~req[r].aborted /\ req[r].doc \in Doc
    BY <1>1, <1>5 DEF RequestOK
  <2>2. /\ req' \in [Request -> RequestState]
        /\ req'[r] = [req[r] EXCEPT !.pc = "invalidate", !.held = found]
        /\ \A q \in Request \ {r} : req'[q] = req[q]
    BY <1>1, <1>5 DEF RequestState, Pc
  <2>3. /\ req'[r].pc = "invalidate" /\ req'[r].op = req[r].op
        /\ req'[r].doc = req[r].doc /\ req'[r].kb = req[r].kb
        /\ req'[r].aborted = req[r].aborted /\ req'[r].held = found
    BY <1>1, <2>2 DEF RequestState
  <2>4. found => vectors[req[r].doc] \in Kb /\ DocFree(r, req[r].doc)
    BY <1>1, <1>5, <2>1 DEF TypeOK
  <2> HIDE DEF found
  <2> QED
    BY <1>2, <1>3, <1>5, <2>1, <2>2, <2>3, <2>4
<1>6. ASSUME req[r].pc \in {"invalidate", "stats"}
      PROVE  req[r].op \in {"index", "delete"} /\ ~req[r].aborted
  BY <1>1, <1>6 DEF RequestOK, RequestState, Op
<1>7. ASSUME NEW pc \in {"stats", "commit"}, Goto(r, pc)
      PROVE  /\ req' \in [Request -> RequestState]
             /\ \A q \in Request \ {r} : req'[q] = req[q]
             /\ req'[r].pc = pc /\ req'[r].op = req[r].op
             /\ req'[r].doc = req[r].doc /\ req'[r].kb = req[r].kb
             /\ req'[r].aborted = req[r].aborted
             /\ req'[r].held = req[r].held
  BY <1>1, <1>7 DEF Goto, RequestState, Pc
<1>8. /\ AfterInvalidate(r) \in {"stats", "commit"}
      /\ req[r].op = "delete" => AfterInvalidate(r) # "stats"
  BY DEF AfterInvalidate
<1>9. req[r].held /\ req[r].op = "delete" =>
          vectors[req[r].doc] \in Kb /\ ~req[r].aborted
  BY <1>1 DEF RequestOK
<1>10. CASE InvalidateCache(r)
  <2> USE DEF InvalidateCache, counters
  <2>1. req[r].kb \in Kb
    BY <1>1, <1>6, <1>10 DEF RequestOK
  <2>2. corpus'[req[r].kb] = {}
    BY <1>1, <1>10, <2>1 DEF TypeOK
  <2> QED
    BY <1>2, <1>3, <1>6, <1>7, <1>8, <1>9, <1>10, <2>2
<1>11. CASE InvalidateFails(r)
  BY <1>2, <1>3, <1>6, <1>7, <1>8, <1>9, <1>11 DEF InvalidateFails, Fault
<1>12. ASSUME req[r].pc = "stats"
       PROVE  corpus[req[r].kb] = {} \/ req[r].kb \in excused
  BY <1>6, <1>12 DEF IInv, Freshness, InvalidatedFirst
<1>13. CASE UpdateKbStats(r)
  BY <1>2, <1>3, <1>6, <1>7, <1>9, <1>12, <1>13 DEF UpdateKbStats, counters
<1>14. CASE UpdateKbStatsFails(r)
  <2> USE DEF UpdateKbStatsFails, Fault
  <2>1. req[r].op = "index" /\ ~req[r].aborted
    BY <1>1, <1>6, <1>14 DEF RequestOK
  <2>2. /\ req' \in [Request -> RequestState]
        /\ req'[r] = [req[r] EXCEPT !.pc = "commit", !.aborted = TRUE]
        /\ \A q \in Request \ {r} : req'[q] = req[q]
    BY <1>1, <1>14 DEF RequestState, Pc
  <2>3. /\ req'[r].pc = "commit" /\ req'[r].op = req[r].op
        /\ req'[r].doc = req[r].doc /\ req'[r].kb = req[r].kb
        /\ req'[r].aborted /\ req'[r].held = req[r].held
    BY <1>1, <2>2 DEF RequestState
  <2> QED
    BY <1>2, <1>3, <1>12, <1>14, <2>1, <2>2, <2>3
<1> QED
  BY <1>4, <1>5, <1>10, <1>11, <1>13, <1>14

-----------------------------------------------------------------------------
(* Steps of a search that leave the corpora alone.                         *)
LEMMA ReaderStep ==
  ASSUME IInv, NEW r \in Request,
         CacheGet(r) \/ CacheGetFails(r) \/ BuildFromDb(r)
  PROVE  IInv'
<1>1. /\ TypeOK /\ RequestOK(r) /\ req[r] \in RequestState
      /\ req \in [Request -> RequestState]
  BY DEF IInv, Shape, TypeOK
<1>2. faults' \in Nat /\ writes' = writes
      /\ UNCHANGED <<vectors, chunk_count, corpus, entered, excused>>
  BY <1>1 DEF TypeOK, CacheGet, CacheGetFails, BuildFromDb, Fault, counters
<1>3. /\ req[r].op = "search" /\ req[r].kb \in Kb /\ ~req[r].held
      /\ ~req[r].aborted
  BY <1>1 DEF RequestOK, RequestState, Op, CacheGet, CacheGetFails, BuildFromDb
<1>4. ASSUME req' \in [Request -> RequestState],
             \A q \in Request \ {r} : req'[q] = req[q],
             req'[r].op = "search", req'[r].kb = req[r].kb,
             ~req'[r].held, ~req'[r].aborted,
             \/ req'[r].pc = "select" /\ req'[r].rows = req[r].rows
             \/ req'[r].pc = "set" /\ req'[r].rows = Content(req[r].kb)
      PROVE  IInv'
  <2>1. Content(req[r].kb) \X {req[r].kb} \subseteq entered
    BY <1>3 DEF IInv, VectorsEntered, Content
  <2>2. RequestOK(r)'
    BY <1>1, <1>2, <1>3, <1>4, <2>1 DEF RequestOK
  <2>3. \A q \in Request \ {r}, kb \in Kb :
            \/ Searching(r, kb)' /\ Writing(q, kb)
            \/ Searching(q, kb) /\ Writing(r, kb)'
            => kb \in excused'
    BY <1>2, <1>3, <1>4
       DEF Searching, Writing, IInv, Freshness, OverlapExcused
  <2>4. writes' \in Nat /\ excused' \subseteq Kb /\ excused \subseteq excused'
        /\ corpus' \in [Kb -> SUBSET Doc]
        /\ \A kb \in Kb : corpus'[kb] \in {{}, corpus[kb]}
    BY <1>1, <1>2 DEF TypeOK
  <2>5. req'[r].pc # "set" \/ req'[r].rows = Content(req'[r].kb)
    BY <1>4
  <2> QED
    BY ONLY IInv, <1>2, <1>4, <2>2, <2>3, <2>4, <2>5, RequestStep
<1>5. ASSUME Goto(r, "select") PROVE IInv'
  <2>1. /\ req' \in [Request -> RequestState]
        /\ req'[r] = [req[r] EXCEPT !.pc = "select"]
        /\ \A q \in Request \ {r} : req'[q] = req[q]
    BY <1>1, <1>5 DEF Goto, RequestState, Pc
  <2> QED
    BY <1>1, <1>3, <1>4, <2>1 DEF RequestState
<1>6. ASSUME req' = [req EXCEPT ![r].pc = "set",
                                ![r].rows = Content(req[r].kb)]
      PROVE IInv'
  <2>1. Content(req[r].kb) \in SUBSET Doc
    BY DEF Content
  <2> DEFINE next == [req[r] EXCEPT !.pc = "set", !.rows = Content(req[r].kb)]
  <2>2. /\ next \in RequestState /\ next.op = req[r].op
        /\ next.kb = req[r].kb /\ next.held = req[r].held
        /\ next.aborted = req[r].aborted /\ next.pc = "set"
        /\ next.rows = Content(req[r].kb)
    BY <1>1, <2>1 DEF RequestState, Pc
  <2>3. req' = [req EXCEPT ![r] = next]
    BY <1>6
  <2> HIDE DEF next
  <2>4. /\ req' \in [Request -> RequestState] /\ req'[r] = next
        /\ \A q \in Request \ {r} : req'[q] = req[q]
    BY <1>1, <2>2, <2>3
  <2> QED
    BY <1>3, <1>4, <2>2, <2>4
<1>7. ASSUME End(r) PROVE IInv'
  BY <1>2, <1>7, EndStep
<1>8. CASE CacheGet(r)
  BY <1>5, <1>7, <1>8 DEF CacheGet
<1>9. CASE CacheGetFails(r)
  BY <1>5, <1>9 DEF CacheGetFails
<1>10. CASE BuildFromDb(r)
  BY <1>6, <1>7, <1>10 DEF BuildFromDb
<1> QED
  BY <1>8, <1>9, <1>10

(* A filled corpus holds what the search has read.                         *)
LEMMA CacheSetStep ==
  ASSUME IInv, NEW r \in Request, CacheSet(r)
  PROVE  IInv'
<1> USE DEF CacheSet, counters
<1>1. /\ TypeOK /\ RequestOK(r) /\ req[r] \in RequestState
  BY DEF IInv, Shape, TypeOK
<1>2. /\ req[r].op = "search" /\ req[r].kb \in Kb /\ req[r].rows \in SUBSET Doc
      /\ req[r].rows \X {req[r].kb} \subseteq entered
  BY <1>1 DEF RequestOK, RequestState, Op
<1>3. /\ req' \in [Request -> RequestState] /\ req'[r] = IdleRequest
      /\ \A q \in Request \ {r} : req'[q] = req[q]
  BY <1>1, IdleIsWellTyped DEF TypeOK, End
<1>4. /\ IdleRequest.op = "none" /\ IdleRequest.pc = "idle"
      /\ ~IdleRequest.held /\ ~IdleRequest.aborted
  BY DEF IdleRequest
<1>5. /\ corpus' \in [Kb -> SUBSET Doc]
      /\ corpus'[req[r].kb] = req[r].rows
      /\ \A kb \in Kb \ {req[r].kb} : corpus'[kb] = corpus[kb]
  BY <1>1, <1>2 DEF TypeOK
<1>6. TypeOK'
  BY <1>1, <1>3, <1>5 DEF TypeOK
<1>7. \A q \in Request : RequestOK(q)'
  BY <1>3, <1>4 DEF RequestOK, IInv, Shape
<1>8. HoldersDiffer'
  BY <1>3, <1>4 DEF HoldersDiffer, IInv, Shape
<1>9. VectorsEntered' /\ CountCovers'
  BY DEF IInv, VectorsEntered, CountCovers, Content
<1>10. CorpusCommitted'
  <2> SUFFICES ASSUME NEW kb \in Kb PROVE corpus'[kb] \X {kb} \subseteq entered
    BY DEF CorpusCommitted
  <2> QED
    BY <1>2, <1>5 DEF IInv, CorpusCommitted
<1>11. OverlapExcused'
  BY <1>3, <1>4 DEF OverlapExcused, Searching, Writing, IInv, Freshness
<1>12. RowsFresh'
  BY <1>3, <1>4 DEF RowsFresh, Content, IInv, Freshness
<1>13. InvalidatedFirst'
  <2> SUFFICES ASSUME NEW q \in Request,
                      req'[q].op \in {"index", "delete"},
                      req'[q].pc \in {"stats", "commit"}
               PROVE  corpus'[req'[q].kb] = {} \/ req'[q].kb \in excused
    BY DEF InvalidatedFirst
  <2>1. q # r /\ req'[q] = req[q] /\ req[q].kb \in Kb
    BY <1>3, <1>4 DEF IInv, Shape, RequestOK
  <2>2. CASE req[q].kb = req[r].kb
    BY <1>2, <2>1, <2>2
       DEF IInv, Freshness, OverlapExcused, Searching, Writing
  <2>3. CASE req[q].kb # req[r].kb
    BY <1>5, <2>1, <2>3 DEF IInv, Freshness, InvalidatedFirst
  <2> QED
    BY <2>2, <2>3
<1>14. StaleExcused'
  <2> SUFFICES ASSUME NEW kb \in Kb
               PROVE  corpus'[kb] \in {{}, Content(kb)} \/ kb \in excused
    BY DEF StaleExcused, Content
  <2>1. CASE kb = req[r].kb
    BY <1>2, <1>5, <2>1 DEF IInv, Freshness, RowsFresh
  <2>2. CASE kb # req[r].kb
    BY <1>5, <2>2 DEF IInv, Freshness, StaleExcused
  <2> QED
    BY <2>1, <2>2
<1> QED
  BY <1>6, <1>7, <1>8, <1>9, <1>10, <1>11, <1>12, <1>13, <1>14
     DEF IInv, Shape, Freshness

-----------------------------------------------------------------------------
(* What a commit may do to the rows of one knowledge base.                 *)
LEMMA CommitRows ==
  ASSUME IInv, NEW r \in Request, Commit(r)
  PROVE  /\ vectors' \in [Doc -> Kb \cup {NoKb}]
         /\ chunk_count' \in [Kb -> Nat]
         /\ excused \subseteq excused' /\ excused' \subseteq Kb
         /\ \A kb \in Kb : \/ Content(kb)' = Content(kb)
                           \/ kb \in excused' \/ kb = req[r].kb
         /\ \A kb \in Kb :
                \/ /\ Content(kb)' \subseteq Content(kb)
                   /\ chunk_count'[kb] >= chunk_count[kb]
                \/ /\ Content(kb)' = Content(kb) \cup {req[r].doc}
                   /\ chunk_count'[kb] = chunk_count[kb] + 1
         /\ \A d \in Doc : vectors[d] \in Kb =>
                vectors'[d] \in Kb
                \/ (d = req[r].doc /\ req[r].held /\ ~req[r].aborted)
<1> USE DEF Commit
<1>1. /\ TypeOK /\ RequestOK(r) /\ req[r] \in RequestState
  BY DEF IInv, Shape, TypeOK
<1>2. /\ req[r].op \in {"index", "delete"}
      /\ req[r].kb \in Kb /\ req[r].doc \in Doc
      /\ req[r].held /\ req[r].op = "delete" =>
             vectors[req[r].doc] \in Kb /\ ~req[r].aborted
  BY <1>1 DEF RequestOK, RequestState, Op
<1>3. chunk_count' \in [Kb -> Nat]
      /\ \A kb \in Kb : chunk_count'[kb] >= chunk_count[kb]
  BY <1>1, <1>2 DEF TypeOK, Counted
<1>4. CASE ~req[r].held \/ req[r].aborted
  <2>1. vectors' = vectors /\ excused' = excused
    BY <1>2, <1>4 DEF Written
  <2> QED
    BY <1>1, <1>3, <2>1 DEF TypeOK, Content
<1>5. CASE req[r].held /\ ~req[r].aborted /\ req[r].op = "delete"
  <2>1. /\ vectors' = [vectors EXCEPT ![req[r].doc] = NoKb]
        /\ excused' = excused \cup ({vectors[req[r].doc]} \ {req[r].kb})
    BY <1>5 DEF Written
  <2>2. vectors[req[r].doc] \in Kb
    BY <1>2, <1>5
  <2>3. /\ vectors' \in [Doc -> Kb \cup {NoKb}]
        /\ \A d \in Doc \ {req[r].doc} : vectors'[d] = vectors[d]
        /\ vectors'[req[r].doc] = NoKb
    BY <1>1, <1>2, <2>1 DEF TypeOK
  <2>4. excused \subseteq excused' /\ excused' \subseteq Kb
    BY <1>1, <2>1, <2>2 DEF TypeOK
  <2>5. \A kb \in Kb : Content(kb)' \subseteq Content(kb)
    BY <2>3, CorpusAssumption DEF Content
  <2>6. ASSUME NEW kb \in Kb, kb # vectors[req[r].doc]
        PROVE  Content(kb)' = Content(kb)
    BY <2>3, <2>6, CorpusAssumption DEF Content
  <2> QED
    BY <1>2, <1>3, <1>5, <2>1, <2>3, <2>4, <2>5, <2>6
<1>6. CASE req[r].held /\ ~req[r].aborted /\ req[r].op = "index"
  <2>1. /\ vectors' = [vectors EXCEPT ![req[r].doc] =
                          IF @ = NoKb THEN req[r].kb ELSE @]
        /\ excused' = excused
        /\ chunk_count' = [chunk_count EXCEPT ![req[r].kb] = @ + 1]
    BY <1>6 DEF Written, Counted
  <2>2. CASE vectors[req[r].doc] # NoKb
    <3>1. vectors' = vectors
      BY <1>1, <1>2, <2>1, <2>2 DEF TypeOK
    <3>2. \A kb \in Kb : Content(kb)' = Content(kb)
      BY <3>1 DEF Content
    <3>3. vectors' \in [Doc -> Kb \cup {NoKb}] /\ excused \subseteq Kb
      BY <1>1, <3>1 DEF TypeOK
    <3> HIDE DEF Commit
    <3> QED
      BY <1>3, <2>1, <3>1, <3>2, <3>3
  <2>3. CASE vectors[req[r].doc] = NoKb
    <3>1. /\ vectors' \in [Doc -> Kb \cup {NoKb}]
          /\ \A d \in Doc \ {req[r].doc} : vectors'[d] = vectors[d]
          /\ vectors'[req[r].doc] = req[r].kb
      <4>1. /\ vectors \in [Doc -> Kb \cup {NoKb}]
            /\ vectors' = [vectors EXCEPT ![req[r].doc] = req[r].kb]
        BY <1>1, <2>1, <2>3 DEF TypeOK
      <4> HIDE DEF Commit
      <4> QED
        BY <1>2, <4>1
    <3>2. \A kb \in Kb : kb = req[r].kb =>
              Content(kb)' = Content(kb) \cup {req[r].doc}
      BY <1>2, <3>1 DEF Content
    <3>3. \A kb \in Kb \ {req[r].kb} : Content(kb)' = Content(kb)
      BY <1>2, <2>3, <3>1, CorpusAssumption DEF Content
    <3>4. chunk_count'[req[r].kb] = chunk_count[req[r].kb] + 1
      BY <1>1, <1>2, <2>1 DEF TypeOK
    <3>5. excused' \subseteq Kb
      BY <1>1, <2>1 DEF TypeOK
    <3> HIDE DEF Commit
    <3>6. \A d \in Doc : vectors[d] \in Kb => vectors'[d] \in Kb
      BY <1>2, <2>3, <3>1
    <3>7. \A kb \in Kb : Content(kb)' = Content(kb) \/ kb = req[r].kb
      BY <3>3
    <3>8. \A kb \in Kb :
             \/ /\ Content(kb)' \subseteq Content(kb)
                /\ chunk_count'[kb] >= chunk_count[kb]
             \/ /\ Content(kb)' = Content(kb) \cup {req[r].doc}
                /\ chunk_count'[kb] = chunk_count[kb] + 1
      BY <1>3, <3>2, <3>3, <3>4
    <3> QED
      BY <1>3, <2>1, <3>1, <3>5, <3>6, <3>7, <3>8
  <2> QED
    BY <2>2, <2>3
<1> QED
  BY <1>2, <1>4, <1>5, <1>6

LEMMA CommitStep ==
  ASSUME IInv, NEW r \in Request, Commit(r)
  PROVE  IInv'
<1>1. /\ TypeOK /\ RequestOK(r) /\ req[r] \in RequestState
  BY DEF IInv, Shape, TypeOK
<1>2. /\ req[r].op \in {"index", "delete"} /\ req[r].pc = "commit"
      /\ req[r].kb \in Kb /\ req[r].doc \in Doc
  BY <1>1 DEF RequestOK, RequestState, Op, Commit
<1>3. /\ req' \in [Request -> RequestState] /\ req'[r] = IdleRequest
      /\ \A q \in Request \ {r} : req'[q] = req[q]
  BY <1>1, IdleIsWellTyped DEF TypeOK, End, Commit
<1>4. /\ IdleRequest.op = "none" /\ IdleRequest.pc = "idle"
      /\ ~IdleRequest.held /\ ~IdleRequest.aborted
  BY DEF IdleRequest
<1>5. UNCHANGED <<corpus, writes, faults>>
  BY DEF Commit, counters
<1>6. /\ entered \subseteq entered' /\ entered' \subseteq Doc \X Kb
      /\ \A d \in Doc : vectors'[d] \in Kb => <<d, vectors'[d]>> \in entered'
  <2>1. entered' = entered \cup
           {<<d, vectors'[d]>> : d \in {x \in Doc : vectors'[x] # NoKb}}
    BY DEF Commit
  <2>2. vectors' \in [Doc -> Kb \cup {NoKb}]
    BY CommitRows
  <2> QED
    BY <1>1, <2>1, <2>2, CorpusAssumption DEF TypeOK
<1>7. TypeOK'
  BY <1>1, <1>3, <1>5, <1>6, CommitRows DEF TypeOK
<1>8. ASSUME NEW q \in Request PROVE RequestOK(q)'
  <2>1. CASE q = r
    BY <1>3, <1>4, <2>1 DEF RequestOK
  <2>2. CASE q # r
    <3>1. RequestOK(q) /\ req'[q] = req[q]
      BY <1>3, <2>2 DEF IInv, Shape
    <3>2. ASSUME req[q].held, req[q].op = "delete"
          PROVE  vectors'[req[q].doc] \in Kb /\ ~req[q].aborted
      <4>1. /\ vectors[req[q].doc] \in Kb /\ ~req[q].aborted
            /\ req[q].doc \in Doc
        BY <3>1, <3>2 DEF RequestOK
      <4>2. ~(req[q].doc = req[r].doc /\ req[r].held /\ ~req[r].aborted)
        BY <2>2, <3>2, <4>1 DEF IInv, Shape, HoldersDiffer
      <4> QED
        BY <4>1, <4>2, CommitRows
    <3> QED
      BY <1>6, <3>1, <3>2 DEF RequestOK
  <2> QED
    BY <2>1, <2>2
<1>9. HoldersDiffer'
  BY <1>3, <1>4 DEF HoldersDiffer, IInv, Shape
<1>10. VectorsEntered'
  BY <1>6 DEF VectorsEntered
<1>11. CorpusCommitted'
  BY <1>5, <1>6 DEF CorpusCommitted, IInv
<1>12. OverlapExcused'
  BY <1>3, <1>4, CommitRows
     DEF OverlapExcused, Searching, Writing, IInv, Freshness
<1>13. RowsFresh'
  <2> SUFFICES ASSUME NEW q \in Request, NEW kb, kb = req'[q].kb,
                      req'[q].op = "search", req'[q].pc = "set"
               PROVE  req'[q].rows = Content(kb)' \/ kb \in excused'
    BY DEF RowsFresh, Content
  <2>1. q # r /\ req'[q] = req[q] /\ req[q].kb \in Kb
    BY <1>3, <1>4 DEF IInv, Shape, RequestOK
  <2>2. req[q].kb = req[r].kb => req[q].kb \in excused
    BY <1>2, <2>1 DEF IInv, Freshness, OverlapExcused, Searching, Writing
  <2>3. req[q].rows = Content(req[q].kb) \/ req[q].kb \in excused
    BY <2>1 DEF IInv, Freshness, RowsFresh
  <2>4. \/ Content(kb)' = Content(kb)
        \/ kb \in excused' \/ kb = req[r].kb
    BY <2>1, CommitRows
  <2>5. excused \subseteq excused'
    BY CommitRows
  <2> QED
    BY <2>1, <2>2, <2>3, <2>4, <2>5
<1>14. InvalidatedFirst'
  BY <1>3, <1>4, <1>5, CommitRows DEF InvalidatedFirst, IInv, Freshness
<1>15. StaleExcused'
  <2> SUFFICES ASSUME NEW kb \in Kb
               PROVE  corpus[kb] \in {{}, Content(kb)'} \/ kb \in excused'
    BY <1>5 DEF StaleExcused, Content
  <2>1. kb = req[r].kb => corpus[kb] = {} \/ kb \in excused
    BY <1>2 DEF IInv, Freshness, InvalidatedFirst
  <2>2. corpus[kb] \in {{}, Content(kb)} \/ kb \in excused
    BY DEF IInv, Freshness, StaleExcused
  <2> QED
    BY <2>1, <2>2, CommitRows
<1>16. CountCovers'
  <2> SUFFICES ASSUME NEW kb \in Kb
               PROVE  chunk_count'[kb] >= Cardinality(Content(kb)')
    BY DEF CountCovers, Content
  <2>1. IsFiniteSet(Content(kb)) /\ Cardinality(Content(kb)) \in Nat
    BY CorpusAssumption, FS_Subset, FS_CardinalityType DEF Content
  <2>2. chunk_count[kb] >= Cardinality(Content(kb))
        /\ chunk_count[kb] \in Nat /\ chunk_count'[kb] \in Nat
    BY <1>1, <1>7 DEF IInv, CountCovers, TypeOK
  <2>3. CASE /\ Content(kb)' \subseteq Content(kb)
             /\ chunk_count'[kb] >= chunk_count[kb]
    <3>1. /\ Cardinality(Content(kb)') \in Nat
          /\ Cardinality(Content(kb)') <= Cardinality(Content(kb))
      BY <2>1, <2>3, FS_Subset, FS_CardinalityType
    <3> QED
      BY <2>1, <2>2, <2>3, <3>1
  <2>4. CASE /\ Content(kb)' = Content(kb) \cup {req[r].doc}
             /\ chunk_count'[kb] = chunk_count[kb] + 1
    <3>1. /\ Cardinality(Content(kb)') \in Nat
          /\ Cardinality(Content(kb)') <= Cardinality(Content(kb)) + 1
      <4> DEFINE T == Content(kb)
      <4>1. IsFiniteSet(T) /\ Cardinality(T) \in Nat
        BY <2>1
      <4> HIDE DEF T
      <4>2. \/ Cardinality(T \cup {req[r].doc}) = Cardinality(T)
            \/ Cardinality(T \cup {req[r].doc}) = Cardinality(T) + 1
        BY <4>1, FS_AddElement
      <4>3. /\ Cardinality(T \cup {req[r].doc}) \in Nat
            /\ Cardinality(T \cup {req[r].doc}) <= Cardinality(T) + 1
        BY <4>1, <4>2
      <4> QED
        BY <2>4, <4>3 DEF T
    <3> QED
      BY <2>1, <2>2, <2>4, <3>1
  <2> QED
    BY <2>3, <2>4, CommitRows
<1> QED
  BY <1>7, <1>8, <1>9, <1>10, <1>11, <1>12, <1>13, <1>14, <1>15, <1>16
     DEF IInv, Shape, Freshness

(* An expired corpus is fresh again, and its excuse can be forgotten when  *)
(* no search of the knowledge base is under way.                           *)
LEMMA CacheExpiresStep ==
  ASSUME IInv, NEW kb \in Kb, CacheExpires(kb)
  PROVE  IInv'
<1> USE DEF CacheExpires, counters
<1>1. TypeOK
  BY DEF IInv, Shape
<1>2. /\ corpus' \in [Kb -> SUBSET Doc] /\ corpus'[kb] = {}
      /\ \A k \in Kb \ {kb} : corpus'[k] = corpus[k]
  BY <1>1 DEF TypeOK
<1>3. /\ excused' \subseteq excused /\ excused \ {kb} \subseteq excused'
      /\ kb \in excused' \/ kb \notin excused
         \/ \A q \in Request : ~Searching(q, kb)
  OBVIOUS
<1>4. TypeOK'
  BY <1>1, <1>2, <1>3 DEF TypeOK
<1>5. /\ \A q \in Request : RequestOK(q)'
      /\ HoldersDiffer' /\ VectorsEntered' /\ CountCovers'
  BY DEF IInv, Shape, RequestOK, HoldersDiffer, VectorsEntered, CountCovers,
         Content
<1>6. CorpusCommitted'
  BY <1>2 DEF CorpusCommitted, IInv
<1>7. OverlapExcused'
  BY <1>3 DEF OverlapExcused, Searching, Writing, IInv, Freshness
<1>8. RowsFresh'
  BY <1>3 DEF RowsFresh, Content, Searching, IInv, Freshness, Shape, RequestOK
<1>9. InvalidatedFirst'
  BY <1>2, <1>3 DEF InvalidatedFirst, IInv, Freshness, Shape, RequestOK
<1>10. StaleExcused'
  BY <1>2, <1>3 DEF StaleExcused, Content, IInv, Freshness
<1> QED
  BY <1>4, <1>5, <1>6, <1>7, <1>8, <1>9, <1>10 DEF IInv, Shape, Freshness

-----------------------------------------------------------------------------
LEMMA NextIInv == IInv /\ [Next]_vars => IInv'
<1> SUFFICES ASSUME IInv, [Next]_vars PROVE IInv'
  OBVIOUS
<1>1. ASSUME NEW r \in Request, NEW op \in {"index", "delete"},
             NEW d \in Doc, NEW kb \in Kb, WriteArrives(r, op, d, kb)
      PROVE  IInv'
  BY <1>1, WriteArrivesStep
<1>2. ASSUME NEW r \in Request, NEW kb \in Kb, SearchArrives(r, kb)
      PROVE  IInv'
  BY <1>2, SearchArrivesStep
<1>3. ASSUME NEW r \in Request, Step(r) PROVE IInv'
  BY <1>3, WriterStep, ReaderStep, CacheSetStep, CommitStep DEF Step
<1>4. ASSUME NEW r \in Request, Fails(r) PROVE IInv'
  <2>1. ASSUME CacheSetFails(r) \/ Abort(r) PROVE IInv'
    <3>1. End(r) /\ faults' \in Nat
          /\ UNCHANGED <<vectors, chunk_count, corpus, writes, entered, excused>>
      BY <2>1 DEF CacheSetFails, Abort, Fault, IInv, Shape, TypeOK
    <3> QED
      BY <3>1, EndStep
  <2> QED
    BY <1>4, <2>1, WriterStep, ReaderStep DEF Fails
<1>5. ASSUME NEW kb \in Kb, CacheExpires(kb) PROVE IInv'
  BY <1>5, CacheExpiresStep
<1>6. CASE UNCHANGED vars
  BY <1>6 DEF vars, IInv, Shape, TypeOK, RequestOK, HoldersDiffer,
     VectorsEntered, CorpusCommitted, Freshness, OverlapExcused, RowsFresh,
     InvalidatedFirst, StaleExcused, CountCovers, Content, Searching, Writing
<1> QED
  BY <1>1, <1>2, <1>3, <1>4, <1>5, <1>6 DEF Next

LEMMA Invariance == Spec => []IInv
  BY InitIInv, NextIInv, PTL DEF Spec

(* The rows, counts, corpora and requests of every behaviour of the        *)
(* requests have the shape the model gives them.                           *)
THEOREM TypeCorrect == Spec => []TypeOK
<1>1. IInv => TypeOK
  BY DEF IInv, Shape
<1> QED
  BY <1>1, Invariance, PTL

(* No search offers rows of a request that was rolled back                 *)
(* (invalidate_cache empties the corpus and _build_from_db reads committed *)
(* rows only).                                                             *)
THEOREM OnlyCommitted == Spec => []CorpusCommitted
<1>1. IInv => CorpusCommitted
  BY DEF IInv
<1> QED
  BY <1>1, Invariance, PTL

(* Whatever the requests and their overlaps, a stale corpus has one of the *)
(* three causes that StaleExcused names (index_document, delete_document,  *)
(* _load_corpus).                                                          *)
THEOREM StaleHasReason == Spec => []StaleExcused
<1>1. IInv => StaleExcused
  BY DEF IInv, Freshness
<1> QED
  BY <1>1, Invariance, PTL

(* chunk_count covers the documents of a knowledge base, because           *)
(* _update_kb_stats adds in the database and under its row lock.           *)
THEOREM CountIsEnough == Spec => []CountCovers
<1>1. IInv => CountCovers
  BY DEF IInv
<1> QED
  BY <1>1, Invariance, PTL

=============================================================================
