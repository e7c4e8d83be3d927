---------------------------- MODULE CorpusCache -----------------------------
(***************************************************************************)
(* The knowledge bases of the retrieval service: the rows of               *)
(* document_vectors, the keyword corpus of each knowledge base that        *)
(* BM25Retriever keeps in Redis, and the requests that index, delete and   *)
(* search.                                                                 *)
(*                                                                         *)
(* The chunks of a document are written and deleted together, so a         *)
(* document stands for its rows.  Writes belong to the transaction of the  *)
(* request (get_db) and are seen when it commits; Redis commands take      *)
(* effect at once, and their errors are swallowed.                         *)
(***************************************************************************)
EXTENDS Naturals, FiniteSets

CONSTANTS
    Doc, Kb,
    Request,       \* request slots: how many requests may overlap
    MaxWrites,     \* bound on the index and delete requests
    MaxFaults,     \* bound on Redis errors, SQL errors and lost requests
    NoDoc, NoKb

VARIABLES
    vectors,       \* committed rows: the knowledge base of each document
    chunk_count,   \* committed knowledge_bases.chunk_count, in documents
    corpus,        \* Redis: the cached corpus, {} if the key is absent
    req,           \* what each request slot is doing
    writes, faults,
    (* Observed by the properties only.                                    *)
    entered,       \* what has ever been committed
    excused        \* knowledge bases whose corpus may be stale

counters == <<writes, faults>>
vars == <<vectors, chunk_count, corpus, req, writes, faults, entered, excused>>

ASSUME CorpusAssumption ==
    /\ IsFiniteSet(Doc)
    /\ MaxWrites \in Nat
    /\ MaxFaults \in Nat
    /\ NoDoc \notin Doc
    /\ NoKb \notin Kb

Op == {"none", "index", "delete", "search"}
Pc == {"idle", "write", "invalidate", "stats", "commit",
       "get", "select", "set"}
RequestState ==
    [op : Op, pc : Pc, doc : Doc \cup {NoDoc}, kb : Kb \cup {NoKb},
     held : BOOLEAN,          \* its transaction has written rows of doc
     aborted : BOOLEAN,       \* an SQL error ended its transaction
     rows : SUBSET Doc]       \* the corpus it built from the table
IdleRequest == [op |-> "none", pc |-> "idle", doc |-> NoDoc, kb |-> NoKb,
                held |-> FALSE, aborted |-> FALSE, rows |-> {}]

Content(kb) == {d \in Doc : vectors[d] = kb}

Searching(q, kb) == req[q].op = "search" /\ req[q].kb = kb
Writing(q, kb) == req[q].op \in {"index", "delete"} /\ req[q].kb = kb

(* Rows stay locked by the transaction that wrote them, until it ends.     *)
DocFree(r, d) == \A q \in Request \ {r} :
                     ~(req[q].doc = d /\ req[q].held /\ ~req[q].aborted)
StatsFree(r) == \A q \in Request \ {r} :
                    ~(/\ req[q].op = "index" /\ req[q].pc = "commit"
                      /\ req[q].kb = req[r].kb /\ ~req[q].aborted)

Init ==
    /\ vectors = [d \in Doc |-> NoKb]
    /\ chunk_count = [kb \in Kb |-> 0]
    /\ corpus = [kb \in Kb |-> {}]
    /\ req = [r \in Request |-> IdleRequest]
    /\ writes = 0
    /\ faults = 0
    /\ entered = {}
    /\ excused = {}

Fault == faults < MaxFaults /\ faults' = faults + 1
Goto(r, pc) == req' = [req EXCEPT ![r].pc = pc]
End(r) == req' = [req EXCEPT ![r] = IdleRequest]

-----------------------------------------------------------------------------
Arrive(r, op, pc, d, kb) ==
    /\ req[r].pc = "idle"
    /\ req' = [req EXCEPT ![r] = [IdleRequest EXCEPT
                   !.op = op, !.pc = pc, !.doc = d, !.kb = kb]]

(* Excused from here on, if a search of the knowledge base is under way.   *)
WriteArrives(r, op, d, kb) ==
    /\ writes < MaxWrites
    /\ writes' = writes + 1
    /\ Arrive(r, op, "write", d, kb)
    /\ excused' = IF \E q \in Request : Searching(q, kb)
                  THEN excused \cup {kb} ELSE excused
    /\ UNCHANGED <<vectors, chunk_count, corpus, faults, entered>>

(* upsert_chunks: INSERT ... ON CONFLICT DO UPDATE, which waits for other  *)
(* transactions that wrote the same chunks.                                *)
UpsertChunks(r) ==
    /\ req[r].op = "index" /\ req[r].pc = "write"
    /\ DocFree(r, req[r].doc)
    /\ req' = [req EXCEPT ![r].pc = "invalidate", ![r].held = TRUE]
    /\ UNCHANGED <<vectors, chunk_count, corpus, counters, entered, excused>>

(* Mutant: rows are taken for deleted that were not there.                 *)
DeleteFindsAll(r) ==
    /\ req[r].op = "delete" /\ req[r].pc = "write"
    /\ vectors[req[r].doc] = NoKb \/ DocFree(r, req[r].doc)
    /\ req' = [req EXCEPT ![r].pc = "invalidate", ![r].held = TRUE]
    /\ UNCHANGED <<vectors, chunk_count, corpus, counters, entered, excused>>

(* delete_document_vectors: it finds the committed rows only, and waits    *)
(* for those that others have written.                                     *)
DeleteDocumentVectors(r) ==
    /\ req[r].op = "delete" /\ req[r].pc = "write"
    /\ vectors[req[r].doc] = NoKb \/ DocFree(r, req[r].doc)
    /\ req' = [req EXCEPT ![r].pc = "invalidate",
                          ![r].held = vectors[req[r].doc] # NoKb]
    /\ UNCHANGED <<vectors, chunk_count, corpus, counters, entered, excused>>

AfterInvalidate(r) == IF req[r].op = "index" THEN "stats" ELSE "commit"

(* Mutant: the writer refreshes the corpus with what it has written.       *)
InvalidateRefreshes(r) ==
    /\ req[r].pc = "invalidate"
    /\ corpus' = [corpus EXCEPT ![req[r].kb] =
                     IF req[r].op = "index" THEN @ \cup {req[r].doc} ELSE {}]
    /\ Goto(r, AfterInvalidate(r))
    /\ UNCHANGED <<vectors, chunk_count, counters, entered, excused>>

(* Mutant: the key is built without its prefix.                            *)
InvalidateOtherKey(r) ==
    /\ req[r].pc = "invalidate"
    /\ Goto(r, AfterInvalidate(r))
    /\ UNCHANGED <<vectors, chunk_count, corpus, counters, entered, excused>>

(* invalidate_cache, before the transaction commits.                       *)
InvalidateCache(r) ==
    /\ req[r].pc = "invalidate"
    /\ corpus' = [corpus EXCEPT ![req[r].kb] = {}]
    /\ Goto(r, AfterInvalidate(r))
    /\ UNCHANGED <<vectors, chunk_count, counters, entered, excused>>

InvalidateFails(r) ==
    /\ req[r].pc = "invalidate"
    /\ Fault
    /\ excused' = excused \cup {req[r].kb}
    /\ Goto(r, AfterInvalidate(r))
    /\ UNCHANGED <<vectors, chunk_count, corpus, writes, entered>>

(* _update_kb_stats: chunk_count + n, in the same transaction.             *)
UpdateKbStats(r) ==
    /\ req[r].pc = "stats"
    /\ StatsFree(r)
    /\ Goto(r, "commit")
    /\ UNCHANGED <<vectors, chunk_count, corpus, counters, entered, excused>>

(* An SQL error here is logged and swallowed, but the transaction is over: *)
(* PostgreSQL answers its COMMIT by rolling back.                          *)
UpdateKbStatsFails(r) ==
    /\ req[r].pc = "stats"
    /\ Fault
    /\ req' = [req EXCEPT ![r].pc = "commit", ![r].aborted = TRUE]
    /\ UNCHANGED <<vectors, chunk_count, corpus, writes, entered, excused>>

(* The rows after the commit: ON CONFLICT leaves knowledge_base alone.     *)
Written(r) ==
    IF ~req[r].held \/ req[r].aborted THEN vectors
    ELSE IF req[r].op = "delete"
    THEN [vectors EXCEPT ![req[r].doc] = NoKb]
    ELSE [vectors EXCEPT ![req[r].doc] = IF @ = NoKb THEN req[r].kb ELSE @]

(* Mutant: a deletion is taken off the named knowledge base.               *)
CountedBothWays(r) ==
    IF req[r].aborted THEN chunk_count
    ELSE IF req[r].op = "index"
    THEN [chunk_count EXCEPT ![req[r].kb] = @ + 1]
    ELSE [chunk_count EXCEPT ![req[r].kb] = IF @ > 0 THEN @ - 1 ELSE 0]
Counted(r) ==
    IF req[r].op = "index" /\ ~req[r].aborted
    THEN [chunk_count EXCEPT ![req[r].kb] = @ + 1]
    ELSE chunk_count

(* Excused: the deleted rows were in another knowledge base than the one   *)
(* whose corpus was invalidated.                                           *)
Commit(r) ==
    /\ req[r].pc = "commit"
    /\ vectors' = Written(r)
    /\ chunk_count' = Counted(r)
    /\ entered' = entered \cup
                     {<<d, vectors'[d]>> : d \in {x \in Doc : vectors'[x] # NoKb}}
    /\ excused' = IF req[r].op = "delete" /\ req[r].held
                  THEN excused \cup ({vectors[req[r].doc]} \ {req[r].kb})
                  ELSE excused
    /\ End(r)
    /\ UNCHANGED <<corpus, counters>>

-----------------------------------------------------------------------------
(* The keyword half of retrieve, for one knowledge base of its context.    *)
SearchArrives(r, kb) ==
    /\ Arrive(r, "search", "get", NoDoc, kb)
    /\ excused' = IF \E q \in Request : Writing(q, kb)
                  THEN excused \cup {kb} ELSE excused
    /\ UNCHANGED <<vectors, chunk_count, corpus, counters, entered>>

(* Mutant: a hit is stored again, to keep the corpus warm.                 *)
CacheGetKeepsWarm(r) ==
    /\ req[r].pc = "get"
    /\ IF corpus[req[r].kb] # {}
       THEN req' = [req EXCEPT ![r].pc = "set", ![r].rows = corpus[req[r].kb]]
       ELSE Goto(r, "select")
    /\ UNCHANGED <<vectors, chunk_count, corpus, counters, entered, excused>>

(* _load_corpus: a hit ends the search.                                    *)
CacheGet(r) ==
    /\ req[r].pc = "get"
    /\ IF corpus[req[r].kb] # {} THEN End(r) ELSE Goto(r, "select")
    /\ UNCHANGED <<vectors, chunk_count, corpus, counters, entered, excused>>

(* An error of Redis, or of a corpus it cannot read, counts as a miss.     *)
CacheGetFails(r) ==
    /\ req[r].pc = "get"
    /\ Fault
    /\ Goto(r, "select")
    /\ UNCHANGED <<vectors, chunk_count, corpus, writes, entered, excused>>

(* _build_from_db: nothing is cached for an empty knowledge base.          *)
BuildFromDb(r) ==
    /\ req[r].pc = "select"
    /\ IF Content(req[r].kb) = {} THEN End(r)
       ELSE req' = [req EXCEPT ![r].pc = "set",
                               ![r].rows = Content(req[r].kb)]
    /\ UNCHANGED <<vectors, chunk_count, corpus, counters, entered, excused>>

CacheSet(r) ==
    /\ req[r].pc = "set"
    /\ corpus' = [corpus EXCEPT ![req[r].kb] = req[r].rows]
    /\ End(r)
    /\ UNCHANGED <<vectors, chunk_count, counters, entered, excused>>

CacheSetFails(r) ==
    /\ req[r].pc = "set"
    /\ Fault
    /\ End(r)
    /\ UNCHANGED <<vectors, chunk_count, corpus, writes, entered, excused>>

(* CACHE_TTL runs out.                                                     *)
CacheExpires(kb) ==
    /\ corpus[kb] # {}
    /\ corpus' = [corpus EXCEPT ![kb] = {}]
    /\ excused' = IF \E q \in Request : Searching(q, kb) THEN excused
                  ELSE excused \ {kb}
    /\ UNCHANGED <<vectors, chunk_count, req, counters, entered>>

(* An exception, a lost connection or a crash: rolled back.                *)
Abort(r) ==
    /\ req[r].pc # "idle"
    /\ Fault
    /\ End(r)
    /\ UNCHANGED <<vectors, chunk_count, corpus, writes, entered, excused>>

-----------------------------------------------------------------------------
Step(r) ==
    \/ UpsertChunks(r)
    \/ DeleteDocumentVectors(r)
    \/ InvalidateCache(r)
    \/ UpdateKbStats(r)
    \/ Commit(r)
    \/ CacheGet(r)
    \/ BuildFromDb(r)
    \/ CacheSet(r)

Fails(r) ==
    \/ InvalidateFails(r)
    \/ UpdateKbStatsFails(r)
    \/ CacheGetFails(r)
    \/ CacheSetFails(r)
    \/ Abort(r)

Next ==
    \/ \E r \in Request, op \in {"index", "delete"}, d \in Doc, kb \in Kb :
           WriteArrives(r, op, d, kb)
    \/ \E r \in Request, kb \in Kb : SearchArrives(r, kb)
    \/ \E r \in Request : Step(r) \/ Fails(r)
    \/ \E kb \in Kb : CacheExpires(kb)

Spec == Init /\ [][Next]_vars

(* The event loop resumes every request, PostgreSQL grants row locks, and  *)
(* Redis expires its keys.                                                 *)
Fairness ==
    /\ \A r \in Request : WF_vars(Step(r))
    /\ \A kb \in Kb : WF_vars(CacheExpires(kb))

FairSpec == Spec /\ Fairness

-----------------------------------------------------------------------------
(* Rows, counts, corpora and requests have the shape of their models.      *)
TypeOK ==
    /\ vectors \in [Doc -> Kb \cup {NoKb}]
    /\ chunk_count \in [Kb -> Nat]
    /\ corpus \in [Kb -> SUBSET Doc]
    /\ req \in [Request -> RequestState]
    /\ writes \in Nat /\ faults \in Nat
    /\ entered \subseteq Doc \X Kb
    /\ excused \subseteq Kb

(* A search offers nothing that was never committed: rows of a request     *)
(* that was rolled back reach no corpus, however the two overlap           *)
(* (invalidate_cache, _build_from_db).                                     *)
CorpusCommitted == \A kb \in Kb : corpus[kb] \X {kb} \subseteq entered

(* A corpus that differs from the table has a reason: a search of the      *)
(* knowledge base overlapped a write to it, Redis failed, or a deletion    *)
(* named another knowledge base than that of the rows.  Any number of      *)
(* overlapping writes alone leave no stale corpus (index_document,         *)
(* delete_document).                                                       *)
StaleExcused ==
    \A kb \in Kb : corpus[kb] \in {{}, Content(kb)} \/ kb \in excused

(* chunk_count never falls below the documents that are there, although    *)
(* overlapping requests add to it and nothing is taken off                 *)
(* (_update_kb_stats).                                                     *)
CountCovers == \A kb \in Kb : chunk_count[kb] >= Cardinality(Content(kb))

(* Once nothing is written any more, every corpus becomes that of the      *)
(* table and stays so, whatever raced or failed before ("Corpus cache: 1   *)
(* hour TTL").                                                             *)
EventuallyFresh ==
    <>[](\A kb \in Kb : corpus[kb] \in {{}, Content(kb)})

=============================================================================
