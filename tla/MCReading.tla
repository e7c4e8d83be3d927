----------------------------- MODULE MCReading -----------------------------
(* How texts are read, cut, embedded and found again, for TLC: each        *)
(* behaviour looks at one of the four modules and leaves the others as     *)
(* they are.  Texts, batches, chunks and knowledge bases are alike.        *)
EXTENDS Reading, Chunking, Embedding, Retrieval, TLC

VARIABLE part

TextInit ==
    /\ part \in {"reading", "chunking", "embedding", "retrieval"}
    /\ ReadingInit /\ ChunkingInit /\ EmbeddingInit /\ RetrievalInit

TextNext ==
    /\ UNCHANGED part
    /\ \/ /\ part = "reading" /\ ReadingNext
          /\ UNCHANGED <<ck, emvars, rt>>
       \/ /\ part = "chunking" /\ ChunkingNext
          /\ UNCHANGED <<rd, emvars, rt>>
       \/ /\ part = "embedding" /\ EmbeddingNext
          /\ UNCHANGED <<rd, ck, rt>>
       \/ /\ part = "retrieval" /\ RetrievalNext
          /\ UNCHANGED <<rd, ck, emvars>>

TextSpec == TextInit /\ [][TextNext]_<<part, rd, ck, emvars, rt>>

Symmetry ==
    Permutations(Text) \cup Permutations(Batch) \cup Permutations(Chunk)
        \cup Permutations(Kb)

=============================================================================
