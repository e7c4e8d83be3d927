------------------------------ MODULE Chunking ------------------------------
(***************************************************************************)
(* The chunker of the document pipeline (DocumentChunker).                 *)
(*                                                                         *)
(* A document is a sequence of pages, a page of paragraphs, a paragraph of *)
(* sentences, and a sentence is its length.  A letter is named by where it *)
(* stands in the document; Blank is a character of white space.  One step  *)
(* of the model is one turn of a loop of the code.                         *)
(***************************************************************************)
EXTENDS Naturals, Sequences, SequencesExt, FiniteSetsExt

CONSTANTS
    ChunkSize,     \* settings.documents.chunk_size_chars
    Overlap,       \* settings.documents.chunk_overlap_chars
    Lengths,       \* lengths of sentences
    PagesMost, ParagraphsMost, SentencesMost   \* bounds on a document

VARIABLE ck

(* With an overlap of the chunk size the loop of _force_split never ends.  *)
ASSUME ChunkingAssumption ==
    /\ Overlap \in Nat \ {0} /\ ChunkSize \in Nat /\ Overlap < ChunkSize
    /\ Lengths \subseteq Nat \ {0}
    /\ PagesMost \in Nat /\ ParagraphsMost \in Nat /\ SentencesMost \in Nat

Strategy == {"hybrid", "semantic", "page", "fixed"}
Paragraph == SeqOf(Lengths, SentencesMost) \ {<<>>}
Page == SeqOf(Paragraph, ParagraphsMost)
Document == SeqOf(Page, PagesMost) \ {<<>>}

-----------------------------------------------------------------------------
Blank == <<>>
Sentence(place, length) == [i \in 1 .. length |-> Append(place, i)]

(* The texts one after the other, with a separator between each two.       *)
Joined(texts, separator) ==
    LET upto[n \in 0 .. Len(texts)] ==
            IF n = 0 THEN <<>>
            ELSE LET done == upto[n - 1]
                 IN  IF done = <<>> THEN texts[n]
                     ELSE done \o separator \o texts[n]
    IN  upto[Len(texts)]

(* A paragraph is its sentences; the page numbers only name the letters.   *)
Sentences(document, p, g) ==
    [s \in 1 .. Len(document[p][g]) |->
        Sentence(<<p, g, s>>, document[p][g][s])]
ParagraphsOf(document, p) ==
    [g \in 1 .. Len(document[p]) |-> Sentences(document, p, g)]
TextOf(paragraph) == Joined(paragraph, <<Blank>>)
PageText(document, p) ==
    Joined([g \in 1 .. Len(document[p]) |-> TextOf(ParagraphsOf(document, p)[g])],
           <<Blank, Blank>>)
PageTexts(document) == [p \in 1 .. Len(document) |-> PageText(document, p)]
Paragraphs(document) ==
    Joined([p \in 1 .. Len(document) |-> ParagraphsOf(document, p)], <<>>)
Letters(text) == Range(text) \ {Blank}

(* Which documents are split page by page.                                 *)
ByPage(strategy, pages) ==
    \/ strategy = "page" /\ pages > 0
    \/ strategy \in {"page", "hybrid"} /\ pages > 1

-----------------------------------------------------------------------------
(* Mutant: the window moves on by the overlap too far.                     *)
StepTooFar == ChunkSize + Overlap
Advance == ChunkSize - Overlap

(* _force_split and _chunk_fixed: the windows of a text, from number idx.  *)
Windows(text, idx) ==
    LET count == (Len(text) + Advance - 1) \div Advance
    IN  [n \in 1 .. count |->
            [index |-> idx + n - 1,
             text |-> SubSeq(text, (n - 1) * Advance + 1,
                             Min({(n - 1) * Advance + ChunkSize, Len(text)}))]]

(* current[-overlap:]                                                      *)
LastPart(text) ==
    SubSeq(text, IF Len(text) > Overlap THEN Len(text) - Overlap + 1 ELSE 1,
           Len(text))

IdleChunker ==
    [pc |-> "idle", document |-> <<>>, pages |-> <<>>, paras |-> <<>>,
         todo |-> <<>>, current |-> <<>>, idx |-> 0, chunks |-> <<>>]

ChunkingInit == ck = IdleChunker

(* DocumentChunker.chunk chooses the strategy.                             *)
ChunkDocument(strategy, document) ==
    /\ ck.pc = "idle"
    /\ ck' = [IdleChunker EXCEPT
          !.document = document,
          !.pc = IF ByPage(strategy, Len(document)) THEN "pages"
                 ELSE IF strategy = "fixed" THEN "fixed" ELSE "paragraphs",
          !.pages = PageTexts(document),
          !.paras = Paragraphs(document)]

ChunkFixed ==
    /\ ck.pc = "fixed"
    /\ ck' = [ck EXCEPT
          !.pc = "filter",
          !.chunks = Windows(Joined(ck.pages, <<Blank, Blank>>), 0)]

(* One page is one chunk, or the windows of a page that is too large.      *)
ChunkPage ==
    /\ ck.pc = "pages"
    /\ IF ck.pages = <<>> THEN ck' = [ck EXCEPT !.pc = "filter"]
       ELSE LET text == Head(ck.pages)
                made == IF Len(text) <= ChunkSize
                        THEN <<[index |-> ck.idx, text |-> text]>>
                        ELSE Windows(text, ck.idx)
            IN  ck' = [ck EXCEPT !.pages = Tail(@), !.chunks = @ \o made,
                                 !.idx = @ + Len(made)]

(* The chunk that is being filled is closed, and its end begins the next.  *)
Close(separator, more) ==
    [ck EXCEPT !.chunks = Append(@, [index |-> ck.idx, text |-> ck.current]),
               !.idx = @ + 1,
               !.current = LastPart(@) \o separator \o more]

Fits(more) == Len(ck.current) + Len(more) <= ChunkSize

ChunkParagraph ==
    /\ ck.pc = "paragraphs" /\ ck.todo = <<>> /\ ck.paras # <<>>
    /\ LET para == TextOf(Head(ck.paras))
       IN  ck' = IF Fits(para)
                 THEN [ck EXCEPT !.paras = Tail(@),
                          !.current = IF @ = <<>> THEN para
                                      ELSE @ \o <<Blank, Blank>> \o para]
                 ELSE IF ck.current # <<>>
                 THEN [Close(<<Blank, Blank>>, para) EXCEPT !.paras = Tail(@)]
                 ELSE [ck EXCEPT !.paras = Tail(@), !.todo = Head(ck.paras)]

(* Mutant: the numbers go on after the number of the section.              *)
NextIndexOne(made) == ck.idx + 1

(* After a forced split the number grows by all the chunks so far.         *)
NextIndex(made) == ck.idx + Len(ck.chunks) + Len(made)

ChunkSentence ==
    /\ ck.pc = "paragraphs" /\ ck.todo # <<>>
    /\ LET sent == Head(ck.todo)
           made == Windows(sent, ck.idx)
       IN  ck' = IF Fits(sent)
                 THEN [ck EXCEPT !.todo = Tail(@),
                                 !.current = @ \o <<Blank>> \o sent]
                 ELSE IF ck.current # <<>>
                 THEN [Close(<<Blank>>, sent) EXCEPT !.todo = Tail(@)]
                 ELSE [ck EXCEPT !.todo = Tail(@), !.chunks = @ \o made,
                                 !.idx = NextIndex(made)]

ChunkRest ==
    /\ ck.pc = "paragraphs" /\ ck.todo = <<>> /\ ck.paras = <<>>
    /\ ck' = [ck EXCEPT
          !.pc = "filter",
          !.chunks = IF Letters(ck.current) = {} THEN @
                     ELSE Append(@, [index |-> ck.idx, text |-> ck.current])]

(* Chunks of white space are left out.                                     *)
Kept(chunks) ==
    Joined([n \in 1 .. Len(chunks) |->
               IF Letters(chunks[n].text) = {} THEN <<>> ELSE <<chunks[n]>>],
           <<>>)

FilterEmpty ==
    /\ ck.pc = "filter"
    /\ ck' = [ck EXCEPT !.pc = "done", !.chunks = Kept(@)]

ChunkReturn ==
    /\ ck.pc = "done"
    /\ ck' = IdleChunker

ChunkingNext ==
    \/ \E strategy \in Strategy, document \in Document :
           ChunkDocument(strategy, document)
    \/ ChunkFixed
    \/ ChunkPage
    \/ ChunkParagraph
    \/ ChunkSentence
    \/ ChunkRest
    \/ FilterEmpty
    \/ ChunkReturn

ChunkingSpec == ChunkingInit /\ [][ChunkingNext]_ck

-----------------------------------------------------------------------------
(* "Overlap ensures no information is lost at chunk boundaries."           *)
(* (chunker.py): whichever loop makes the chunks, and however a sentence,  *)
(* a paragraph or a page exceeds the size, every letter of the document is *)
(* in a chunk.                                                             *)
NothingLost ==
    ck.pc = "done" =>
        UNION {Letters(ck.chunks[n].text) : n \in 1 .. Len(ck.chunks)}
            = UNION {Letters(PageText(ck.document, p)) :
                        p \in 1 .. Len(ck.document)}

(* The index grows along the chunks, with gaps after a forced split: a     *)
(* chunk_id names one chunk of its document, and ORDER BY chunk_index      *)
(* gives the chunks in the order of the text (chunk_id, index_document).   *)
IndexOrders ==
    \A m, n \in 1 .. Len(ck.chunks) :
        m < n => ck.chunks[m].index < ck.chunks[n].index

=============================================================================
