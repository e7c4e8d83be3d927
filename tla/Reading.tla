------------------------------ MODULE Reading ------------------------------
(***************************************************************************)
(* What the stages of the document pipeline do with a content: validation, *)
(* OCR with its retries, cleaning, extraction and chunking.  The process   *)
(* of DocumentPipeline is this machine, seen as one step that succeeds or  *)
(* fails; here the outcome follows from the content and the type.          *)
(***************************************************************************)
EXTENDS Naturals, Sequences, SequencesExt, FiniteSetsExt

CONSTANTS
    OcrAttempts,   \* settings.documents.max_retries
    PagesRead,     \* settings.documents.max_pages_per_doc
    FilePages,     \* bound on the pages of a file
    Threshold,     \* SCANNED_THRESHOLD, of the PDFs that count as native
    NativeChars    \* characters that a page gives without OCR

VARIABLE rd

ASSUME ReadingAssumption ==
    /\ OcrAttempts \in Nat \ {0} /\ PagesRead \in Nat \ {0}
    /\ Threshold \in Nat /\ NativeChars \subseteq Nat

DocumentType == {"aadhaar", "pan_card", "salary_slip", "bank_statement",
                 "form_16", "itr", "other"}

(* DOC_TYPE_MAP: the 17 further types, "other" for all of them, and the    *)
(* income tax return are generic.                                          *)
SupportedType(type) ==
    CASE type = "form_16"          -> "salary_slip"
      [] type \in {"itr", "other"} -> "generic"
      [] OTHER                     -> type

(* _EXTRACTORS has four of the six supported types.                        *)
Extractors == {"aadhaar", "pan_card", "salary_slip", "bank_statement"}

(* Mutant: BaseExtractor.extract returns no fields.                        *)
ExtractsNothing(type) == TRUE

(* BaseExtractor, the default, raises NotImplementedError.                 *)
Extracts(type) == SupportedType(type) \in Extractors

(* The content by its first bytes, and the file name by its extension.     *)
Content == {"image", "pdf", "text", "other"}
Extension == {"image", "other"}

(* validate_bytes: images, PDF, CSV and plain text pass.                   *)
Accepted(content) == content # "other"

(* By the extension PIL opens an image, or pdfplumber a PDF.               *)
Opens(extension, content) ==
    content = IF extension = "image" THEN "image" ELSE "pdf"

CharsOf(pages) == FoldLeft(LAMBDA n, c : n + c, 0, pages)
Limited(pages) ==
    SubSeq(pages, 1, IF Len(pages) < PagesRead THEN Len(pages) ELSE PagesRead)

(* Enough characters a page without OCR: the result of pdfplumber is used, *)
(* and a page that is an image stays empty.                                *)
Native(pages) ==
    CharsOf(Limited(pages)) >= Threshold * Max({Len(Limited(pages)), 1})

IdleReading == [pc |-> "idle", type |-> "other", extension |-> "other",
                content |-> "other", pages |-> <<>>, attempt |-> 0,
                read |-> {}]

ReadingInit == rd = IdleReading

Read(type, extension, content, pages) ==
    /\ rd.pc = "idle"
    /\ content = "image" => Len(pages) = 1
    /\ rd' = [IdleReading EXCEPT !.pc = "validate", !.type = type,
                !.extension = extension, !.content = content,
                !.pages = pages]

(* malicious: the content holds the test signature.                        *)
ValidateBytes(malicious) ==
    /\ rd.pc = "validate"
    /\ rd' = [rd EXCEPT !.pc = IF Accepted(rd.content) /\ ~malicious
                               THEN "ocr" ELSE "rejected"]

(* The pages that gave text.                                               *)
ExtractImage == {1}
ExtractPdf ==
    {p \in DOMAIN Limited(rd.pages) :
        Native(rd.pages) => rd.pages[p] > 0}

OcrExtract ==
    /\ rd.pc = "ocr"
    /\ Opens(rd.extension, rd.content)
    /\ rd' = [rd EXCEPT
          !.pc = "clean",
          !.read = IF rd.extension = "image" THEN ExtractImage ELSE ExtractPdf]

(* Any exception is retried; the last one is the pipeline's.               *)
OcrRaises ==
    /\ rd.pc = "ocr"
    /\ rd' = [rd EXCEPT !.attempt = @ + 1,
                        !.pc = IF rd.attempt + 1 < OcrAttempts THEN @
                               ELSE "rejected"]

(* Nothing in cleaning raises: the language detection is in a try.         *)
CleanText ==
    /\ rd.pc = "clean"
    /\ rd' = [rd EXCEPT !.pc = "extract"]

ExtractMetadata ==
    /\ rd.pc = "extract"
    /\ rd' = [rd EXCEPT !.pc = IF Extracts(rd.type) THEN "chunk"
                               ELSE "rejected"]

(* A text without any chunk is verified as well.                           *)
ChunkStage ==
    /\ rd.pc = "chunk"
    /\ rd' = [rd EXCEPT !.pc = "verified"]

ReadingEnds ==
    /\ rd.pc \in {"verified", "rejected"}
    /\ rd' = IdleReading

ReadingNext ==
    \/ \E type \in DocumentType, extension \in Extension,
          content \in Content, pages \in SeqOf(NativeChars, FilePages) :
              Read(type, extension, content, pages)
    \/ \E malicious \in BOOLEAN : ValidateBytes(malicious)
    \/ OcrExtract
    \/ OcrRaises
    \/ CleanText
    \/ ExtractMetadata
    \/ ChunkStage
    \/ ReadingEnds

ReadingSpec == ReadingInit /\ [][ReadingNext]_rd

-----------------------------------------------------------------------------
(* Only documents of five of the 23 types are ever verified by the         *)
(* pipeline, and only from a PDF or an image: the extractor of every other *)
(* type raises after all the reading was done, and no text file that the   *)
(* validator lets pass can be read (DOC_TYPE_MAP, get_extractor,           *)
(* OCRService.extract).                                                    *)
OnlyReadableVerified ==
    rd.pc = "verified" =>
        /\ rd.type \in {"aadhaar", "pan_card", "salary_slip",
                        "bank_statement", "form_16"}
        /\ rd.content \in {"pdf", "image"}

=============================================================================
