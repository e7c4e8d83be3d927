SPECIFICATION TextSpec
CONSTANTS
    OcrAttempts = 2
    PagesRead = 1
    FilePages = 2
    Threshold = 2
    NativeChars = {0, 4}
    ChunkSize = 4
    Overlap = 1
    Lengths = {2, 6}
    PagesMost = 2
    ParagraphsMost = 2
    SentencesMost = 2
    Text = {t1, t2}
    Model = {m1, m2}
    Batch = {b1}
    MaxTexts = 2
    Chunk = {c1, c2}
    Kb = {k1, k2}
    TopHybrid = 2
    TopFinal = {1, 2}
    Weights = {6, 10}
    MaxContext = 14
    MinTail = 1
    Header = 2
    TextLengths = {1, 9}
SYMMETRY Symmetry
INVARIANTS OnlyReadableVerified NothingLost IndexOrders VectorsMatch
    FusedDominates BestKept QualityPoor ContextFits
