SPECIFICATION RetrievalSpec
CONSTANTS
    Chunk = {c1}
    Kb = {k1, k2}
    TopHybrid = 1
    TopFinal = {1}
    Weights = {6}
    MaxContext = 14
    MinTail = 1
    Header = 2
    TextLengths = {1}
INVARIANT SearchedWithin
