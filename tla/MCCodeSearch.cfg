CONSTANTS
    a = a
    b = b
    c = c
    d = d
    Unnamed = Unnamed
    FALLBACK_WINDOW_LINES = 4
    FALLBACK_OVERLAP_LINES = 1
    MAX_CHUNK_LINES = 3
    MIN_UNNAMED_CHUNK_LINES = 2
    MAX_WALK_DEPTH = 2
    Files <- Sources
    ChunksOf <- ChunksOfSources
    Symbols = {a, c}
    RRF_K = 1
    CANDIDATES_PER_STRATEGY = 2
    SemanticWeight = 10
    LexicalWeight = 12
    Share <- ShareOfRanks
    Limit = 2
    MaxQueries = 3
    Searched <- SearchedSources
SPECIFICATION SearchSpec
CHECK_DEADLOCK FALSE
INVARIANT AgreementWins
INVARIANT ChunksAreWhole
