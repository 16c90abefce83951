----------------------------- MODULE CodeSearch -----------------------------
(***************************************************************************)
(* A search for code (`retrieve.py`, `build_retriever` of `runtime.py`).   *)
(* Each query of a phase is answered by vectors and by text, the two lists *)
(* are fused by rank, and the answers of the queries are merged by best    *)
(* score and cut to the limit.                                             *)
(*                                                                         *)
(* A weight over K + rank is a fraction: Share[rank] is 1 / (K + rank) in  *)
(* units that make every share whole.  How near a chunk is to the vector   *)
(* of a query, which chunks contain a text, how like a symbol another is,  *)
(* and the order of equal scores are left open.  Names that Indexing has   *)
(* too begin with Search, for the sake of the proofs, which extend both.   *)
(***************************************************************************)
EXTENDS Naturals, Sequences, FiniteSets, Functions

CONSTANTS
    Files,          \* files that may have been indexed
    ChunksOf,       \* the chunks of each
    Symbols,        \* symbols a search may name
    RRF_K, CANDIDATES_PER_STRATEGY,
    SemanticWeight, LexicalWeight,
    Share,          \* of a rank
    Limit,          \* on chunks returned
    MaxQueries,     \* queries[:6]
    Searched        \* bound: the files whose searches are explored

Ranks == 1..CANDIDATES_PER_STRATEGY

ASSUME LimitsAssumption ==
    /\ {RRF_K, CANDIDATES_PER_STRATEGY, SemanticWeight, LexicalWeight} \subseteq Nat \ {0}
    /\ {Limit, MaxQueries} \subseteq Nat

ASSUME ChunksAssumption ==
    DOMAIN ChunksOf = Files /\ \A f \in Files : IsFiniteSet(ChunksOf[f])

\* Every share is the same unit divided by K + rank.
ASSUME ShareAssumption ==
    /\ Share \in [Ranks -> Nat \ {0}]
    /\ \A p, q \in Ranks : Share[p] * (RRF_K + p) = Share[q] * (RRF_K + q)

\* The weights, K and the number of candidates go together: the last rank of both lists
\* counts for more than the first of one.
ASSUME WeightsAssumption ==
    \A weight \in {SemanticWeight, LexicalWeight} :
       (SemanticWeight + LexicalWeight) * (RRF_K + 1) > weight * (RRF_K + CANDIDATES_PER_STRATEGY)

VARIABLES
    file,       \* that was indexed
    chunks,     \* its chunks
    asked,      \* queries answered
    collected,  \* chunk -> its best result
    returned,   \* chunks of the answer, in order
    agreed      \* history: chunks that both strategies found for a query

searchVars == <<file, chunks, asked, collected, returned, agreed>>

\* A RetrievedChunk: the number of strategies that found it, and its score.
Result == [strategies : 1..2, score : Nat]

SearchInit ==
    /\ file \in Files
    /\ chunks = ChunksOf[file]
    /\ asked = 0
    /\ collected = <<>>
    /\ returned = <<>>
    /\ agreed = {}

-----------------------------------------------------------------------------
(* One query.                                                              *)

Smaller(a, b) == IF a <= b THEN a ELSE b

\* LIMIT n: that many of a set, or all of it, in some order.
Limited(set, n) == Injection(1..Smaller(n, Cardinality(set)), set)

\* order_by(distance).
SemanticSearches == Limited(chunks, CANDIDATES_PER_STRATEGY)

\* A chunk whose symbol is named comes before one that only contains a text.  Similarity is
\* equal among the first, and among all if no symbol is named: then by line.
LexicalOrder(symbols, list) ==
    LET exact(c) == c.symbol \in symbols
    IN  \A i, j \in DOMAIN list : i < j =>
           /\ exact(list[j]) => exact(list[i])
           /\ symbols = {} \/ exact(list[j]) =>
                list[i].first <= list[j].first

LexicalLists(symbols, mentions) ==
    LET hits == {c \in chunks : c.symbol \in symbols} \cup mentions
    IN  {list \in Limited(hits, CANDIDATES_PER_STRATEGY) :
           /\ LexicalOrder(symbols, list)
           /\ \A c \in hits \ Range(list) : LexicalOrder(symbols, Append(list, c))}

\* For any symbols, and whichever chunks contain them or the query.
LexicalSearches ==
    UNION {LexicalLists(symbols, mentions) : symbols \in SUBSET Symbols, mentions \in SUBSET chunks}

Contribution(list, weight, c) ==
    IF c \in Range(list) THEN weight * Share[CHOOSE i \in DOMAIN list : list[i] = c] ELSE 0

\* Mutant: the last list that has the chunk gives the score.
LastContribution(semantic, lexical, c) ==
    IF c \in Range(lexical) THEN Contribution(lexical, LexicalWeight, c)
    ELSE Contribution(semantic, SemanticWeight, c)

Score(semantic, lexical, c) ==
    Contribution(semantic, SemanticWeight, c) + Contribution(lexical, LexicalWeight, c)

\* reciprocal_rank_fusion.
Fused(semantic, lexical) ==
    [c \in Range(semantic) \cup Range(lexical) |->
        [strategies |-> IF c \in Range(semantic) \cap Range(lexical) THEN 2 ELSE 1,
         score |-> Score(semantic, lexical, c)]]

\* The best of the results, as many as the limit allows: sorted and cut.
IsBest(top, results) ==
    /\ top \subseteq DOMAIN results
    /\ Cardinality(top) = Smaller(Limit, Cardinality(DOMAIN results))
    /\ \A c \in top, d \in DOMAIN results \ top : results[c].score >= results[d].score

\* hybrid_search, and what retrieve does with it.
Query(semantic, lexical) ==
    LET fused == Fused(semantic, lexical)
        better(c) == c \in DOMAIN collected => fused[c].score > collected[c].score
    IN  /\ returned = <<>> /\ asked < MaxQueries /\ file \in Searched
        /\ asked' = asked + 1
        /\ \E top \in SUBSET DOMAIN fused :
              /\ IsBest(top, fused)
              /\ collected' = [c \in DOMAIN collected \cup top |->
                                  IF c \in top /\ better(c) THEN fused[c] ELSE collected[c]]
        /\ agreed' = agreed \cup (Range(semantic) \cap Range(lexical))
        /\ UNCHANGED <<file, chunks, returned>>

\* retrieve returns.
Answer(list) ==
    /\ returned = <<>>
    /\ IsBest(Range(list), collected)
    /\ \A i, j \in DOMAIN list : i < j => collected[list[i]].score >= collected[list[j]].score
    /\ returned' = list
    /\ UNCHANGED <<file, chunks, asked, collected, agreed>>

SearchNext ==
    \/ \E semantic \in SemanticSearches, lexical \in LexicalSearches : Query(semantic, lexical)
    \/ \E list \in Limited(DOMAIN collected, Limit) : Answer(list)

SearchSpec == SearchInit /\ [][SearchNext]_searchVars

-----------------------------------------------------------------------------
(* Properties.                                                             *)

SearchTypeOK ==
    /\ file \in Files /\ chunks = ChunksOf[file]
    /\ asked \in 0..MaxQueries
    /\ DOMAIN collected \subseteq chunks
    /\ \A c \in DOMAIN collected : collected[c] \in Result
    /\ returned \in Seq(DOMAIN collected)
    /\ agreed \subseteq chunks

\* "A chunk found by both strategies outranks one that only one strategy loved": over all
\* queries of a search none comes before such a chunk, and none is returned when such a
\* chunk is not.  (reciprocal_rank_fusion and build_retriever, whose cuts might lose it.)
AgreementWins ==
    returned # <<>> =>
       \A i \in DOMAIN returned : collected[returned[i]].strategies = 1 =>
          /\ agreed \subseteq Range(returned)
          /\ \A j \in DOMAIN returned : j > i => collected[returned[j]].strategies = 1
=============================================================================
