---------------------------- MODULE MCCodeSearch ----------------------------
(* FileSearch for TLC, with many small files. *)
EXTENDS FileSearch, TLC

CONSTANTS a, b, c, d

Node(kind, name, first, last) == [kind |-> kind, name |-> name, first |-> first, last |-> last]

Root == <<>> :> Node("plain", Unnamed, 1, 9)

\* Four nodes in each other, of any kinds.
Chain(kinds, names) ==
    Root @@ <<1>> :> Node(kinds[1], names[1], 1, 8)
         @@ <<1, 1>> :> Node(kinds[2], names[2], 2, 7)
         @@ <<1, 1, 1>> :> Node(kinds[3], names[3], 2, 5)
         @@ <<1, 1, 1, 1>> :> Node(kinds[4], names[4], 3, 4)

\* A short declaration after one of them.  A wrapper wraps only one.
After(path, name) ==
    IF Len(path) = 3 THEN path :> Node("leaf", name, 6, 6)
    ELSE IF Len(path) = 2 THEN path :> Node("leaf", name, 8, 8)
    ELSE path :> Node("leaf", name, 9, 9)

Trees ==
    LET chains == {Chain(kinds, names) :
                     kinds \in [1..4 -> Kinds], names \in {<<a, b, c, a>>, <<a, Unnamed, c, Unnamed>>}}
        with(path, name) ==
            {tree @@ After(path, name) : tree \in {t \in chains : t[Front(path)].kind # "wrapper"}}
    IN  chains \cup with(<<2>>, Unnamed) \cup with(<<1, 2>>, d) \cup with(<<1, 1, 2>>, d)

File(tree) == [lines |-> 9, blank |-> {4, 5}, parsed |-> TRUE, tree |-> tree]

TextFile(lines, blank) == [lines |-> lines, blank |-> blank, parsed |-> FALSE, tree |-> Root]

Sources ==
    {File(tree) : tree \in Trees}
    \cup {TextFile(n, blank \cap 1..n) : n \in 1..9, blank \in {{}, {4, 5}, 2..6, 1..9}}

\* A function of eight lines and one of one, two methods, and a text of nine lines.
SearchedSources ==
    {File(Chain(<<"leaf", "plain", "plain", "plain">>, <<a, b, c, a>>) @@ After(<<2>>, d)),
     File(Chain(<<"container", "plain", "leaf", "plain">>, <<a, b, c, a>>) @@ After(<<1, 2>>, d)),
     TextFile(9, {})}

ChunksOfSources == [f \in Sources |-> ChunkFile(f)]

\* The unit of scores is 1 / ((K + 1) * (K + 2)).
ShareOfRanks == [rank \in 1..2 |-> IF rank = 1 THEN RRF_K + 2 ELSE RRF_K + 1]
=============================================================================
