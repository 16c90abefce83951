------------------------------ MODULE Chunking ------------------------------
(***************************************************************************)
(* How a file is cut into chunks (`chunk.py`).  A file that can be parsed  *)
(* is cut at its declarations; one that cannot, or declares nothing, into  *)
(* overlapping windows of lines.                                           *)
(*                                                                         *)
(* The syntax tree is a function from paths, the positions of a node and   *)
(* its ancestors among their siblings, to nodes; <<>> is the root.  The    *)
(* node types of the grammars are abstracted to the four cases of `_walk`, *)
(* and the name `_node_name` finds in a node is a field of the node.  The  *)
(* list of chunks is a set: they become rows, whose order is of no use,    *)
(* and each is a stretch of its own, as every node is visited once.        *)
(***************************************************************************)
EXTENDS LineWindows, Sequences, FiniteSets, SequencesExt

CONSTANTS
    Unnamed,                \* no name
    FALLBACK_WINDOW_LINES,
    FALLBACK_OVERLAP_LINES,
    MAX_CHUNK_LINES,
    MIN_UNNAMED_CHUNK_LINES,
    MAX_WALK_DEPTH

ASSUME ChunkingAssumption ==
    /\ {MAX_CHUNK_LINES, FALLBACK_WINDOW_LINES} \subseteq Nat \ {0}
    /\ {FALLBACK_OVERLAP_LINES, MIN_UNNAMED_CHUNK_LINES, MAX_WALK_DEPTH} \subseteq Nat
    /\ FALLBACK_OVERLAP_LINES < FALLBACK_WINDOW_LINES

\* WRAPPER_KINDS, CONTAINER_KINDS, other values of DECLARATION_NODES, other nodes.
Kinds == {"wrapper", "container", "leaf", "plain"}

\* A file: its number of lines, which of them are blank, whether there is a parser for it,
\* and the tree.
Lines(file) == 1..file.lines
Text(file) == Lines(file) \ file.blank

\* The node that a path goes through on level n.
Up(path, n) == SubSeq(path, 1, n)

\* The nodes around a node are there, the root is no declaration, and what is one, or wraps
\* one, begins with a token.
IsFile(file) ==
    /\ file.lines \in Nat
    /\ file.parsed =>
          /\ DOMAIN file.tree \subseteq Seq(Nat)
          /\ <<>> \in DOMAIN file.tree /\ file.tree[<<>>].kind = "plain"
          /\ \A p \in DOMAIN file.tree :
                LET node == file.tree[p]
                IN  /\ \A n \in 0..Len(p) : Up(p, n) \in DOMAIN file.tree
                    /\ node.kind \in Kinds
                    /\ node.first \in Lines(file) /\ node.last \in Lines(file)
                    /\ node.first <= node.last
                    /\ node.kind # "plain" => node.first \in Text(file)

\* A CodeChunk: the node its content is from (or <<>>, the file), and which lines it is.
Chunk(node, symbol, parent, first, last) ==
    [node |-> node, symbol |-> symbol, parent |-> parent, first |-> first, last |-> last]

\* Windows with a line that is not blank, as chunks.
Pieces(file, node, windows, symbol, parent) ==
    {Chunk(node, symbol, parent, w.first, w.last) :
        w \in {x \in Range(windows) : x.first..x.last \cap Text(file) # {}}}

\* _make_chunk and _split_oversized.
MakeChunk(file, path, symbol, parent) ==
    LET node == file.tree[path]
    IN  IF node.last - node.first + 1 <= MAX_CHUNK_LINES
        THEN {Chunk(path, symbol, parent, node.first, node.last)}
        ELSE Pieces(file, path,
                    Windows(node.first, node.last, MAX_CHUNK_LINES, MAX_CHUNK_LINES),
                    symbol, parent)

FallbackWindows(file) ==
    Pieces(file, <<>>,
           Windows(1, file.lines, FALLBACK_WINDOW_LINES,
                   FALLBACK_WINDOW_LINES - FALLBACK_OVERLAP_LINES), Unnamed, Unnamed)

Children(tree, path) == {p \in DOMAIN tree : p # <<>> /\ Front(p) = path}

\* _inner_declaration: the path of the first child that is a declaration and no wrapper.
InnerDeclarations(tree, path) ==
    {p \in Children(tree, path) : /\ tree[p].kind \in {"container", "leaf"}
                                  /\ \A q \in Children(tree, path) :
                                        tree[q].kind \in {"container", "leaf"} => Last(p) <= Last(q)}

\* Mutant: an unnamed container hides the name of the one it is in.
OwnNameOnly(name, parent) == name

\* The parent_symbol of what is declared in a container.
Scope(name, parent) == IF name = Unnamed THEN parent ELSE name

\* What _walk emits for a container: chunks from inside it, or else itself, with its wrapper.
\* What it emits a level deeper is `deeper`, of a node under the name of what is around it.
Container(file, deeper, inner, outer, parent) ==
    LET name == file.tree[inner].name
        inside == deeper[inner][Scope(name, parent)]
    IN  IF inside = {} THEN MakeChunk(file, outer, name, parent) ELSE inside

\* What _walk emits for one child.
Visit(file, deeper, path, parent) ==
    LET node == file.tree[path]
        wrapped == InnerDeclarations(file.tree, path)
        inner == CHOOSE p \in wrapped : TRUE
    IN  CASE node.kind = "wrapper" /\ wrapped = {} -> {}
          [] node.kind = "wrapper" /\ wrapped # {} ->
                IF file.tree[inner].kind = "container"
                THEN Container(file, deeper, inner, path, parent)
                ELSE MakeChunk(file, path, file.tree[inner].name, parent)
          [] node.kind = "container" -> Container(file, deeper, path, path, parent)
          [] node.kind = "leaf" -> MakeChunk(file, path, node.name, parent)
          [] node.kind = "plain" -> deeper[path][parent]

Names(file) == {file.tree[p].name : p \in DOMAIN file.tree} \cup {Unnamed}

\* What is emitted for the children of every node, under every name, one level up.
Level(file, deeper) ==
    [path \in DOMAIN file.tree |-> [parent \in Names(file) |->
        UNION {Visit(file, deeper, child, parent) : child \in Children(file.tree, path)}]]

Nothing(file) == [path \in DOMAIN file.tree |-> [parent \in Names(file) |-> {}]]

\* _walk of each node with each parent_symbol, by the levels left to MAX_WALK_DEPTH.
Walk(file) ==
    LET walk[left \in Nat] == IF left = 0 THEN Nothing(file) ELSE Level(file, walk[left - 1])
    IN  walk

ChunkFile(file) ==
    LET chunks == IF file.parsed THEN Walk(file)[MAX_WALK_DEPTH + 1][<<>>][Unnamed] ELSE {}
        kept == {c \in chunks : \/ c.symbol # Unnamed
                                \/ c.last - c.first + 1 >= MIN_UNNAMED_CHUNK_LINES}
    IN  CASE Text(file) = {} -> {}
          [] Text(file) # {} /\ chunks = {} -> FallbackWindows(file)
          [] Text(file) # {} /\ chunks # {} -> IF kept = {} THEN chunks ELSE kept

-----------------------------------------------------------------------------
(* What the chunks of a file should be, said of the ancestors of a node.   *)

\* The levels between a node and the root.
Above(path) == 1..Len(path) - 1

Below(tree, path) == {p \in DOMAIN tree : Len(path) < Len(p) /\ Up(p, Len(path)) = path}

\* Not in another declaration that is kept whole, not past the depth limit, and if in a
\* wrapper then in what it wraps.
Reached(tree, path) ==
    /\ path # <<>>
    /\ Cardinality({n \in Above(path) : tree[Up(path, n)].kind # "wrapper"}) <= MAX_WALK_DEPTH
    /\ \A n \in Above(path) :
          /\ tree[Up(path, n)].kind # "leaf"
          /\ tree[Up(path, n)].kind = "wrapper" =>
                Up(path, n + 1) \in InnerDeclarations(tree, Up(path, n))

\* The declarations that are to be found on their own.
Declarations(tree) ==
    {p \in DOMAIN tree :
        /\ Reached(tree, p)
        /\ \/ tree[p].kind = "leaf"
           \/ /\ tree[p].kind = "container"
              /\ \A q \in Below(tree, p) : tree[q].kind \in {"leaf", "container"} => ~Reached(tree, q)}

\* A declaration, or its wrapper.
Outer(tree, path) ==
    IF tree[Front(path)].kind = "wrapper" THEN Front(path) ELSE path

\* The name of the innermost named container around a node.
Parent(tree, path) ==
    LET named == {n \in Above(path) : /\ tree[Up(path, n)].kind = "container"
                                      /\ tree[Up(path, n)].name # Unnamed}
        innermost == {n \in named : \A m \in named : m <= n}
    IN  IF named = {} THEN Unnamed ELSE tree[Up(path, CHOOSE n \in innermost : TRUE)].name

\* Every chunk is of a declaration, under its name and its parent's and from its lines; and a
\* declaration with a name has each of its lines in one chunk.
DeclarationsAreWhole(file, chunks) ==
    /\ \A c \in chunks : \E p \in Declarations(file.tree) :
          /\ c.node = Outer(file.tree, p)
          /\ c.symbol = file.tree[p].name /\ c.parent = Parent(file.tree, p)
          /\ file.tree[c.node].first <= c.first /\ c.last <= file.tree[c.node].last
    /\ \A p \in Declarations(file.tree) :
          LET outer == Outer(file.tree, p)
          IN  file.tree[p].name # Unnamed =>
                 \A line \in file.tree[outer].first..file.tree[outer].last \cap Text(file) :
                    Cardinality({c \in chunks : /\ c.node = outer
                                                /\ c.first <= line /\ line <= c.last}) = 1

\* What is no longer than the overlap and one line is whole in one of the windows, wherever
\* it begins.
ConstructsAreWhole(file, chunks) ==
    \A first \in Text(file), last \in Lines(file) :
       first <= last /\ last - first <= FALLBACK_OVERLAP_LINES =>
          \E c \in chunks : c.first <= first /\ last <= c.last
=============================================================================
