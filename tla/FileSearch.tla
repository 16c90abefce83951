----------------------------- MODULE FileSearch -----------------------------
(***************************************************************************)
(* A search (CodeSearch) over the chunks that Chunking makes of the files. *)
(***************************************************************************)
EXTENDS Chunking, CodeSearch

ASSUME FilesAssumption ==
    /\ \A f \in Files : IsFile(f)
    /\ ChunksOf = [f \in Files |-> ChunkFile(f)]

\* A declaration is found in chunks that together have each of its lines once, under its own
\* name and that of the container around it, whatever wrappers and other nodes it is nested
\* in, and no chunk is anything else; and "overlapping windows mean a construct sitting on a
\* boundary still appears whole in one of them", if it is at most a line longer than the
\* overlap.  (_walk, _split_oversized, _fallback_windows and chunk_file, against a definition
\* of declarations by the ancestors of a node.)
ChunksAreWhole ==
    IF file.parsed /\ Declarations(file.tree) # {}
    THEN DeclarationsAreWhole(file, chunks)
    ELSE ConstructsAreWhole(file, chunks)
=============================================================================
