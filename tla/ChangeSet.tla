----------------------------- MODULE ChangeSet ------------------------------
(***************************************************************************)
(* What the agent did to the files, as a person gets to see it and as it   *)
(* is published: the write tools and their record (`tools/editing.py`),    *)
(* the change set (`diff.py`), its recovery from git after a restart       *)
(* (`uncommitted_changes` of `workspace.py`), and the paths and contents   *)
(* that `_publish` and `publish_changes` take from diff and disk.          *)
(*                                                                         *)
(* A file is read as text, with every line end and every byte that is not  *)
(* UTF-8 normalised, and written back as such; git gives the line ends of  *)
(* HEAD as they are.  So a content is a text and whether its lines end in  *)
(* CRLF.  The tools take a path as the model spells it, "a.py" as well as  *)
(* "./a.py", and keep the spelling.  Calls that are refused change nothing *)
(* and are left out.                                                       *)
(***************************************************************************)
EXTENDS Naturals, Sequences, SequencesExt

CONSTANTS
    Files,      \* files, as git names them
    Texts,      \* texts a file may have
    Empty,      \* the text without a character
    None,       \* no file
    Cloned,     \* the clone: content of every file, or None
    Unlisted,   \* git status does not name these when they are new: they are ignored, or
                \* in a directory without a tracked file, which it names instead
    Leftovers,  \* files that test runs write
    MaxEdits    \* bound on edits

Content == [text : Texts, crlf : BOOLEAN]

ASSUME TextsAssumption == Empty \in Texts /\ None \notin Content
ASSUME FilesAssumption ==
    /\ IsFiniteSet(Files)
    /\ Cloned \in [Files -> Content \cup {None}]
    /\ Unlisted \subseteq Files /\ Leftovers \subseteq Files
    /\ MaxEdits \in Nat

Path == [file : Files, dotted : BOOLEAN]
FileChange == [path : Path, original : Content]
FileDiff == [path : Path, before : Content, after : Content]
Phases == {"implementing", "testing", "reviewed", "published", "failed"}

VARIABLES
    phase,      \* of the run
    disk,       \* the working tree
    changes,    \* context.changes and then scratch.changes
    diff,       \* the reviewed diff
    branch,     \* files on the branch of the pull request
    recovered,  \* history: the changes were read back from git
    left        \* history: files that test runs have written

vars == <<phase, disk, changes, diff, branch, recovered, left>>

Plain(text) == [text |-> text, crlf |-> FALSE]

\* read_text, and the empty text for a file that is not there.
ReadText(content) == IF content = None THEN Plain(Empty) ELSE Plain(content.text)

Init ==
    /\ phase = "implementing"
    /\ disk = Cloned
    /\ changes = <<>>
    /\ diff = {}
    /\ branch = Cloned
    /\ recovered = FALSE
    /\ left = {}

-----------------------------------------------------------------------------
(* The write tools.                                                        *)

\* The file becomes `content`, and what it was is recorded.
Edit(path, content) ==
    /\ phase = "implementing"
    /\ Len(changes) < MaxEdits
    /\ disk' = [disk EXCEPT ![path.file] = content]
    /\ changes' = Append(changes, [path |-> path, original |-> ReadText(disk[path.file])])
    /\ UNCHANGED <<phase, diff, branch, recovered, left>>

WriteFile(path, text) == Edit(path, Plain(text))

\* The text to find has a character, so the file has one.
ReplaceInFile(path, text) ==
    /\ disk[path.file] # None /\ disk[path.file].text # Empty
    /\ Edit(path, Plain(text))

DeleteFile(path) == disk[path.file] # None /\ Edit(path, None)

-----------------------------------------------------------------------------
(* Tests and restarts.                                                     *)

\* A test run writes a file into the working tree.
LeaveFile(f, text) ==
    /\ phase \in {"implementing", "testing"}
    /\ f \notin left
    /\ disk' = [disk EXCEPT ![f] = Plain(text)]
    /\ left' = left \cup {f}
    /\ UNCHANGED <<phase, changes, diff, branch, recovered>>

\* implement_and_repair is over.
RepairEnds ==
    /\ phase = "implementing"
    /\ phase' = "testing"
    /\ UNCHANGED <<disk, changes, diff, branch, recovered, left>>

\* git status names changed files, and new ones unless they are ignored or their directory
\* is new as well: then it names that, in which build_change_set finds no file.
Listed(f) == disk[f] # Cloned[f] /\ (Cloned[f] = None => f \notin Unlisted)

\* uncommitted_changes: what HEAD has, as git shows it.
Uncommitted ==
    {[path |-> [file |-> f, dotted |-> FALSE],
      original |-> IF Cloned[f] = None THEN Plain(Empty) ELSE Cloned[f]] :
        f \in {g \in Files : Listed(g)}}

\* A worker goes on with a run past IMPLEMENTING whose worker was lost.
Restart ==
    /\ phase = "testing"
    /\ changes' = SetToSeq(Uncommitted)
    /\ recovered' = TRUE
    /\ UNCHANGED <<phase, disk, diff, branch, left>>

-----------------------------------------------------------------------------
(* Diff and publication.                                                   *)

Paths == {changes[i].path : i \in DOMAIN changes}

\* Mutant: the content before the last edit of a path.
LatestOriginal(path) ==
    LET last == CHOOSE i \in DOMAIN changes :
                   /\ changes[i].path = path
                   /\ \A j \in DOMAIN changes : changes[j].path = path => j <= i
    IN  changes[last].original

\* _collapse: the content before the first edit of a path.
EarliestOriginal(path) ==
    LET first == CHOOSE i \in DOMAIN changes :
                    /\ changes[i].path = path
                    /\ \A j \in DOMAIN changes : changes[j].path = path => i <= j
    IN  changes[first].original

\* build_change_set: what differs from the recorded original.
ChangedFiles ==
    {d \in {[path |-> p, before |-> EarliestOriginal(p), after |-> ReadText(disk[p.file])] :
               p \in Paths} : d.before # d.after}

\* _assess stores the diff, or fails the run without one.
Review ==
    /\ phase = "testing"
    /\ diff' = ChangedFiles
    /\ phase' = IF ChangedFiles = {} THEN "failed" ELSE "reviewed"
    /\ UNCHANGED <<disk, changes, branch, recovered, left>>

\* Mutant: a file that is gone is committed empty.
EvenIfGone(f) == ReadText(disk[f])

\* What is pushed for a path of the diff: its text, or its removal if it is no file.
Pushed(f) == IF disk[f] = None THEN None ELSE ReadText(disk[f])

\* _publish, when the diff names every file as GitHub does.
Publish ==
    /\ phase = "reviewed"
    /\ \A d \in diff : ~d.path.dotted
    /\ branch' = [f \in Files |-> IF \E d \in diff : d.path.file = f THEN Pushed(f) ELSE branch[f]]
    /\ phase' = "published"
    /\ UNCHANGED <<disk, changes, diff, recovered, left>>

Next ==
    \/ \E p \in Path :
          \/ \E t \in Texts : WriteFile(p, t) \/ ReplaceInFile(p, t)
          \/ DeleteFile(p)
    \/ \E f \in Leftovers, t \in Texts : LeaveFile(f, t)
    \/ RepairEnds
    \/ Restart
    \/ Review
    \/ Publish

Spec == Init /\ [][Next]_vars

-----------------------------------------------------------------------------
(* Properties.                                                             *)

\* Tree, record, diff and branch are made of the contents and paths of the clone.
TypeOK ==
    /\ phase \in Phases
    /\ disk \in [Files -> Content \cup {None}]
    /\ changes \in Seq(FileChange)
    /\ diff \subseteq FileDiff
    /\ branch \in [Files -> Content \cup {None}]
    /\ recovered \in BOOLEAN
    /\ left \subseteq Leftovers

TextOf(content) == ReadText(content).text

\* Files whose history the change set can know: not written by a test run, not unknown to
\* git when that was asked.
Known(f) == f \notin left /\ (recovered /\ Cloned[f] = None => f \notin Unlisted)

\* Edited under one name, so that there is one earliest original.
OneName(f) == ~\E p, q \in Paths : p.file = f /\ q.file = f /\ p # q

\* A person is shown every file the agent changed, from the text it was cloned with to the
\* text it has now, through any number of edits and a restart; and a file that is not
\* changed only for its line ends, or if it was edited under two names.
\* (_collapse, build_change_set, uncommitted_changes.)
DiffIsExact ==
    phase = "reviewed" =>
       /\ \A f \in Files : Known(f) /\ TextOf(Cloned[f]) # TextOf(disk[f]) =>
             \E d \in diff : /\ d.path.file = f
                             /\ d.before.text = TextOf(Cloned[f])
                             /\ d.after.text = TextOf(disk[f])
       /\ \A d \in diff : LET f == d.path.file IN
             f \notin left /\ OneName(f) /\ TextOf(Cloned[f]) = TextOf(disk[f])
                => recovered /\ Cloned[f].crlf

\* The pull request changes the text of just the files the diff names, each to the text the
\* diff ends with, and removes just those it ends without.  (_publish decides between edit
\* and removal by what is on disk.)
PublishedIsReviewed ==
    phase = "published" =>
       \A f \in Files :
          /\ (\E d \in diff : d.path.file = f) =>
                /\ \A d \in diff : d.path.file = f => d.after.text = TextOf(branch[f])
                /\ branch[f] = None <=> disk[f] = None
          /\ ~(\E d \in diff : d.path.file = f) => branch[f] = Cloned[f]
=============================================================================
