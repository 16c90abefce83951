--------------------------- MODULE ChangeSetProofs ---------------------------
(***************************************************************************)
(* Proofs about ChangeSet, for any files, texts, clone and number of edits.*)
(*                                                                         *)
(* A diff is right because of its earliest originals.  Of the edits of a   *)
(* file the very first one recorded what was cloned (Recorded); of changes *)
(* read back from git each is the only one of its file, and each file that *)
(* git lists has one (ReadBack).  After the review nothing moves (Frozen). *)
(***************************************************************************)
EXTENDS ChangeSet, FiniteSetTheorems, TLAPS

\* The change at i is the earliest one of its path.
IsFirst(i) ==
    /\ i \in DOMAIN changes
    /\ \A j \in DOMAIN changes : changes[j].path = changes[i].path => i <= j

HasFirst ==
    \A i \in DOMAIN changes : \E k : IsFirst(k) /\ changes[k].path = changes[i].path

Recorded ==
    ~recovered =>
       \A f \in Files \ left :
          \/ disk[f] = Cloned[f] /\ \A i \in DOMAIN changes : changes[i].path.file # f
          \/ \E i : /\ IsFirst(i)
                    /\ changes[i].path.file = f
                    /\ changes[i].original = ReadText(Cloned[f])

\* A file as HEAD has it.
AtHead(f) == IF Cloned[f] = None THEN Plain(Empty) ELSE Cloned[f]

ReadBack ==
    recovered =>
       /\ phase # "implementing"
       /\ \A i \in DOMAIN changes :
             ~changes[i].path.dotted /\ changes[i].original = AtHead(changes[i].path.file)
       /\ \A f \in Files \ left :
             Listed(f) => \E i \in DOMAIN changes : changes[i].path.file = f

Published == [f \in Files |-> IF \E d \in diff : d.path.file = f THEN Pushed(f) ELSE Cloned[f]]

Frozen ==
    /\ phase \in {"reviewed", "published"} => diff = ChangedFiles
    /\ phase # "published" => branch = Cloned
    /\ phase = "published" => branch = Published

Inv == TypeOK /\ HasFirst /\ Recorded /\ ReadBack /\ Frozen

-----------------------------------------------------------------------------
(* Contents.                                                               *)

LEMMA PlainTexts ==
    ASSUME NEW text \in Texts
    PROVE  /\ Plain(text) \in Content /\ Plain(text) # None
           /\ Plain(text).text = text /\ Plain(text).crlf = FALSE
           /\ ReadText(Plain(text)) = Plain(text)
<1>1. Plain(text) \in Content /\ Plain(text).text = text /\ Plain(text).crlf = FALSE
  BY DEF Plain, Content
<1>2. Plain(text) # None
  BY <1>1, TextsAssumption
<1> QED  BY <1>1, <1>2 DEF ReadText

LEMMA ReadTexts ==
    ASSUME NEW content \in Content \cup {None}
    PROVE  /\ ReadText(content) \in Content
           /\ TextOf(content) \in Texts
           /\ ReadText(content) = Plain(TextOf(content))
<1>1. CASE content = None
  BY <1>1, TextsAssumption, PlainTexts DEF ReadText, TextOf
<1>2. CASE content # None
  <2>1. content.text \in Texts
    BY <1>2 DEF Content
  <2> QED  BY <1>2, <2>1, PlainTexts DEF ReadText, TextOf
<1> QED  BY <1>1, <1>2

LEMMA Heads ==
    ASSUME NEW f \in Files
    PROVE  /\ Cloned[f] \in Content \cup {None}
           /\ AtHead(f) \in Content
           /\ AtHead(f).text = TextOf(Cloned[f])
           /\ AtHead(f) # ReadText(Cloned[f]) => Cloned[f].crlf
<1>1. Cloned[f] \in Content \cup {None}
  BY FilesAssumption
<1>2. CASE Cloned[f] = None
  BY <1>1, <1>2, TextsAssumption, PlainTexts DEF AtHead, TextOf, ReadText
<1>3. CASE Cloned[f] # None
  <2>1. Cloned[f] = [text |-> Cloned[f].text, crlf |-> Cloned[f].crlf] /\ Cloned[f].crlf \in BOOLEAN
    BY <1>1, <1>3 DEF Content
  <2>2. Cloned[f].text \in Texts
    BY <1>1, <1>3 DEF Content
  <2>3. AtHead(f) = Cloned[f] /\ ReadText(Cloned[f]) = Plain(Cloned[f].text)
    BY <1>3 DEF AtHead, ReadText
  <2>4. Cloned[f].crlf \/ Cloned[f] = Plain(Cloned[f].text)
    <3>1. Cloned[f].crlf = TRUE \/ Cloned[f].crlf = FALSE
      BY <2>1
    <3> QED  BY <2>1, <3>1 DEF Plain
  <2>5. TextOf(Cloned[f]) = Cloned[f].text
    BY <2>2, <2>3, PlainTexts DEF TextOf
  <2> QED  BY <1>1, <1>3, <2>3, <2>4, <2>5
<1> QED  BY <1>2, <1>3

\* Whatever the order of the changes, the earliest original is that of the first.
LEMMA Earliest ==
    ASSUME TypeOK, NEW i, IsFirst(i)
    PROVE  EarliestOriginal(changes[i].path) = changes[i].original
<1> DEFINE path == changes[i].path
           IsIt(k) == /\ changes[k].path = path
                      /\ \A j \in DOMAIN changes : changes[j].path = path => k <= j
           first == CHOOSE k \in DOMAIN changes : IsIt(k)
<1>1. i \in DOMAIN changes /\ IsIt(i)
  BY DEF IsFirst
<1>2. first \in DOMAIN changes /\ IsIt(first)
  BY <1>1
<1>3. first = i
  <2>1. DOMAIN changes \subseteq Nat
    BY DEF TypeOK
  <2> QED  BY <1>1, <1>2, <2>1
<1>4. EarliestOriginal(path) = changes[first].original
  BY DEF EarliestOriginal
<1> QED  BY <1>3, <1>4

-----------------------------------------------------------------------------
(* The steps.                                                              *)

LEMMA InitInv == Init => Inv
<1> SUFFICES ASSUME Init PROVE Inv
  OBVIOUS
<1>1. TypeOK
  <2>1. changes \in Seq(FileChange)
    BY DEF Init
  <2>2. recovered \in BOOLEAN
    BY DEF Init
  <2> QED  BY <2>1, <2>2, FilesAssumption DEF Init, TypeOK, Phases
<1> QED  BY <1>1 DEF Init, Inv, HasFirst, Recorded, ReadBack, Frozen

\* The original of the first edit of a file is what was cloned; later ones do not matter.
LEMMA EditInv ==
    ASSUME Inv, NEW path \in Path, NEW content \in Content \cup {None}, Edit(path, content)
    PROVE  Inv'
<1> DEFINE file == path.file
           new == [path |-> path, original |-> ReadText(disk[file])]
           n == Len(changes)
<1>1. /\ phase = "implementing" /\ phase' = phase
      /\ disk' = [disk EXCEPT ![file] = content]
      /\ changes' = Append(changes, new)
      /\ diff' = diff /\ branch' = branch /\ recovered' = recovered /\ left' = left
  BY DEF Edit
<1>2. /\ changes \in Seq(FileChange) /\ file \in Files
      /\ disk \in [Files -> Content \cup {None}]
  BY DEF Inv, TypeOK, Path
<1>3. new \in FileChange
  BY <1>2, ReadTexts DEF FileChange
<1>4. /\ n \in Nat /\ DOMAIN changes = 1..n
      /\ DOMAIN changes' = 1..(n + 1)
      /\ \A i \in 1..n : changes'[i] = changes[i]
      /\ changes'[n + 1] = new
  <2> HIDE DEF new
  <2> QED  BY <1>1, <1>2, <1>3
<1>n. PICK last \in Nat : last = n + 1
  BY <1>4
<1>5. TypeOK'
  <2>1. changes' \in Seq(FileChange)
    BY <1>1, <1>2, <1>3
  <2>2. disk' \in [Files -> Content \cup {None}]
    BY <1>1, <1>2
  <2> QED  BY <1>1, <2>1, <2>2 DEF Inv, TypeOK
<1>6. ASSUME NEW i, IsFirst(i)
      PROVE  IsFirst(i)' /\ i \in 1..n /\ changes'[i] = changes[i]
  BY <1>4, <1>6 DEF IsFirst
<1>7. HasFirst'
  <2> SUFFICES ASSUME NEW i \in 1..(n + 1)
               PROVE  \E k : IsFirst(k)' /\ changes'[k].path = changes'[i].path
    BY <1>4 DEF HasFirst
  <2>1. CASE \E j \in 1..n : changes[j].path = changes'[i].path
    <3>1. PICK j \in 1..n : changes[j].path = changes'[i].path
      BY <2>1
    <3>2. PICK k : IsFirst(k) /\ changes[k].path = changes[j].path
      BY <1>4, <3>1 DEF Inv, HasFirst
    <3> QED  BY <1>6, <3>1, <3>2
  <2>2. CASE ~\E j \in 1..n : changes[j].path = changes'[i].path
    <3>1. i = n + 1
      BY <1>4, <2>2
    <3>2. \A j \in 1..(n + 1) : changes'[j].path = changes'[i].path => j = n + 1
      BY <1>4, <2>2
    <3>3. IsFirst(i)'
      BY <1>4, <3>1, <3>2 DEF IsFirst
    <3> QED  BY <3>3
  <2> QED  BY <2>1, <2>2
<1>8. ~recovered
  BY <1>1 DEF Inv, ReadBack
<1>9. Recorded'
  <2> SUFFICES ASSUME NEW f \in Files \ left
               PROVE  \/ disk'[f] = Cloned[f] /\ \A i \in DOMAIN changes' : changes'[i].path.file # f
                      \/ \E i : /\ IsFirst(i)'
                                /\ changes'[i].path.file = f
                                /\ changes'[i].original = ReadText(Cloned[f])
    BY <1>1 DEF Recorded
  <2>1. CASE \E i : /\ IsFirst(i)
                    /\ changes[i].path.file = f
                    /\ changes[i].original = ReadText(Cloned[f])
    BY <1>6, <2>1
  <2>2. CASE disk[f] = Cloned[f] /\ \A i \in DOMAIN changes : changes[i].path.file # f
    <3>1. CASE f # file
      <4>1. disk'[f] = disk[f]
        BY <1>1, <1>2, <3>1
      <4>2. \A i \in 1..(n + 1) : changes'[i].path.file # f
        BY <1>4, <2>2, <3>1
      <4> QED  BY <1>4, <2>2, <4>1, <4>2
    <3>2. CASE f = file
      <4>1. \A j \in 1..n : changes[j].path # path
        BY <1>4, <2>2, <3>2
      <4>2. \A j \in 1..last : changes'[j].path = path => j = last
        BY <1>4, <1>n, <4>1
      <4>3. IsFirst(last)'
        BY <1>4, <1>n, <4>2 DEF IsFirst
      <4>4. changes'[last].path.file = f /\ changes'[last].original = ReadText(Cloned[f])
        BY <1>4, <1>n, <2>2, <3>2
      <4> QED  BY <4>3, <4>4
    <3> QED  BY <3>1, <3>2
  <2> QED  BY <1>8, <2>1, <2>2 DEF Inv, Recorded
<1>10. ReadBack' /\ Frozen'
  BY <1>1, <1>8 DEF Inv, ReadBack, Frozen
<1> QED  BY <1>5, <1>7, <1>9, <1>10 DEF Inv

LEMMA ToolsInv ==
    ASSUME Inv, NEW path \in Path, NEW text \in Texts,
           WriteFile(path, text) \/ ReplaceInFile(path, text) \/ DeleteFile(path)
    PROVE  Inv'
<1>1. Edit(path, Plain(text)) \/ Edit(path, None)
  BY DEF WriteFile, ReplaceInFile, DeleteFile
<1>2. Plain(text) \in Content \cup {None} /\ None \in Content \cup {None}
  BY PlainTexts
<1> QED  BY <1>1, <1>2, EditInv

LEMMA LeaveFileInv ==
    ASSUME Inv, NEW f \in Leftovers, NEW text \in Texts, LeaveFile(f, text)
    PROVE  Inv'
<1>1. /\ phase \in {"implementing", "testing"} /\ phase' = phase
      /\ disk' = [disk EXCEPT ![f] = Plain(text)] /\ left' = left \cup {f}
      /\ changes' = changes /\ diff' = diff /\ branch' = branch /\ recovered' = recovered
  BY DEF LeaveFile
<1>2. TypeOK'
  BY <1>1, PlainTexts DEF Inv, TypeOK
<1>3. \A g \in Files \ left' : g \in Files \ left /\ disk'[g] = disk[g] /\ (Listed(g)' <=> Listed(g))
  BY <1>1 DEF Inv, TypeOK, Listed
<1>4. HasFirst' /\ \A i : IsFirst(i)' <=> IsFirst(i)
  BY <1>1 DEF Inv, HasFirst, IsFirst
<1>5. Recorded'
  BY <1>1, <1>3, <1>4 DEF Inv, Recorded
<1>6. ReadBack'
  BY <1>1, <1>3 DEF Inv, ReadBack
<1>7. Frozen'
  BY <1>1 DEF Inv, Frozen
<1> QED  BY <1>2, <1>4, <1>5, <1>6, <1>7 DEF Inv

LEMMA RepairEndsInv ==
    ASSUME Inv, RepairEnds
    PROVE  Inv'
BY DEF Inv, RepairEnds, TypeOK, Phases, HasFirst, IsFirst, Recorded, ReadBack, Listed, Frozen

\* uncommitted_changes as a list: each file that git lists once.
LEMMA UncommittedList ==
    ASSUME NEW list, list = SetToSeq(Uncommitted)
    PROVE  /\ list \in Seq(FileChange)
           /\ IsInjective(list)
           /\ \A i \in DOMAIN list : list[i] \in Uncommitted
           /\ \A change \in Uncommitted : \E i \in DOMAIN list : list[i] = change
<1> DEFINE listed == {g \in Files : Listed(g)}
           Change(f) == [path |-> [file |-> f, dotted |-> FALSE], original |-> AtHead(f)]
           one == [f \in listed |-> Change(f)]
           n == Cardinality(Uncommitted)
<1>1. Uncommitted = {Change(f) : f \in listed}
  BY DEF Uncommitted, AtHead
<1>2. IsFiniteSet(Uncommitted)
  <2>1. IsFiniteSet(listed)
    BY FilesAssumption, FS_Subset
  <2>2. one \in Surjection(listed, Uncommitted)
    BY <1>1 DEF Surjection
  <2> QED  BY <2>1, <2>2, FS_Surjection
<1>3. Uncommitted \subseteq FileChange
  <2>1. ASSUME NEW f \in Files
        PROVE  Change(f) \in FileChange
    <3>1. [file |-> f, dotted |-> FALSE] \in Path
      BY DEF Path
    <3> QED  BY <3>1, Heads DEF FileChange
  <2> QED  BY <1>1, <2>1
<1>4. n \in Nat /\ Bijection(1..n, Uncommitted) # {}
  BY <1>2, FS_CardinalityType DEF ExistsBijection
<1>5. list \in [1..n -> Uncommitted] /\ IsInjective(list)
  BY <1>4 DEF SetToSeq, Bijection, Injection
<1>6. list \in Surjection(1..n, Uncommitted)
  <2>1. IsFiniteSet(1..n) /\ Cardinality(1..n) = n
    BY <1>4, FS_Interval
  <2>2. list \in Injection(1..n, Uncommitted)
    BY <1>5 DEF Injection
  <2> QED  BY <1>2, <2>1, <2>2, FS_Injection
<1> QED  BY <1>3, <1>4, <1>5, <1>6 DEF Surjection

\* After a restart each file has one change at most, from what HEAD has.
LEMMA RestartInv ==
    ASSUME Inv, Restart
    PROVE  Inv'
<1>1. /\ phase = "testing" /\ phase' = phase /\ recovered' = TRUE
      /\ changes' = SetToSeq(Uncommitted)
      /\ disk' = disk /\ diff' = diff /\ branch' = branch /\ left' = left
  BY DEF Restart
<1>2. /\ changes' \in Seq(FileChange) /\ IsInjective(changes')
      /\ \A i \in DOMAIN changes' : changes'[i] \in Uncommitted
      /\ \A change \in Uncommitted : \E i \in DOMAIN changes' : changes'[i] = change
  BY <1>1, UncommittedList
<1>3. TypeOK'
  BY <1>1, <1>2 DEF Inv, TypeOK
<1>4. ASSUME NEW i \in DOMAIN changes'
      PROVE  /\ ~changes'[i].path.dotted
             /\ changes'[i].original = AtHead(changes'[i].path.file)
             /\ changes'[i] = [path |-> changes'[i].path,
                               original |-> AtHead(changes'[i].path.file)]
             /\ changes'[i].path = [file |-> changes'[i].path.file, dotted |-> FALSE]
  <2>1. PICK f \in Files : changes'[i] = [path |-> [file |-> f, dotted |-> FALSE],
                                          original |-> AtHead(f)]
    BY <1>2 DEF Uncommitted, AtHead
  <2>2. /\ changes'[i].path = [file |-> f, dotted |-> FALSE]
        /\ changes'[i].original = AtHead(f)
    BY <2>1
  <2>3. changes'[i].path.file = f /\ changes'[i].path.dotted = FALSE
    BY <2>2
  <2> QED  BY <2>1, <2>2, <2>3
<1>5. HasFirst'
  <2>1. ASSUME NEW i \in DOMAIN changes'
        PROVE  IsFirst(i)'
    <3>1. \A j \in DOMAIN changes' : changes'[j].path = changes'[i].path => j = i
      <4> SUFFICES ASSUME NEW j \in DOMAIN changes', changes'[j].path = changes'[i].path
                   PROVE  changes'[j] = changes'[i]
        BY <1>2 DEF IsInjective
      <4> QED  BY <1>4
    <3>2. i \in Nat
      BY <1>2
    <3> QED  BY <3>1, <3>2 DEF IsFirst
  <2> QED  BY <2>1 DEF HasFirst
<1>6. \A f \in Files : Listed(f) => \E i \in DOMAIN changes' : changes'[i].path.file = f
  <2> SUFFICES ASSUME NEW f \in Files, Listed(f)
               PROVE  \E i \in DOMAIN changes' : changes'[i].path.file = f
    OBVIOUS
  <2>1. [path |-> [file |-> f, dotted |-> FALSE], original |-> AtHead(f)] \in Uncommitted
    BY DEF Uncommitted, AtHead
  <2> QED  BY <1>2, <2>1
<1>7. ReadBack'
  <2>1. \A f \in Files : Listed(f)' <=> Listed(f)
    BY <1>1 DEF Listed
  <2>2. /\ phase' # "implementing" /\ left' = left
        /\ \A i \in DOMAIN changes' :
              ~changes'[i].path.dotted /\ changes'[i].original = AtHead(changes'[i].path.file)
    BY <1>1, <1>4
  <2> QED  BY <1>6, <2>1, <2>2 DEF ReadBack
<1>8. Recorded' /\ Frozen'
  BY <1>1 DEF Recorded, Inv, Frozen
<1> QED  BY <1>3, <1>5, <1>7, <1>8 DEF Inv

LEMMA ChangedFilesType ==
    ASSUME TypeOK, HasFirst
    PROVE  /\ ChangedFiles \subseteq FileDiff
           /\ \A i : IsFirst(i) => changes[i].original \in Content
<1>1. \A i : IsFirst(i) => changes[i].original \in Content
  <2> SUFFICES ASSUME NEW i \in DOMAIN changes
               PROVE  changes[i].original \in Content
    BY DEF IsFirst
  <2>1. changes[i] \in FileChange
    BY DEF TypeOK
  <2> QED  BY <2>1 DEF FileChange
<1>2. ASSUME NEW p \in Paths
      PROVE  p \in Path /\ EarliestOriginal(p) \in Content /\ ReadText(disk[p.file]) \in Content
  <2>1. PICK i \in DOMAIN changes : changes[i].path = p
    BY DEF Paths
  <2>2. p \in Path /\ disk[p.file] \in Content \cup {None}
    <3>1. changes[i] \in FileChange
      BY DEF TypeOK
    <3>2. p \in Path /\ p.file \in Files
      BY <2>1, <3>1 DEF FileChange, Path
    <3> QED  BY <3>2 DEF TypeOK
  <2>3. PICK k : IsFirst(k) /\ changes[k].path = p
    BY <2>1 DEF HasFirst
  <2>4. EarliestOriginal(p) = changes[k].original
    BY <2>3, Earliest
  <2> QED  BY <1>1, <2>2, <2>3, <2>4, ReadTexts
<1> QED  BY <1>1, <1>2 DEF ChangedFiles, FileDiff

LEMMA ReviewInv ==
    ASSUME Inv, Review
    PROVE  Inv'
<1>1. /\ phase = "testing" /\ phase' \in {"failed", "reviewed"} /\ diff' = ChangedFiles
      /\ disk' = disk /\ changes' = changes /\ branch' = branch
      /\ recovered' = recovered /\ left' = left
  BY DEF Review
<1>2. TypeOK'
  BY <1>1, ChangedFilesType DEF Inv, TypeOK, Phases
<1>3. ChangedFiles' = ChangedFiles
  BY <1>1 DEF ChangedFiles, Paths, EarliestOriginal
<1>4. HasFirst' /\ Recorded'
  BY <1>1 DEF Inv, HasFirst, Recorded, IsFirst
<1>5. ReadBack'
  BY <1>1 DEF Inv, ReadBack, Listed
<1>6. Frozen'
  BY <1>1, <1>3 DEF Inv, Frozen
<1> QED  BY <1>2, <1>4, <1>5, <1>6 DEF Inv

LEMMA PublishInv ==
    ASSUME Inv, Publish
    PROVE  Inv'
<1>1. /\ phase = "reviewed" /\ phase' = "published"
      /\ branch' = [f \in Files |-> IF \E d \in diff : d.path.file = f THEN Pushed(f) ELSE branch[f]]
      /\ disk' = disk /\ changes' = changes /\ diff' = diff
      /\ recovered' = recovered /\ left' = left
  BY DEF Publish
<1>2. branch = Cloned /\ diff = ChangedFiles
  BY <1>1 DEF Inv, Frozen
<1>3. branch' = Published /\ Published' = Published
  BY <1>1, <1>2 DEF Published, Pushed
<1>4. Published \in [Files -> Content \cup {None}]
  <2>1. \A f \in Files : Pushed(f) \in Content \cup {None}
    BY ReadTexts DEF Inv, TypeOK, Pushed
  <2> QED  BY <2>1, FilesAssumption DEF Published
<1>5. TypeOK'
  BY <1>1, <1>3, <1>4 DEF Inv, TypeOK, Phases
<1>6. ChangedFiles' = ChangedFiles
  BY <1>1 DEF ChangedFiles, Paths, EarliestOriginal
<1>7. HasFirst' /\ Recorded'
  BY <1>1 DEF Inv, HasFirst, Recorded, IsFirst
<1>8. ReadBack'
  BY <1>1 DEF Inv, ReadBack, Listed
<1>9. Frozen'
  BY <1>1, <1>2, <1>3, <1>6 DEF Frozen
<1> QED  BY <1>5, <1>7, <1>8, <1>9 DEF Inv

LEMMA StutterInv ==
    ASSUME Inv, UNCHANGED vars
    PROVE  Inv'
<1>1. TypeOK' /\ HasFirst' /\ Recorded' /\ ReadBack'
  BY DEF Inv, vars, TypeOK, HasFirst, IsFirst, Recorded, ReadBack, Listed
<1>2. ChangedFiles' = ChangedFiles /\ Published' = Published
  BY DEF vars, ChangedFiles, Paths, EarliestOriginal, Published, Pushed
<1>3. Frozen'
  BY <1>2 DEF Inv, vars, Frozen
<1> QED  BY <1>1, <1>3 DEF Inv

LEMMA Invariance == Spec => []Inv
<1>1. Inv /\ [Next]_vars => Inv'
  <2>1. ASSUME Inv, NEW p \in Path, DeleteFile(p)
        PROVE  Inv'
    BY <2>1, ToolsInv, TextsAssumption
  <2> QED  BY <2>1, ToolsInv, LeaveFileInv, RepairEndsInv, RestartInv, ReviewInv, PublishInv,
              StutterInv DEF Next
<1> QED  BY InitInv, <1>1, PTL DEF Spec

-----------------------------------------------------------------------------
(* The theorems.                                                           *)

\* Every state of a change set is well formed: what is recorded, shown and published are
\* contents and paths, through edits, leftovers of test runs and restarts.
THEOREM TypeCorrect == Spec => []TypeOK
<1>1. Inv => TypeOK
  BY DEF Inv
<1> QED  BY Invariance, <1>1, PTL

\* The first change of a file, and what it says the file was.
LEMMA FirstChange ==
    ASSUME Inv, NEW f \in Files \ left, TextOf(Cloned[f]) # TextOf(disk[f]), Known(f)
    PROVE  \E i : /\ IsFirst(i)
                  /\ changes[i].path.file = f
                  /\ changes[i].original.text = TextOf(Cloned[f])
<1>1. CASE ~recovered
  <2>1. PICK i : /\ IsFirst(i)
                 /\ changes[i].path.file = f
                 /\ changes[i].original = ReadText(Cloned[f])
    BY <1>1 DEF Inv, Recorded
  <2> QED  BY <2>1 DEF TextOf
<1>2. CASE recovered
  <2>1. Listed(f)
    BY <1>2 DEF Known, Listed
  <2>2. PICK i \in DOMAIN changes : changes[i].path.file = f
    BY <1>2, <2>1 DEF Inv, ReadBack
  <2>3. PICK k : IsFirst(k) /\ changes[k].path = changes[i].path
    BY <2>2 DEF Inv, HasFirst
  <2>4. changes[k].original = AtHead(f)
    BY <1>2, <2>2, <2>3 DEF Inv, ReadBack, IsFirst
  <2> QED  BY <2>2, <2>3, <2>4, Heads
<1> QED  BY <1>1, <1>2

\* A reviewer is shown every file whose text the agent changed, from the text that was
\* cloned, and no other but for its line ends: for any clone, edits and restarts.
THEOREM DiffIsAlwaysExact == Spec => []DiffIsExact
<1>1. Inv => DiffIsExact
  <2> SUFFICES ASSUME Inv, phase = "reviewed" PROVE DiffIsExact
    BY DEF DiffIsExact
  <2>1. diff = ChangedFiles /\ TypeOK
    BY DEF Inv, Frozen
  <2>2. ASSUME NEW f \in Files, Known(f), TextOf(Cloned[f]) # TextOf(disk[f])
        PROVE  \E d \in diff : /\ d.path.file = f
                               /\ d.before.text = TextOf(Cloned[f])
                               /\ d.after.text = TextOf(disk[f])
    <3>1. f \in Files \ left
      BY <2>2 DEF Known
    <3>2. PICK i : /\ IsFirst(i)
                   /\ changes[i].path.file = f
                   /\ changes[i].original.text = TextOf(Cloned[f])
      BY <2>2, <3>1, FirstChange
    <3> DEFINE p == changes[i].path
               d == [path |-> p, before |-> EarliestOriginal(p), after |-> ReadText(disk[p.file])]
    <3>3. p \in Paths /\ EarliestOriginal(p) = changes[i].original
      BY <2>1, <3>2, Earliest DEF Paths, IsFirst
    <3>4. /\ d.before.text = TextOf(Cloned[f]) /\ d.after.text = TextOf(disk[f])
          /\ d.path.file = f
      BY <3>2, <3>3 DEF TextOf
    <3>5. d.before # d.after
      BY <2>2, <3>4
    <3>6. d \in diff
      BY <2>1, <3>3, <3>5 DEF ChangedFiles
    <3> HIDE DEF d
    <3> QED  BY <3>4, <3>6
  <2>3. ASSUME NEW d \in diff, d.path.file \notin left, OneName(d.path.file),
               TextOf(Cloned[d.path.file]) = TextOf(disk[d.path.file])
        PROVE  recovered /\ Cloned[d.path.file].crlf
    <3> DEFINE f == d.path.file
    <3>1. /\ d.path \in Paths /\ d.before = EarliestOriginal(d.path)
          /\ d.after = ReadText(disk[f]) /\ d.before # d.after
      BY <2>1 DEF ChangedFiles
    <3>2. PICK i \in DOMAIN changes : changes[i].path = d.path
      BY <3>1 DEF Paths
    <3>3. f \in Files
      <4>1. changes[i] \in FileChange
        BY <2>1 DEF TypeOK
      <4> QED  BY <3>2, <4>1 DEF FileChange, Path
    <3>4. ReadText(disk[f]) = ReadText(Cloned[f])
      <4>1. disk[f] \in Content \cup {None} /\ Cloned[f] \in Content \cup {None}
        BY <2>1, <3>3, FilesAssumption DEF TypeOK
      <4> QED  BY <2>3, <4>1, ReadTexts
    <3>5. CASE ~recovered
      <4>1. PICK k : /\ IsFirst(k)
                     /\ changes[k].path.file = f
                     /\ changes[k].original = ReadText(Cloned[f])
        BY <2>3, <3>2, <3>3, <3>5 DEF Inv, Recorded
      <4>2. changes[k].path = d.path
        BY <2>3, <3>1, <4>1 DEF OneName, Paths, IsFirst
      <4>3. d.before = ReadText(Cloned[f])
        BY <2>1, <3>1, <4>1, <4>2, Earliest
      <4> QED  BY <3>1, <3>4, <4>3
    <3>6. CASE recovered
      <4>1. PICK k : IsFirst(k) /\ changes[k].path = d.path
        BY <3>2 DEF Inv, HasFirst
      <4>2. d.before = changes[k].original
        BY <2>1, <3>1, <4>1, Earliest
      <4>3. changes[k].original = AtHead(f)
        BY <3>6, <4>1 DEF Inv, ReadBack, IsFirst
      <4> QED  BY <3>1, <3>3, <3>4, <3>6, <4>2, <4>3, Heads
    <3> QED  BY <3>5, <3>6
  <2> QED  BY <2>2, <2>3 DEF DiffIsExact
<1> QED  BY Invariance, <1>1, PTL

\* The pull request changes and removes just the files of the reviewed diff, each to the
\* text the diff ends with, whatever the files, the edits and the restarts.
THEOREM PublishedAsReviewed == Spec => []PublishedIsReviewed
<1>1. Inv => PublishedIsReviewed
  <2> SUFFICES ASSUME Inv, phase = "published", NEW f \in Files
               PROVE  /\ (\E d \in diff : d.path.file = f) =>
                            /\ \A d \in diff : d.path.file = f => d.after.text = TextOf(branch[f])
                            /\ branch[f] = None <=> disk[f] = None
                      /\ ~(\E d \in diff : d.path.file = f) => branch[f] = Cloned[f]
    BY DEF PublishedIsReviewed
  <2>1. /\ diff = ChangedFiles /\ disk[f] \in Content \cup {None}
        /\ branch[f] = IF \E d \in diff : d.path.file = f THEN Pushed(f) ELSE Cloned[f]
    BY DEF Inv, TypeOK, Frozen, Published
  <2>2. \A d \in diff : d.after = ReadText(disk[d.path.file])
    BY <2>1 DEF ChangedFiles
  <2>3. ReadText(disk[f]) = Plain(TextOf(disk[f])) /\ TextOf(disk[f]) \in Texts
    BY <2>1, ReadTexts
  <2>4. CASE disk[f] = None
    <3>1. Pushed(f) = None
      BY <2>4 DEF Pushed
    <3> QED  BY <2>1, <2>2, <2>4, <3>1 DEF TextOf
  <2>5. CASE disk[f] # None
    <3>1. Pushed(f) = ReadText(disk[f]) /\ Pushed(f) # None
      BY <2>3, <2>5, PlainTexts DEF Pushed
    <3>2. TextOf(Pushed(f)) = TextOf(disk[f])
      BY <2>3, <3>1, PlainTexts DEF TextOf
    <3> QED  BY <2>1, <2>2, <2>5, <3>1, <3>2 DEF TextOf
  <2> QED  BY <2>4, <2>5
<1> QED  BY Invariance, <1>1, PTL
=============================================================================
