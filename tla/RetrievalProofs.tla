--------------------------- MODULE RetrievalProofs ---------------------------
(***************************************************************************)
(* Proofs about the index of a repository (Indexing), the search of what   *)
(* was indexed (CodeSearch), the windows that files without a parser are   *)
(* cut into (LineWindows) and the chunks of the others (Chunking).         *)
(*                                                                         *)
(* Indexing, for any runs, files, histories and models and any number of   *)
(* faults: what a run has flushed but not committed is all files of its    *)
(* commit or, if it found rows of others, nothing, and no two runs are     *)
(* there at once; so a snapshot has no file or every file.                 *)
(*                                                                         *)
(* CodeSearch, for any weights, K and number of candidates that go         *)
(* together (WeightsAssumption), any limit and number of queries: scores   *)
(* are compared through a bound between them, and what a chunk that both   *)
(* strategies found can lose is its place, only to others like it.         *)
(*                                                                         *)
(* LineWindows, for any stretch of lines and any sizes: of the windows     *)
(* that begin at or before a line, the last one holds what begins there.   *)
(*                                                                         *)
(* Chunking, for files of any size and trees of any shape: there is a      *)
(* function that satisfies the equation of the walk, and on every level    *)
(* that it has left, by the least level where it would not, it emits the   *)
(* declarations that can be reached, each under the name around it.        *)
(***************************************************************************)
EXTENDS Indexing, FileSearch, FiniteSetTheorems, WellFoundedInduction, TLAPS

-----------------------------------------------------------------------------
(* Indexing: the inductive invariant.                                      *)

InStep == {"step", "insert", "build", "embed"}
Building == {"build", "embed"}

\* A run in the step that indexes has a checkout, and knows the commit it is of.
CheckedOut == \A r \in Runs : at[r] \in InStep => head[r] # None /\ disk[r] # None

\* A run past indexing has a snapshot that is ready.
ChosenIsReady ==
    \A r \in Runs : state[r] = "indexed" =>
       chosen[r] # None /\ snapshots[chosen[r]] # None /\ snapshots[chosen[r]].status = "ready"

\* An insert that is not committed is the only one of its commit.
InsertIsAlone ==
    \A r \in Runs : born[r] # None =>
       /\ at[r] \in Building
       /\ snapshots[head[r]] = None
       /\ \A q \in Runs \ {r} : born[q] # None => head[q] # head[r]

\* Whoever adds files has a snapshot to add them to, its own or a committed one.
HasSnapshot == \A r \in Runs : at[r] \in Building /\ born[r] = None => snapshots[head[r]] # None

PreviousIsThere == \A r \in Runs : previous[r] # None => snapshots[previous[r]] # None

\* No snapshot is from the future.
BornBefore ==
    /\ \A c \in Commits : snapshots[c] # None => snapshots[c].born < clock
    /\ \A r \in Runs : born[r] # None => born[r] < clock

\* Rows for the files of the commit, and no others; what has no chunks has no vector.
Covers(c, rows) ==
    \A p \in Paths :
       IF p \in Scan(c, Paths)
       THEN /\ rows[p] # None
            /\ rows[p].content = History[c][p]
            /\ History[c][p] \in Blank => rows[p].vector = None
       ELSE rows[p] = None

\* Of a whole checkout, a snapshot has all files or, before any, none.
AllOrNothing ==
    \A c \in Commits \ torn : snapshots[c] # None =>
       /\ snapshots[c].rows = NoRows \/ Covers(c, snapshots[c].rows)
       /\ snapshots[c].chunked => Scan(c, Paths) # {}

\* What a run has flushed are all files, of which the snapshot has none yet, and nobody else
\* is as far, unless there are no files.
Flushed ==
    \A r \in Runs : at[r] = "embed" /\ head[r] \notin torn =>
       /\ Covers(head[r], added[r])
       /\ \A p \in Paths : added[r][p] # None => added[r][p].vector \in {None, model[r]}
       /\ snapshots[head[r]] # None => snapshots[head[r]].rows = NoRows
       /\ \A q \in Runs \ {r} : at[q] = "embed" /\ head[q] = head[r] => Scan(head[r], Paths) = {}

IInv ==
    /\ TypeOK
    /\ CheckedOut /\ ChosenIsReady /\ InsertIsAlone /\ HasSnapshot /\ PreviousIsThere
    /\ BornBefore /\ AllOrNothing /\ Flushed /\ ReadyIsComplete

-----------------------------------------------------------------------------
(* Types.                                                                  *)

LEMMA Domains ==
    /\ Commits = 1..Len(History) /\ Len(History) \in Nat /\ Len(History) # 0 /\ 1 \in Commits
    /\ \A c \in Commits : History[c] \in [Paths -> Contents \cup {None}]
<1>1. History \in Seq([Paths -> Contents \cup {None}]) /\ History # <<>>
  BY HistoryAssumption
<1>2. Len(History) \in Nat /\ Commits = 1..Len(History) /\ Len(History) # 0
  BY <1>1 DEF Commits
<1> QED  BY <1>1, <1>2 DEF Commits

\* A set of numbers has a least one.
LEMMA Least ==
    ASSUME NEW T, T \subseteq Nat, T # {}
    PROVE  \E n \in T : \A m \in T : n <= m
<1> DEFINE before == OpToRel(<, Nat)
<1>1. PICK n \in T : \A m \in T : ~(<<m, n>> \in before)
  BY WFMin, NatLessThanWellFounded, Zenon
<1>2. \A m \in T : ~(m < n)
  BY <1>1 DEF OpToRel
<1> QED  BY <1>2

\* The snapshot created last exists, if there is any.
LEMMA LatestIsThere ==
    ASSUME TypeOK, BornBefore
    PROVE  /\ Latest \in Commits \cup {None}
           /\ Latest # None => snapshots[Latest] # None
<1> DEFINE there == {c \in Commits : snapshots[c] # None}
           ages == {clock - snapshots[c].born : c \in there}
<1>1. CASE there = {}
  BY <1>1 DEF Latest
<1>2. CASE there # {}
  <2>1. \A c \in there : snapshots[c].born \in Nat /\ snapshots[c].born < clock /\ clock \in Nat
    BY DEF TypeOK, Snapshot, BornBefore
  <2>2. ages \subseteq Nat /\ ages # {}
    BY <1>2, <2>1
  <2> HIDE DEF ages
  <2>3. PICK age \in ages : \A other \in ages : age <= other
    BY <2>2, Least
  <2>4. \A other \in ages : ~(other < age)
    BY <2>2, <2>3
  <2>5. PICK c \in there : age = clock - snapshots[c].born
    BY DEF ages
  <2>6. \A d \in there : snapshots[d].born <= snapshots[c].born
    <3> TAKE d \in there
    <3>1. clock - snapshots[d].born \in ages
      BY DEF ages
    <3> QED  BY <2>1, <2>4, <2>5, <3>1
  <2>7. Latest = CHOOSE b \in there : \A d \in there : snapshots[d].born <= snapshots[b].born
    BY <1>2 DEF Latest
  <2> HIDE DEF there
  <2>8. Latest \in there
    BY <2>6, <2>7
  <2> QED  BY <2>8 DEF there
<1> QED  BY <1>1, <1>2

LEMMA CommitsAreNumbers == Commits \subseteq Nat /\ None \notin Commits
BY Domains, NoneAssumption

LEMMA PreviousRowType ==
    ASSUME TypeOK, PreviousIsThere, NEW r \in Runs, NEW p \in Paths
    PROVE  PreviousRow(r, p) \in Row \cup {None}
BY DEF TypeOK, PreviousIsThere, PreviousRow, Snapshot, Rows

LEMMA ScanType ==
    ASSUME NEW c \in Commits, NEW p \in Paths
    PROVE  p \in Scan(c, Paths) => History[c][p] \in Contents
BY Domains DEF Scan

LEMMA NewRowsType ==
    ASSUME TypeOK, PreviousIsThere, NEW r \in Runs, head[r] # None, disk[r] # None
    PROVE  /\ Scanned(r) \subseteq Scan(head[r], Paths)
           /\ disk[r].files = Paths => Scanned(r) = Scan(head[r], Paths)
           /\ NewRows(r) \in Rows
<1>1. head[r] \in Commits /\ disk[r].files \subseteq Paths
  BY DEF TypeOK, Checkout
<1>2. /\ Scanned(r) \subseteq Scan(head[r], Paths)
      /\ disk[r].files = Paths => Scanned(r) = Scan(head[r], Paths)
  BY <1>1 DEF Scanned, Scan
<1>3. ASSUME NEW p \in Paths
      PROVE  NewRows(r)[p] \in Row \cup {None}
  <2>1. CASE p \in Carried(r)
    BY <2>1, PreviousRowType DEF NewRows
  <2>2. CASE p \notin Carried(r) /\ p \in Scanned(r)
    BY <1>1, <1>2, <2>2, ScanType DEF NewRows, Row
  <2>3. CASE p \notin Carried(r) /\ p \notin Scanned(r)
    BY <2>3 DEF NewRows
  <2> QED  BY <2>1, <2>2, <2>3
<1>4. NewRows(r) = [p \in Paths |-> NewRows(r)[p]]
  BY DEF NewRows
<1> QED  BY <1>2, <1>3, <1>4 DEF Rows

LEMMA EmbeddedType ==
    ASSUME TypeOK, NEW r \in Runs
    PROVE  Embedded(r) \in Rows
<1>1. added[r] \in Rows /\ model[r] \in Models
  BY DEF TypeOK
<1>2. ASSUME NEW p \in Paths
      PROVE  Embedded(r)[p] \in Row \cup {None}
  BY <1>1 DEF Embedded, ToEmbed, Rows, Row
<1>3. Embedded(r) = [p \in Paths |-> Embedded(r)[p]]
  BY DEF Embedded
<1> QED  BY <1>2, <1>3 DEF Rows

\* What a commit leaves of a snapshot.
LEMMA MergedIs ==
    ASSUME TypeOK, HasSnapshot, NEW r \in Runs, at[r] \in Building, head[r] # None,
           NEW rows \in Rows
    PROVE  /\ Merged(r, rows) \in Snapshot
           /\ snapshots[head[r]] = None =>
                /\ Merged(r, rows).rows = rows
                /\ Merged(r, rows).status = "indexing"
                /\ Merged(r, rows).chunked = FALSE
                /\ Merged(r, rows).born = born[r]
           /\ snapshots[head[r]] # None =>
                /\ snapshots[head[r]].rows = NoRows => Merged(r, rows).rows = rows
                /\ Merged(r, rows).status = snapshots[head[r]].status
                /\ Merged(r, rows).chunked = snapshots[head[r]].chunked
                /\ Merged(r, rows).born = snapshots[head[r]].born
<1> DEFINE new == [status |-> "indexing", chunked |-> FALSE, model |-> None, born |-> born[r],
                   rows |-> NoRows]
           old == IF snapshots[head[r]] = None THEN new ELSE snapshots[head[r]]
           sum == [p \in Paths |-> IF rows[p] # None THEN rows[p] ELSE old.rows[p]]
<1>1. Merged(r, rows) = [old EXCEPT !.rows = sum]
  BY DEF Merged
<1>2. NoRows \in Rows
  BY DEF NoRows, Rows
<1>3. old \in Snapshot
  <2>1. CASE snapshots[head[r]] = None
    <3>1. born[r] \in Nat
      BY <2>1 DEF HasSnapshot, TypeOK
    <3> QED  BY <1>2, <2>1, <3>1 DEF Snapshot
  <2>2. CASE snapshots[head[r]] # None
    BY <2>2 DEF TypeOK
  <2> QED  BY <2>1, <2>2
<1>4. sum \in Rows
  BY <1>3 DEF Rows, Snapshot
<1>5. old.rows = NoRows => sum = rows
  <2> SUFFICES ASSUME old.rows = NoRows PROVE sum = rows
    OBVIOUS
  <2>1. \A p \in Paths : sum[p] = rows[p]
    BY DEF NoRows
  <2>2. rows = [p \in Paths |-> rows[p]] /\ sum = [p \in Paths |-> sum[p]]
    BY DEF Rows
  <2> QED  BY <2>1, <2>2
<1>6. snapshots[head[r]] = None => /\ old.status = "indexing" /\ old.chunked = FALSE
                                   /\ old.born = born[r] /\ old.rows = NoRows
  OBVIOUS
<1>7. snapshots[head[r]] # None => old = snapshots[head[r]]
  OBVIOUS
<1> HIDE DEF old, sum, new
<1>8. /\ Merged(r, rows).rows = sum
      /\ Merged(r, rows).status = old.status
      /\ Merged(r, rows).chunked = old.chunked
      /\ Merged(r, rows).born = old.born
      /\ Merged(r, rows) \in Snapshot
  BY <1>1, <1>3, <1>4 DEF Snapshot
<1> QED  BY <1>5, <1>6, <1>7, <1>8

-----------------------------------------------------------------------------
(* Steps that write no snapshot.                                           *)

\* Every run stays as it is, or ends up outside of the part that builds.
Steady ==
    /\ snapshots' = snapshots /\ clock' = clock /\ torn' = torn
    /\ \A q \in Runs :
          \/ /\ at'[q] = at[q] /\ head'[q] = head[q] /\ model'[q] = model[q]
             /\ born'[q] = born[q] /\ added'[q] = added[q]
          \/ at'[q] \notin Building /\ born'[q] = None
    /\ \A q \in Runs : previous'[q] \in {previous[q], None}

LEMMA SteadyInv ==
    ASSUME IInv, Steady
    PROVE  /\ InsertIsAlone' /\ HasSnapshot' /\ PreviousIsThere' /\ BornBefore'
           /\ AllOrNothing' /\ Flushed' /\ ReadyIsComplete'
<1>1. InsertIsAlone'
  BY DEF IInv, Steady, InsertIsAlone
<1>2. HasSnapshot'
  BY DEF IInv, Steady, HasSnapshot
<1>3. PreviousIsThere'
  BY DEF IInv, Steady, PreviousIsThere
<1>4. BornBefore'
  BY DEF IInv, Steady, BornBefore
<1>5. AllOrNothing' /\ ReadyIsComplete'
  BY DEF IInv, Steady, AllOrNothing, ReadyIsComplete, Covers, FullIndex, Scan, NoRows
<1>6. Flushed'
  BY DEF IInv, Steady, Flushed, Covers, Scan, NoRows, Building
<1> QED  BY <1>1, <1>2, <1>3, <1>4, <1>5, <1>6

\* A run that does not build has inserted nothing.
LEMMA NothingInserted ==
    ASSUME IInv, NEW r \in Runs, at[r] \notin Building
    PROVE  born[r] = None
BY DEF IInv, InsertIsAlone

LEMMA PushInv == IInv /\ Push => IInv'
<1> SUFFICES ASSUME IInv, Push PROVE IInv'
  OBVIOUS
<1>1. TypeOK'
  BY Domains DEF IInv, TypeOK, Push, db, work, faults
<1>2. Steady
  BY DEF Push, Steady, db, work, faults
<1>3. CheckedOut' /\ ChosenIsReady'
  BY DEF IInv, CheckedOut, ChosenIsReady, Push, db, work, faults
<1> QED  BY <1>1, <1>2, <1>3, SteadyInv DEF IInv

LEMMA LoseMachineInv == IInv /\ LoseMachine => IInv'
<1> SUFFICES ASSUME IInv, LoseMachine PROVE IInv'
  OBVIOUS
<1>1. TypeOK'
  BY DEF IInv, TypeOK, LoseMachine, db, Places, NoRows, Rows
<1>2. Steady
  BY DEF LoseMachine, Steady, db, Building
<1>3. CheckedOut' /\ ChosenIsReady'
  BY DEF IInv, CheckedOut, ChosenIsReady, LoseMachine, db, InStep
<1> QED  BY <1>1, <1>2, <1>3, SteadyInv DEF IInv

LEMMA ClaimInv ==
    ASSUME IInv, NEW r \in Runs, NEW m \in Models, Claim(r, m)
    PROVE  IInv'
<1>1. TypeOK'
  BY DEF IInv, TypeOK, Claim, Go, db, work, faults, Places
<1>2. Steady
  BY NothingInserted DEF IInv, TypeOK, Claim, Go, Steady, db, work, Building
<1>3. CheckedOut' /\ ChosenIsReady'
  BY DEF IInv, TypeOK, CheckedOut, ChosenIsReady, Claim, Go, db, InStep
<1> QED  BY <1>1, <1>2, <1>3, SteadyInv DEF IInv

LEMMA RehydrateInv ==
    ASSUME IInv, NEW r \in Runs, Rehydrate(r)
    PROVE  IInv'
<1>1. TypeOK'
  BY DEF IInv, TypeOK, Rehydrate, Go, work, faults, Places, Checkout
<1>2. Steady
  BY NothingInserted DEF IInv, TypeOK, Rehydrate, Go, Steady, work, Building
<1>3. CheckedOut' /\ ChosenIsReady'
  BY CommitsAreNumbers
  DEF IInv, TypeOK, CheckedOut, ChosenIsReady, Rehydrate, Go, InStep, Checkout
<1> QED  BY <1>1, <1>2, <1>3, SteadyInv DEF IInv

LEMMA CloneInv ==
    ASSUME IInv, NEW r \in Runs, Clone(r)
    PROVE  IInv'
<1>1. TypeOK'
  BY DEF IInv, TypeOK, Clone, Go, work, faults, Places, Checkout, Working
<1>2. Steady
  BY NothingInserted DEF IInv, TypeOK, Clone, Go, Steady, work, Building
<1>3. CheckedOut'
  <2>1. [commit |-> tip, head |-> TRUE, files |-> Paths] \in Checkout /\ tip # None
    BY CommitsAreNumbers DEF IInv, TypeOK, Checkout
  <2>2. [commit |-> tip, head |-> TRUE, files |-> Paths] # None
    BY <2>1, NoneAssumption
  <2> QED  BY <2>1, <2>2 DEF IInv, TypeOK, CheckedOut, Clone, Go, InStep
<1>4. ChosenIsReady'
  BY DEF IInv, TypeOK, ChosenIsReady, Clone
<1> QED  BY <1>1, <1>2, <1>3, <1>4, SteadyInv DEF IInv

LEMMA KillInv ==
    ASSUME IInv, NEW r \in Runs, Kill(r)
    PROVE  IInv'
<1>1. TypeOK'
  <2>1. disk' \in [Runs -> Checkout \cup {None}]
    <3>1. CASE at[r] = "clone"
      <4>1. PICK c \in {tip}, h \in BOOLEAN, f \in SUBSET Paths :
              disk' = [disk EXCEPT ![r] = [commit |-> c, head |-> h, files |-> f]]
        BY <3>1 DEF Kill
      <4>2. [commit |-> c, head |-> h, files |-> f] \in Checkout
        BY DEF IInv, TypeOK, Checkout
      <4> HIDE DEF Checkout
      <4> QED  BY <4>1, <4>2 DEF IInv, TypeOK
    <3>2. CASE at[r] # "clone"
      BY <3>2 DEF IInv, TypeOK, Kill
    <3> QED  BY <3>1, <3>2
  <2>2. NoRows \in Rows /\ "idle" \in Places
    BY DEF NoRows, Rows, Places
  <2>3. /\ at' = [at EXCEPT ![r] = "idle"] /\ crashes' = crashes + 1
        /\ previous' = [previous EXCEPT ![r] = None]
        /\ born' = [born EXCEPT ![r] = None]
        /\ added' = [added EXCEPT ![r] = NoRows]
        /\ UNCHANGED <<tip, db, model, head, context, torn, losses, failures>>
    BY DEF Kill, Go, EndOfTransaction
  <2> QED  BY <2>1, <2>2, <2>3 DEF IInv, TypeOK, db
<1>2. Steady
  BY DEF IInv, TypeOK, Kill, Go, EndOfTransaction, Steady, db, Building
<1>3. CheckedOut' /\ ChosenIsReady'
  BY NoneAssumption
  DEF IInv, TypeOK, CheckedOut, ChosenIsReady, Kill, Go, db, InStep, Checkout
<1> QED  BY <1>1, <1>2, <1>3, SteadyInv DEF IInv

LEMMA RetrieveInv ==
    ASSUME IInv, NEW r \in Runs, Retrieve(r) \/ QueryFails(r) \/ CloneFails(r)
    PROVE  IInv'
<1>1. TypeOK'
  BY DEF IInv, TypeOK, Retrieve, QueryFails, CloneFails, Go, work, faults, Places, Working
<1>2. Steady
  BY NothingInserted
  DEF IInv, TypeOK, Retrieve, QueryFails, CloneFails, Go, Steady, work, Building
<1>3. CheckedOut' /\ ChosenIsReady'
  BY DEF IInv, TypeOK, CheckedOut, ChosenIsReady, Retrieve, QueryFails, CloneFails, Go, InStep
<1> QED  BY <1>1, <1>2, <1>3, SteadyInv DEF IInv

\* The step that indexes begins: the snapshot is found, or will be made.
LEMMA FindSnapshotInv ==
    ASSUME IInv, NEW r \in Runs, FindSnapshot(r)
    PROVE  IInv'
<1>1. TypeOK' /\ PreviousIsThere'
  BY LatestIsThere, CommitsAreNumbers
  DEF IInv, TypeOK, CheckedOut, PreviousIsThere, FindSnapshot, Go, faults, Places, Working, InStep
<1>2. born[r] = None /\ head[r] \in Commits
  BY NothingInserted DEF IInv, TypeOK, CheckedOut, FindSnapshot, Building, InStep
<1>3. CheckedOut' /\ ChosenIsReady'
  BY <1>2, CommitsAreNumbers
  DEF IInv, TypeOK, CheckedOut, ChosenIsReady, FindSnapshot, Indexed, Go, InStep
<1>4. InsertIsAlone' /\ HasSnapshot'
  BY <1>2 DEF IInv, TypeOK, InsertIsAlone, HasSnapshot, FindSnapshot, Go, Building
<1>5. BornBefore' /\ AllOrNothing' /\ ReadyIsComplete'
  BY DEF IInv, BornBefore, AllOrNothing, ReadyIsComplete, FindSnapshot, faults,
         Covers, FullIndex, Scan, NoRows
<1>6. Flushed'
  BY DEF IInv, TypeOK, Flushed, FindSnapshot, Go, faults, Covers, Scan, NoRows
<1> QED  BY <1>1, <1>3, <1>4, <1>5, <1>6 DEF IInv

\* A database error ends the transaction and changes nothing.
LEMMA RecordFailureInv ==
    ASSUME IInv, NEW r \in Runs, RecordFailure(r),
           UNCHANGED <<tip, clock, disk, model, head, torn, faults>>
    PROVE  IInv'
<1>1. TypeOK'
  BY DEF IInv, TypeOK, RecordFailure, Go, EndOfTransaction, faults, Places, NoRows, Rows
<1>2. Steady
  BY DEF IInv, TypeOK, RecordFailure, Go, EndOfTransaction, Steady, Building
<1>3. CheckedOut' /\ ChosenIsReady'
  BY DEF IInv, TypeOK, CheckedOut, ChosenIsReady, RecordFailure, Go, InStep
<1> QED  BY <1>1, <1>2, <1>3, SteadyInv DEF IInv

\* The unique commit makes the insert wait for, or fail after, any other.
LEMMA InsertSnapshotInv ==
    ASSUME IInv, NEW r \in Runs, InsertSnapshot(r)
    PROVE  IInv'
<1>1. CASE CommitIsTaken(r)
  BY <1>1, RecordFailureInv DEF InsertSnapshot
<1>2. CASE ~CommitIsTaken(r)
  <2>1. /\ at[r] = "insert" /\ head[r] # None /\ snapshots[head[r]] = None
        /\ at' = [at EXCEPT ![r] = "build"] /\ born' = [born EXCEPT ![r] = clock]
        /\ clock' = clock + 1 /\ clock \in Nat
        /\ UNCHANGED <<tip, snapshots, state, chosen, previous, added, disk, model, head, torn,
                       faults>>
        /\ \A q \in Runs \ {r} : born[q] # None => head[q] # head[r]
    BY <1>2 DEF InsertSnapshot, CommitIsTaken, CommitIsLocked, Go, IInv, TypeOK, CheckedOut, InStep
  <2>2. TypeOK'
    BY <2>1 DEF IInv, TypeOK, faults, Places
  <2>3. CheckedOut' /\ ChosenIsReady' /\ PreviousIsThere'
    BY <2>1 DEF IInv, TypeOK, CheckedOut, ChosenIsReady, PreviousIsThere, InStep
  <2>4. InsertIsAlone' /\ HasSnapshot'
    BY <2>1, NoneAssumption DEF IInv, TypeOK, InsertIsAlone, HasSnapshot, Building
  <2>5. BornBefore'
    BY <2>1, NoneAssumption DEF IInv, TypeOK, BornBefore, Snapshot
  <2>6. AllOrNothing' /\ ReadyIsComplete'
    BY <2>1 DEF IInv, AllOrNothing, ReadyIsComplete, Covers, FullIndex, Scan, NoRows
  <2>7. Flushed'
    BY <2>1 DEF IInv, TypeOK, Flushed, Covers, Scan, NoRows
  <2> QED  BY <2>2, <2>3, <2>4, <2>5, <2>6, <2>7 DEF IInv
<1> QED  BY <1>1, <1>2

-----------------------------------------------------------------------------
(* Steps that build.                                                       *)

\* What is carried forward is what would be indexed: same content, same model.
LEMMA NewRowsCover ==
    ASSUME TypeOK, PreviousIsThere, NEW r \in Runs, head[r] # None, disk[r] # None,
           disk[r].files = Paths
    PROVE  /\ Covers(head[r], NewRows(r))
           /\ \A p \in Paths : NewRows(r)[p] # None => NewRows(r)[p].vector \in {None, model[r]}
<1>1. Scanned(r) = Scan(head[r], Paths) /\ Scan(head[r], Paths) \subseteq Paths
  BY NewRowsType DEF Scan
<1> SUFFICES ASSUME NEW p \in Paths
             PROVE  /\ IF p \in Scan(head[r], Paths)
                       THEN /\ NewRows(r)[p] # None
                            /\ NewRows(r)[p].content = History[head[r]][p]
                            /\ History[head[r]][p] \in Blank => NewRows(r)[p].vector = None
                       ELSE NewRows(r)[p] = None
                    /\ NewRows(r)[p] # None => NewRows(r)[p].vector \in {None, model[r]}
  BY DEF Covers
<1>2. CASE p \in Carried(r)
  <2>1. /\ p \in Scanned(r) /\ NewRows(r)[p] = PreviousRow(r, p)
        /\ PreviousRow(r, p) # None /\ PreviousRow(r, p).content = History[head[r]][p]
        /\ PreviousRow(r, p).content \notin Blank /\ PreviousRow(r, p).vector = model[r]
    BY <1>2 DEF NewRows, Carried, Unchanged, Reusable
  <2> QED  BY <1>1, <2>1
<1>3. CASE p \notin Carried(r) /\ p \in Scanned(r)
  <2> DEFINE row == [content |-> History[head[r]][p], vector |-> None]
  <2>1. NewRows(r)[p] = row
    BY <1>3 DEF NewRows
  <2>2. row \in Row
    <3>1. head[r] \in Commits
      BY DEF TypeOK
    <3> QED  BY <1>1, <1>3, <3>1, ScanType DEF Row
  <2>3. row # None
    BY <2>2, NoneAssumption
  <2> QED  BY <1>1, <1>3, <2>1, <2>3
<1>4. CASE p \notin Carried(r) /\ p \notin Scanned(r)
  BY <1>1, <1>4 DEF NewRows
<1> QED  BY <1>2, <1>3, <1>4

\* With the vectors that were missing, what has been flushed is a full index.
LEMMA EmbeddedIsFull ==
    ASSUME TypeOK, Flushed, NEW r \in Runs, at[r] = "embed", head[r] # None, head[r] \notin torn
    PROVE  Embedded(r) = FullIndex(head[r], model[r])
<1>1. head[r] \in Commits /\ added[r] \in Rows /\ model[r] \in Models
  BY DEF TypeOK
<1>2. /\ Covers(head[r], added[r])
      /\ \A p \in Paths : added[r][p] # None => added[r][p].vector \in {None, model[r]}
  BY DEF Flushed
<1>3. ASSUME NEW p \in Paths
      PROVE  Embedded(r)[p] = FullIndex(head[r], model[r])[p]
  <2>1. CASE p \notin Scan(head[r], Paths)
    BY <1>2, <2>1 DEF Covers, Embedded, ToEmbed, FullIndex
  <2>2. CASE p \in Scan(head[r], Paths)
    <3>1. /\ added[r][p] \in Row /\ added[r][p].content = History[head[r]][p]
          /\ History[head[r]][p] \in Blank => added[r][p].vector = None
          /\ added[r][p].vector \in {None, model[r]}
      BY <1>1, <1>2, <2>2 DEF Covers, Rows
    <3>2. Embedded(r)[p] = [content |-> History[head[r]][p],
                            vector |-> IF History[head[r]][p] \in Blank THEN None ELSE model[r]]
      BY <1>1, <3>1, NoneAssumption DEF Embedded, ToEmbed, Row
    <3> QED  BY <2>2, <3>2 DEF FullIndex
  <2> QED  BY <2>1, <2>2
<1> QED  BY <1>3 DEF Embedded, FullIndex

LEMMA CoversNothing ==
    ASSUME NEW c, NEW rows \in Rows, Covers(c, rows)
    PROVE  rows = NoRows <=> Scan(c, Paths) = {}
<1>1. Scan(c, Paths) \subseteq Paths
  BY DEF Scan
<1>2. rows = NoRows <=> \A p \in Paths : rows[p] = None
  BY DEF Rows, NoRows
<1> QED  BY <1>1, <1>2 DEF Covers

LEMMA FullIndexCovers ==
    ASSUME NEW c \in Commits, NEW m \in Models
    PROVE  Covers(c, FullIndex(c, m)) /\ FullIndex(c, m) \in Rows
<1>1. ASSUME NEW p \in Paths
      PROVE  /\ FullIndex(c, m)[p] \in Row \cup {None}
             /\ IF p \in Scan(c, Paths)
                THEN /\ FullIndex(c, m)[p] # None
                     /\ FullIndex(c, m)[p].content = History[c][p]
                     /\ History[c][p] \in Blank => FullIndex(c, m)[p].vector = None
                ELSE FullIndex(c, m)[p] = None
  <2> DEFINE row == [content |-> History[c][p],
                     vector |-> IF History[c][p] \in Blank THEN None ELSE m]
  <2>1. FullIndex(c, m)[p] = IF p \notin Scan(c, Paths) THEN None ELSE row
    BY DEF FullIndex
  <2>2. p \in Scan(c, Paths) => row \in Row
    BY ScanType DEF Row
  <2> QED  BY <2>1, <2>2, NoneAssumption
<1>2. FullIndex(c, m) = [p \in Paths |-> FullIndex(c, m)[p]]
  BY DEF FullIndex
<1> QED  BY <1>1, <1>2 DEF Covers, Rows

LEMMA BuildInv ==
    ASSUME IInv, NEW r \in Runs, Build(r)
    PROVE  IInv'
<1>1. CASE FilesAreTaken(r)
  BY <1>1, RecordFailureInv DEF Build
<1>2. CASE ~FilesAreTaken(r)
  <2>1. /\ at[r] = "build" /\ ~FilesAreLocked(r)
        /\ head[r] \in Commits /\ head[r] # None /\ disk[r] # None
        /\ added' = [added EXCEPT ![r] = NewRows(r)]
        /\ torn' = IF disk[r].files = Paths THEN torn ELSE torn \cup {head[r]}
        /\ at' = [at EXCEPT ![r] = "embed"]
        /\ UNCHANGED <<snapshots, state, chosen, previous, born,
                       tip, clock, disk, model, head, context, faults>>
    BY <1>2 DEF Build, Go, IInv, TypeOK, CheckedOut, InStep
  <2>2. NewRows(r) \in Rows /\ (disk[r].files = Paths => Scanned(r) = Scan(head[r], Paths))
    BY <2>1, NewRowsType DEF IInv
  <2>3. TypeOK'
    BY <2>1, <2>2 DEF IInv, TypeOK, faults, Places
  <2>4. CheckedOut' /\ ChosenIsReady' /\ PreviousIsThere' /\ BornBefore'
    BY <2>1 DEF IInv, TypeOK, CheckedOut, ChosenIsReady, PreviousIsThere, BornBefore, InStep
  <2>5. InsertIsAlone' /\ HasSnapshot'
    BY <2>1 DEF IInv, TypeOK, InsertIsAlone, HasSnapshot, Building
  <2>6. AllOrNothing' /\ ReadyIsComplete'
    BY <2>1 DEF IInv, AllOrNothing, ReadyIsComplete, Covers, FullIndex, Scan, NoRows
  <2>7. \A q \in Runs : at'[q] = IF q = r THEN "embed" ELSE at[q]
    BY <2>1 DEF IInv, TypeOK
  <2>8. \A q \in Runs : added'[q] = IF q = r THEN NewRows(r) ELSE added[q]
    BY <2>1 DEF IInv, TypeOK
  <2>9. ASSUME head[r] \notin torn'
        PROVE  /\ Covers(head[r], NewRows(r))
               /\ \A p \in Paths : NewRows(r)[p] # None => NewRows(r)[p].vector \in {None, model[r]}
               /\ snapshots[head[r]] # None => snapshots[head[r]].rows = NoRows
               /\ \A q \in Runs \ {r} :
                     at[q] = "embed" /\ head[q] = head[r] => Scan(head[r], Paths) = {}
    <3>1. disk[r].files = Paths /\ head[r] \notin torn
      BY <2>1, <2>9
    <3>2. /\ Covers(head[r], NewRows(r))
          /\ \A p \in Paths : NewRows(r)[p] # None => NewRows(r)[p].vector \in {None, model[r]}
      BY <2>1, <3>1, NewRowsCover DEF IInv
    <3>3. ASSUME snapshots[head[r]] # None
          PROVE  snapshots[head[r]].rows = NoRows
      <4>1. snapshots[head[r]].rows = NoRows \/ Covers(head[r], snapshots[head[r]].rows)
        BY <2>1, <3>1, <3>3 DEF IInv, AllOrNothing
      <4>2. \A p \in Scan(head[r], Paths) : snapshots[head[r]].rows[p] = None
        BY <1>2, <2>2, <3>1, <3>3 DEF FilesAreTaken
      <4>3. snapshots[head[r]].rows \in Rows
        BY <2>1, <3>3 DEF IInv, TypeOK, Snapshot
      <4>4. Covers(head[r], snapshots[head[r]].rows) => Scan(head[r], Paths) = {}
        BY <4>2 DEF Covers, Scan
      <4> QED  BY <4>1, <4>3, <4>4, CoversNothing
    <3>4. ASSUME NEW q \in Runs \ {r}, at[q] = "embed", head[q] = head[r]
          PROVE  Scan(head[r], Paths) = {}
      <4>1. Covers(head[r], added[q])
        BY <3>1, <3>4 DEF IInv, Flushed
      <4>2. \A p \in Scan(head[r], Paths) : added[q][p] = None
        BY <2>1, <2>2, <3>1, <3>4 DEF FilesAreLocked
      <4> QED  BY <4>1, <4>2 DEF Covers, Scan
    <3> QED  BY <3>2, <3>3, <3>4
  <2>10. Flushed'
    <3> SUFFICES ASSUME NEW q \in Runs, at'[q] = "embed", head[q] \notin torn'
                 PROVE  /\ Covers(head[q], added'[q])
                        /\ \A p \in Paths :
                              added'[q][p] # None => added'[q][p].vector \in {None, model[q]}
                        /\ snapshots[head[q]] # None => snapshots[head[q]].rows = NoRows
                        /\ \A u \in Runs \ {q} :
                              at'[u] = "embed" /\ head[u] = head[q] => Scan(head[q], Paths) = {}
      BY <2>1 DEF Flushed, Covers, Scan, NoRows
    <3>1. CASE q = r
      BY <2>7, <2>8, <2>9, <3>1
    <3>2. CASE q # r
      <4>1. at[q] = "embed" /\ head[q] \notin torn /\ added'[q] = added[q]
        BY <2>1, <2>7, <2>8, <3>2
      <4>2. ASSUME NEW u \in Runs \ {q}, at'[u] = "embed", head[u] = head[q]
            PROVE  Scan(head[q], Paths) = {}
        BY <2>7, <2>9, <3>2, <4>1, <4>2 DEF IInv, Flushed
      <4> QED  BY <4>1, <4>2 DEF IInv, Flushed
    <3> QED  BY <3>1, <3>2
  <2> QED  BY <2>3, <2>4, <2>5, <2>6, <2>10 DEF IInv
<1> QED  BY <1>1, <1>2

-----------------------------------------------------------------------------
(* Steps that commit what was built.                                       *)

\* The commit of r's transaction, with s as the snapshot.
CommitOf(r, s, place) ==
    /\ snapshots' = [snapshots EXCEPT ![head[r]] = s]
    /\ Go(r, place)
    /\ EndOfTransaction(r)
    /\ UNCHANGED <<tip, clock, model, head, context, torn>>

\* A snapshot that r may commit.
Sound(r, s) ==
    /\ s \in Snapshot
    /\ s.born = IF snapshots[head[r]] = None THEN born[r] ELSE snapshots[head[r]].born
    /\ snapshots[head[r]] # None /\ snapshots[head[r]].status = "ready" => s.status = "ready"
    /\ head[r] \notin torn =>
         /\ Covers(head[r], s.rows)
         /\ s.chunked => Scan(head[r], Paths) # {}
         /\ s.status = "ready" => s.rows = FullIndex(head[r], s.model)

LEMMA CommitOfInv ==
    ASSUME IInv, NEW r \in Runs, at[r] = "embed", NEW place \in {"step", "idle"},
           NEW s, CommitOf(r, s, place), Sound(r, s)
    PROVE  /\ head[r] \in Commits /\ head[r] # None /\ s # None
           /\ snapshots' \in [Commits -> Snapshot \cup {None}]
           /\ InsertIsAlone' /\ HasSnapshot' /\ PreviousIsThere' /\ BornBefore'
           /\ AllOrNothing' /\ Flushed' /\ ReadyIsComplete'
<1>1. /\ head[r] \in Commits /\ head[r] # None /\ s \in Snapshot /\ s # None
      /\ snapshots \in [Commits -> Snapshot \cup {None}]
  BY NoneAssumption DEF IInv, TypeOK, CheckedOut, InStep, Sound
<1>2. /\ snapshots' = [snapshots EXCEPT ![head[r]] = s]
      /\ \A c \in Commits : snapshots'[c] = IF c = head[r] THEN s ELSE snapshots[c]
      /\ snapshots' \in [Commits -> Snapshot \cup {None}]
  BY <1>1 DEF CommitOf
<1>3. /\ \A q \in Runs : at'[q] = IF q = r THEN place ELSE at[q]
      /\ \A q \in Runs : born'[q] = IF q = r THEN None ELSE born[q]
      /\ \A q \in Runs : previous'[q] = IF q = r THEN None ELSE previous[q]
      /\ \A q \in Runs : added'[q] = IF q = r THEN NoRows ELSE added[q]
      /\ UNCHANGED <<tip, clock, model, head, context, torn>>
  BY DEF CommitOf, Go, EndOfTransaction, IInv, TypeOK
<1>4. \A q \in Runs \ {r} : born[q] # None => head[q] # head[r]
  BY DEF IInv, InsertIsAlone, HasSnapshot, Building
<1>5. InsertIsAlone'
  <2> SUFFICES ASSUME NEW q \in Runs, born'[q] # None
               PROVE  /\ at'[q] \in Building
                      /\ snapshots'[head[q]] = None
                      /\ \A u \in Runs \ {q} : born'[u] # None => head[u] # head[q]
    BY <1>3 DEF InsertIsAlone
  <2>1. q # r /\ born[q] # None
    BY <1>3
  <2>2. /\ at[q] \in Building /\ snapshots[head[q]] = None
        /\ \A u \in Runs \ {q} : born[u] # None => head[u] # head[q]
    BY <2>1 DEF IInv, InsertIsAlone
  <2>3. head[q] \in Commits
    BY <2>2 DEF IInv, TypeOK, CheckedOut, Building, InStep
  <2> QED  BY <1>2, <1>3, <1>4, <2>1, <2>2, <2>3
<1>6. HasSnapshot'
  BY <1>1, <1>2, <1>3 DEF IInv, TypeOK, CheckedOut, HasSnapshot, Building, InStep
<1>7. PreviousIsThere'
  BY <1>1, <1>2, <1>3 DEF IInv, TypeOK, PreviousIsThere
<1>8. BornBefore'
  <2>1. s.born < clock
    BY <1>1 DEF IInv, TypeOK, HasSnapshot, Building, BornBefore, Sound
  <2> QED  BY <1>2, <1>3, <2>1 DEF IInv, BornBefore
<1>9. AllOrNothing'
  BY <1>2, <1>3 DEF IInv, AllOrNothing, Sound, Covers, Scan, NoRows
<1>10. ReadyIsComplete'
  BY <1>2, <1>3 DEF IInv, ReadyIsComplete, Sound, FullIndex, Scan
<1>11. Flushed'
  <2> SUFFICES ASSUME NEW q \in Runs, at'[q] = "embed", head[q] \notin torn
               PROVE  /\ Covers(head[q], added'[q])
                      /\ \A p \in Paths :
                            added'[q][p] # None => added'[q][p].vector \in {None, model[q]}
                      /\ snapshots'[head[q]] # None => snapshots'[head[q]].rows = NoRows
                      /\ \A u \in Runs \ {q} :
                            at'[u] = "embed" /\ head[u] = head[q] => Scan(head[q], Paths) = {}
    BY <1>3 DEF Flushed, Covers, Scan, NoRows
  <2>1. q # r /\ at[q] = "embed" /\ added'[q] = added[q]
    BY <1>3
  <2>2. /\ Covers(head[q], added[q])
        /\ \A p \in Paths : added[q][p] # None => added[q][p].vector \in {None, model[q]}
        /\ snapshots[head[q]] # None => snapshots[head[q]].rows = NoRows
        /\ \A u \in Runs \ {q} : at[u] = "embed" /\ head[u] = head[q] => Scan(head[q], Paths) = {}
    BY <2>1 DEF IInv, Flushed
  <2>3. \A u \in Runs \ {q} : at'[u] = "embed" /\ head[u] = head[q] => Scan(head[q], Paths) = {}
    BY <1>3, <2>2
  <2>4. head[q] \in Commits
    BY <2>1 DEF IInv, TypeOK, CheckedOut, InStep
  <2>5. ASSUME head[q] = head[r]
        PROVE  s.rows = NoRows
    <3>1. Scan(head[r], Paths) = {} /\ Covers(head[r], s.rows) /\ s.rows \in Rows
      BY <1>1, <2>1, <2>2, <2>5 DEF Sound, Snapshot
    <3> QED  BY <3>1, CoversNothing
  <2> QED  BY <1>2, <2>1, <2>2, <2>3, <2>4, <2>5
<1> QED  BY <1>1, <1>2, <1>5, <1>6, <1>7, <1>8, <1>9, <1>10, <1>11

\* The snapshots that the two ends of index_snapshot commit.
Finished(r) ==
    [Merged(r, Embedded(r)) EXCEPT
        !.status = "ready",
        !.chunked = \E p \in Paths : added[r][p] # None /\ added[r][p].content \notin Blank,
        !.model = model[r]]

LEMMA FinishedIsSound ==
    ASSUME IInv, NEW r \in Runs, at[r] = "embed"
    PROVE  Sound(r, Finished(r)) /\ Finished(r).status = "ready"
<1>1. head[r] \in Commits /\ head[r] # None /\ at[r] \in Building /\ model[r] \in Models
  BY DEF IInv, TypeOK, CheckedOut, InStep, Building
<1>2. Embedded(r) \in Rows
  BY EmbeddedType DEF IInv
<1>3. Merged(r, Embedded(r)) \in Snapshot
  BY <1>1, <1>2, MergedIs DEF IInv
<1>4. /\ Finished(r) \in Snapshot
      /\ Finished(r).status = "ready" /\ Finished(r).model = model[r]
      /\ Finished(r).rows = Merged(r, Embedded(r)).rows
      /\ Finished(r).born = Merged(r, Embedded(r)).born
      /\ Finished(r).chunked =
           \E p \in Paths : added[r][p] # None /\ added[r][p].content \notin Blank
  <2> DEFINE some == \E p \in Paths : added[r][p] # None /\ added[r][p].content \notin Blank
             merged == Merged(r, Embedded(r))
  <2>1. some \in BOOLEAN
    OBVIOUS
  <2>2. Finished(r) = [merged EXCEPT !.status = "ready", !.chunked = some, !.model = model[r]]
    BY DEF Finished
  <2> HIDE DEF some, merged
  <2>3. merged \in Snapshot
    BY <1>3 DEF merged
  <2>4. /\ Finished(r) \in Snapshot
        /\ Finished(r).status = "ready" /\ Finished(r).model = model[r]
        /\ Finished(r).rows = merged.rows /\ Finished(r).born = merged.born
        /\ Finished(r).chunked = some
    BY <1>1, <2>1, <2>2, <2>3 DEF Snapshot
  <2> QED  BY <2>4 DEF some, merged
<1>5. Finished(r).born = IF snapshots[head[r]] = None THEN born[r] ELSE snapshots[head[r]].born
  BY <1>1, <1>2, <1>4, MergedIs DEF IInv
<1>6. ASSUME head[r] \notin torn
      PROVE  /\ Finished(r).rows = FullIndex(head[r], model[r])
             /\ Covers(head[r], Finished(r).rows)
             /\ Finished(r).chunked => Scan(head[r], Paths) # {}
  <2>1. Embedded(r) = FullIndex(head[r], model[r])
    BY <1>1, <1>6, EmbeddedIsFull DEF IInv
  <2>2. snapshots[head[r]] # None => snapshots[head[r]].rows = NoRows
    BY <1>6 DEF IInv, Flushed
  <2>3. Finished(r).rows = FullIndex(head[r], model[r])
    BY <1>1, <1>2, <1>4, <2>1, <2>2, MergedIs DEF IInv
  <2>4. Covers(head[r], added[r])
    BY <1>6 DEF IInv, Flushed
  <2>5. Finished(r).chunked => Scan(head[r], Paths) # {}
    BY <1>4, <2>4 DEF Covers
  <2> QED  BY <1>1, <2>3, <2>5, FullIndexCovers
<1> QED  BY <1>4, <1>5, <1>6 DEF Sound

LEMMA EmbedInv ==
    ASSUME IInv, NEW r \in Runs, Embed(r)
    PROVE  IInv'
<1>1. /\ at[r] = "embed" /\ CommitOf(r, Finished(r), "step")
      /\ chosen' = [chosen EXCEPT ![r] = head[r]]
      /\ state' = [state EXCEPT ![r] = "indexed"]
      /\ UNCHANGED <<disk, faults>>
  BY DEF Embed, CommitOf, Finished
<1>2. Sound(r, Finished(r)) /\ Finished(r).status = "ready"
  BY <1>1, FinishedIsSound
<1>3. /\ head[r] \in Commits /\ head[r] # None /\ Finished(r) # None
      /\ snapshots' \in [Commits -> Snapshot \cup {None}]
      /\ InsertIsAlone' /\ HasSnapshot' /\ PreviousIsThere' /\ BornBefore'
      /\ AllOrNothing' /\ Flushed' /\ ReadyIsComplete'
  BY <1>1, <1>2, CommitOfInv
<1>4. TypeOK'
  BY <1>1, <1>3
  DEF IInv, TypeOK, CommitOf, Go, EndOfTransaction, faults, Places, Working, NoRows, Rows
<1>5. CheckedOut'
  BY <1>1 DEF IInv, TypeOK, CheckedOut, CommitOf, Go, InStep
<1>6. ChosenIsReady'
  BY <1>1, <1>2, <1>3 DEF IInv, TypeOK, ChosenIsReady, CommitOf, Sound
<1> QED  BY <1>3, <1>4, <1>5, <1>6 DEF IInv

LEMMA EmbedFailsInv ==
    ASSUME IInv, NEW r \in Runs, EmbedFails(r)
    PROVE  IInv'
<1> DEFINE left == Merged(r, added[r])
<1>1. /\ at[r] = "embed" /\ ToEmbed(r) # {} /\ CommitOf(r, left, "idle")
      /\ chosen' = [chosen EXCEPT ![r] = head[r]]
      /\ state' = [state EXCEPT ![r] = "failed"]
      /\ disk' = [disk EXCEPT ![r] = None]
      /\ failures' = failures + 1
      /\ UNCHANGED <<crashes, losses>>
  BY DEF EmbedFails, CommitOf
<1>2. head[r] \in Commits /\ head[r] # None /\ at[r] \in Building /\ added[r] \in Rows
  BY <1>1 DEF IInv, TypeOK, CheckedOut, InStep, Building
<1>3. /\ left \in Snapshot
      /\ left.born = IF snapshots[head[r]] = None THEN born[r] ELSE snapshots[head[r]].born
      /\ snapshots[head[r]] # None /\ snapshots[head[r]].status = "ready" => left.status = "ready"
  BY <1>2, MergedIs DEF IInv
<1>4. ASSUME head[r] \notin torn
      PROVE  /\ Covers(head[r], left.rows)
             /\ left.chunked => Scan(head[r], Paths) # {}
             /\ left.status # "ready"
  <2>1. /\ Covers(head[r], added[r])
        /\ snapshots[head[r]] # None => snapshots[head[r]].rows = NoRows
    BY <1>1, <1>4 DEF IInv, Flushed
  <2>2. left.rows = added[r]
    BY <1>2, <2>1, MergedIs DEF IInv
  <2>3. Scan(head[r], Paths) # {}
    BY <1>1, <2>1 DEF Covers, ToEmbed
  <2>4. ASSUME snapshots[head[r]] # None, snapshots[head[r]].status = "ready"
        PROVE  FALSE
    <3>1. NoRows = FullIndex(head[r], snapshots[head[r]].model)
      BY <1>2, <1>4, <2>1, <2>4 DEF IInv, ReadyIsComplete
    <3>2. PICK p \in Scan(head[r], Paths) : TRUE
      BY <2>3
    <3>3. p \in Paths
      BY DEF Scan
    <3>4. /\ NoRows[p] = None
          /\ FullIndex(head[r], snapshots[head[r]].model)[p]
               = [content |-> History[head[r]][p],
                  vector |-> IF History[head[r]][p] \in Blank THEN None
                             ELSE snapshots[head[r]].model]
      BY <3>3 DEF NoRows, FullIndex
    <3>5. snapshots[head[r]].model \in Models \cup {None} /\ History[head[r]][p] \in Contents
      BY <1>2, <2>4, <3>3, ScanType DEF IInv, TypeOK, Snapshot
    <3>6. FullIndex(head[r], snapshots[head[r]].model)[p] \in Row
      BY <3>4, <3>5 DEF Row
    <3> QED  BY <3>1, <3>4, <3>6, NoneAssumption
  <2>5. left.status # "ready"
    BY <1>2, <2>4, MergedIs DEF IInv, TypeOK, Snapshot
  <2> QED  BY <2>1, <2>2, <2>3, <2>5
<1>5. Sound(r, left)
  BY <1>3, <1>4 DEF Sound
<1> HIDE DEF left
<1>6. /\ left # None
      /\ snapshots' \in [Commits -> Snapshot \cup {None}]
      /\ InsertIsAlone' /\ HasSnapshot' /\ PreviousIsThere' /\ BornBefore'
      /\ AllOrNothing' /\ Flushed' /\ ReadyIsComplete'
  BY <1>1, <1>5, CommitOfInv
<1>7. TypeOK'
  BY <1>1, <1>2, <1>6 DEF IInv, TypeOK, CommitOf, Go, EndOfTransaction, Places, NoRows, Rows
<1>8. CheckedOut'
  BY <1>1 DEF IInv, TypeOK, CheckedOut, CommitOf, Go, InStep
<1>9. ChosenIsReady'
  BY <1>1, <1>2, <1>5, <1>6 DEF IInv, TypeOK, ChosenIsReady, CommitOf, Sound
<1> QED  BY <1>6, <1>7, <1>8, <1>9 DEF IInv

-----------------------------------------------------------------------------
(* The invariant and what follows from it.                                 *)

LEMMA InitInv == Init => IInv
<1> SUFFICES ASSUME Init PROVE IInv
  OBVIOUS
<1>1. TypeOK
  <2>1. NoRows \in Rows
    BY DEF NoRows, Rows
  <2> QED  BY <2>1, Domains DEF Init, TypeOK, Working, Places
<1> QED
  BY <1>1 DEF Init, IInv, CheckedOut, ChosenIsReady, InsertIsAlone, HasSnapshot, PreviousIsThere,
              BornBefore, AllOrNothing, Flushed, ReadyIsComplete, InStep, Building

LEMMA StutterInv == IInv /\ UNCHANGED vars => IInv'
<1> SUFFICES ASSUME IInv, UNCHANGED vars PROVE IInv'
  OBVIOUS
<1>1. TypeOK' /\ CheckedOut' /\ ChosenIsReady'
  BY DEF IInv, TypeOK, CheckedOut, ChosenIsReady, vars, db, work, faults
<1>2. Steady
  BY DEF Steady, vars, db, work
<1> QED  BY <1>1, <1>2, SteadyInv DEF IInv

LEMMA NextInv == IInv /\ [Next]_vars => IInv'
<1> SUFFICES ASSUME IInv, [Next]_vars PROVE IInv'
  OBVIOUS
<1>1. CASE UNCHANGED vars
  BY <1>1, StutterInv
<1>2. CASE Push \/ LoseMachine
  BY <1>2, PushInv, LoseMachineInv
<1>3. ASSUME NEW r \in Runs,
             WorkerStep(r) \/ CloneFails(r) \/ Kill(r) \/ EmbedFails(r) \/ QueryFails(r)
      PROVE  IInv'
  BY <1>3, ClaimInv, RehydrateInv, CloneInv, KillInv, RetrieveInv, FindSnapshotInv,
     InsertSnapshotInv, BuildInv, EmbedInv, EmbedFailsInv DEF WorkerStep
<1> QED  BY <1>1, <1>2, <1>3 DEF Next

LEMMA Invariance == Spec => []IInv
BY InitInv, NextInv, PTL DEF Spec

\* Rows, checkouts and the memory of workers keep their types: an insert that waits or fails,
\* an embedding that is refused and a worker that is killed leave nothing half written.
THEOREM TypeCorrect == Spec => []TypeOK
<1>1. IInv => TypeOK
  BY DEF IInv
<1> QED  BY Invariance, <1>1, PTL

\* However many runs index, whatever they carry forward and whichever models they use, a
\* snapshot that index_snapshot marks ready is the full index of its commit for the model it
\* names (of a commit nobody indexed from a half checkout).
THEOREM ReadyIndexIsComplete == Spec => []ReadyIsComplete
<1>1. IInv => ReadyIsComplete
  BY DEF IInv
<1> QED  BY Invariance, <1>1, PTL

\* What a run retrieves from leaves out no file of its commit: hybrid_search finds each by
\* text, and by meaning if the run's model made the vectors.
THEOREM NothingIsHidden == Spec => []NothingHidden
<1>1. ASSUME IInv PROVE NothingHidden
  <2> SUFFICES ASSUME NEW r \in Runs, at[r] = "step", state[r] = "indexed", chosen[r] \notin torn,
                      NEW code,
                      code = {p \in Scan(chosen[r], Paths) : History[chosen[r]][p] \notin Blank}
               PROVE  /\ LexicalHits(r) = code
                      /\ snapshots[chosen[r]].model = model[r] => SemanticHits(r) = code
    BY DEF NothingHidden
  <2>1. /\ chosen[r] \in Commits /\ model[r] \in Models
        /\ snapshots[chosen[r]] # None /\ snapshots[chosen[r]].status = "ready"
    BY <1>1 DEF IInv, TypeOK, ChosenIsReady
  <2>2. Found(r) = FullIndex(chosen[r], snapshots[chosen[r]].model)
    BY <1>1, <2>1 DEF IInv, ReadyIsComplete, Found
  <2>3. snapshots[chosen[r]].model \in Models \cup {None}
    BY <1>1, <2>1 DEF IInv, TypeOK, Snapshot
  <2>4. ASSUME NEW p \in Paths
        PROVE  /\ p \notin Scan(chosen[r], Paths) => Found(r)[p] = None
               /\ p \in Scan(chosen[r], Paths) =>
                    /\ Found(r)[p] # None
                    /\ Found(r)[p].content = History[chosen[r]][p]
                    /\ History[chosen[r]][p] \notin Blank =>
                         Found(r)[p].vector = snapshots[chosen[r]].model
    <3> DEFINE row == [content |-> History[chosen[r]][p],
                       vector |-> IF History[chosen[r]][p] \in Blank THEN None
                                  ELSE snapshots[chosen[r]].model]
    <3>1. Found(r)[p] = IF p \notin Scan(chosen[r], Paths) THEN None ELSE row
      BY <2>2 DEF FullIndex
    <3>2. p \in Scan(chosen[r], Paths) => row \in Row
      BY <2>1, <2>3, ScanType DEF Row
    <3> QED  BY <3>1, <3>2, NoneAssumption
  <2>5. Scan(chosen[r], Paths) \subseteq Paths
    BY DEF Scan
  <2> QED  BY <2>4, <2>5 DEF LexicalHits, SemanticHits
<1> QED  BY Invariance, <1>1, PTL

\* Nobody adds to a snapshot that is searched: who could commit to it found it without rows,
\* while a snapshot that is ready and has chunks has rows.
LEMMA SearchedIsNotBuilt ==
    ASSUME IInv, NEW r \in Runs, at[r] = "embed", head[r] \notin torn
    PROVE  ~Indexed(head[r])
<1> SUFFICES ASSUME Indexed(head[r]) PROVE FALSE
  OBVIOUS
<1>1. /\ head[r] \in Commits /\ snapshots[head[r]] # None
      /\ snapshots[head[r]].status = "ready" /\ snapshots[head[r]].chunked
  BY DEF IInv, TypeOK, CheckedOut, InStep, Indexed
<1>2. snapshots[head[r]].rows = NoRows
  BY <1>1 DEF IInv, Flushed
<1>3. NoRows = FullIndex(head[r], snapshots[head[r]].model)
  BY <1>1, <1>2 DEF IInv, ReadyIsComplete
<1>4. PICK p \in Scan(head[r], Paths) : TRUE
  BY <1>1 DEF IInv, AllOrNothing
<1>5. p \in Paths
  BY DEF Scan
<1> DEFINE row == [content |-> History[head[r]][p],
                   vector |-> IF History[head[r]][p] \in Blank THEN None
                              ELSE snapshots[head[r]].model]
<1>6. NoRows[p] = None /\ FullIndex(head[r], snapshots[head[r]].model)[p] = row
  BY <1>5 DEF NoRows, FullIndex
<1>7. row \in Row
  BY <1>1, <1>5, ScanType DEF IInv, TypeOK, Snapshot, Row
<1> QED  BY <1>3, <1>6, <1>7, NoneAssumption

\* A snapshot that runs search stays as it is, through every interleaving of other runs'
\* inserts, commits and failures (of a commit nobody indexed from a half checkout).
THEOREM SearchedIndexStays == Spec => ReadyStays
<1>1. ASSUME IInv, [Next]_vars
      PROVE  [\A c \in Commits \ torn : Indexed(c) => snapshots'[c] = snapshots[c]]_vars
  <2>1. ASSUME NEW r \in Runs, Embed(r) \/ EmbedFails(r), NEW c \in Commits \ torn, Indexed(c)
        PROVE  snapshots'[c] = snapshots[c]
    <3>1. c # head[r]
      BY <1>1, <2>1, SearchedIsNotBuilt DEF Embed, EmbedFails
    <3> QED  BY <1>1, <2>1, <3>1 DEF Embed, EmbedFails, IInv, TypeOK
  <2>2. ASSUME NEW r \in Runs, WorkerStep(r) \/ CloneFails(r) \/ Kill(r) \/ QueryFails(r),
               ~Embed(r)
        PROVE  snapshots' = snapshots
    <3>1. ASSUME NEW m \in Models, Claim(r, m) PROVE snapshots' = snapshots
      BY <3>1 DEF Claim, db
    <3>2. ASSUME Rehydrate(r) \/ Clone(r) \/ CloneFails(r) \/ Kill(r) PROVE snapshots' = snapshots
      BY <3>2 DEF Rehydrate, Clone, CloneFails, Kill, db
    <3>3. ASSUME FindSnapshot(r) \/ Retrieve(r) \/ QueryFails(r) PROVE snapshots' = snapshots
      BY <3>3 DEF FindSnapshot, Retrieve, QueryFails
    <3>4. ASSUME InsertSnapshot(r) \/ Build(r) PROVE snapshots' = snapshots
      BY <3>4 DEF InsertSnapshot, Build, RecordFailure
    <3> QED  BY <2>2, <3>1, <3>2, <3>3, <3>4 DEF WorkerStep
  <2>3. Push \/ LoseMachine => snapshots' = snapshots
    BY DEF Push, LoseMachine, db
  <2> QED  BY <1>1, <2>1, <2>2, <2>3 DEF Next
<1> QED  BY Invariance, <1>1, PTL DEF Spec, ReadyStays

-----------------------------------------------------------------------------
(* CodeSearch: scores, and the inductive invariant.                        *)

N == CANDIDATES_PER_STRATEGY

High(score) ==
    (SemanticWeight + LexicalWeight) * (Share[1] * (RRF_K + 1)) <= score * (RRF_K + N)

Low(score) == \E weight \in {SemanticWeight, LexicalWeight} : score <= weight * Share[1]

\* The chunks collected that both strategies found for a query.
Both == {c \in DOMAIN collected : collected[c].strategies = 2}

ScoresTell ==
    \A c \in DOMAIN collected :
       /\ collected[c].strategies = 2 => High(collected[c].score)
       /\ collected[c].strategies = 1 => Low(collected[c].score)

AgreedAreThere == agreed \subseteq Both \/ Cardinality(Both) >= Limit

SearchInv == SearchTypeOK /\ ScoresTell /\ AgreedAreThere /\ AgreementWins

-----------------------------------------------------------------------------
(* Arithmetic.                                                             *)

LEMMA Products ==
    ASSUME NEW a \in Nat, NEW b \in Nat, NEW c \in Nat, a <= b
    PROVE  a * c <= b * c /\ a * c \in Nat /\ b * c \in Nat
OBVIOUS

LEMMA StrictProducts ==
    ASSUME NEW a \in Nat, NEW b \in Nat, NEW c \in Nat, c > 0
    PROVE  a * c < b * c <=> a < b
OBVIOUS

LEMMA Numbers ==
    /\ RRF_K \in Nat /\ N \in Nat /\ N > 0
    /\ SemanticWeight \in Nat /\ LexicalWeight \in Nat
    /\ Limit \in Nat /\ MaxQueries \in Nat
    /\ Ranks = 1..N /\ 1 \in Ranks
BY LimitsAssumption DEF N, Ranks

\* The first rank has the largest share, the last the smallest.
LEMMA ShareBounds ==
    ASSUME NEW p \in Ranks
    PROVE  /\ Share[p] \in Nat /\ Share[p] > 0
           /\ Share[1] \in Nat /\ Share[1] > 0
           /\ Share[p] <= Share[1]
           /\ Share[1] * (RRF_K + 1) <= Share[p] * (RRF_K + N)
<1>1. /\ Share[p] \in Nat /\ Share[p] > 0
      /\ Share[1] \in Nat /\ Share[1] > 0
      /\ Share[p] * (RRF_K + p) = Share[1] * (RRF_K + 1)
  BY Numbers, ShareAssumption
<1>2. p \in Nat /\ 1 <= p /\ p <= N /\ RRF_K \in Nat /\ N \in Nat
  BY Numbers
<1>3. Share[1] * (RRF_K + 1) <= Share[p] * (RRF_K + N)
  <2>1. (RRF_K + p) * Share[p] <= (RRF_K + N) * Share[p]
    BY <1>1, <1>2, Products
  <2> QED  BY <1>1, <1>2, <2>1
<1>4. Share[p] <= Share[1]
  <2>1. (RRF_K + 1) * Share[1] <= (RRF_K + p) * Share[1]
    BY <1>1, <1>2, Products
  <2>2. Share[p] * (RRF_K + p) <= Share[1] * (RRF_K + p)
    BY <1>1, <1>2, <2>1
  <2>3. ~(Share[1] * (RRF_K + p) < Share[p] * (RRF_K + p))
    BY <1>1, <1>2, <2>2
  <2> QED  BY <1>1, <1>2, <2>3, StrictProducts
<1> QED  BY <1>1, <1>3, <1>4

LEMMA HighBeatsLow ==
    ASSUME NEW high \in Nat, NEW low \in Nat, High(high), Low(low)
    PROVE  low < high
<1>1. PICK weight \in {SemanticWeight, LexicalWeight} : low <= weight * Share[1]
  BY DEF Low
<1>2. /\ weight \in Nat /\ Share[1] \in Nat /\ Share[1] > 0
      /\ RRF_K \in Nat /\ N \in Nat /\ N > 0
      /\ SemanticWeight + LexicalWeight \in Nat
  BY Numbers, ShareBounds
<1> DEFINE both == SemanticWeight + LexicalWeight
           top == RRF_K + N
           bottom == RRF_K + 1
<1>3. /\ both \in Nat /\ top \in Nat /\ bottom \in Nat /\ top > 0
      /\ weight * top < both * bottom
  BY <1>2, WeightsAssumption DEF N
<1>4. both * (Share[1] * bottom) <= high * top
  BY DEF High
<1> HIDE DEF both, top, bottom
<1>5. (weight * top) * Share[1] < (both * bottom) * Share[1]
  <2>1. weight * top \in Nat /\ both * bottom \in Nat
    BY <1>2, <1>3
  <2> QED  BY <1>2, <1>3, <2>1, StrictProducts
<1>6. low * top <= (weight * Share[1]) * top
  <2>1. weight * Share[1] \in Nat
    BY <1>2
  <2> QED  BY <1>1, <1>3, <2>1, Products
<1>7. /\ (weight * Share[1]) * top = (weight * top) * Share[1]
      /\ (both * bottom) * Share[1] = both * (Share[1] * bottom)
  BY <1>2, <1>3
<1>8. low * top < high * top
  <2>1. /\ low * top \in Nat /\ high * top \in Nat
        /\ (weight * top) * Share[1] \in Nat /\ (both * bottom) * Share[1] \in Nat
    BY <1>2, <1>3
  <2> QED  BY <1>4, <1>5, <1>6, <1>7, <2>1
<1> QED  BY <1>3, <1>8, StrictProducts

-----------------------------------------------------------------------------
(* Lists and their fusion.                                                 *)

\* What a search returns: chunks without repetition, at most as many as there are ranks.
Hits == {list \in Seq(chunks) : Len(list) <= N}

LEMMA ChunksFinite ==
    ASSUME SearchTypeOK
    PROVE  IsFiniteSet(chunks)
BY ChunksAssumption DEF SearchTypeOK

LEMMA LimitedAreLists ==
    ASSUME NEW set, IsFiniteSet(set), NEW n \in Nat, NEW list \in Limited(set, n)
    PROVE  list \in Seq(set) /\ Len(list) <= n /\ Range(list) \subseteq set
<1>1. Cardinality(set) \in Nat
  BY FS_CardinalityType
<1>2. Smaller(n, Cardinality(set)) \in Nat /\ Smaller(n, Cardinality(set)) <= n
  BY <1>1 DEF Smaller
<1>3. list \in [1..Smaller(n, Cardinality(set)) -> set]
  BY DEF Limited, Injection
<1> QED  BY <1>2, <1>3 DEF Range

LEMMA SearchesAreHits ==
    ASSUME SearchTypeOK
    PROVE  SemanticSearches \subseteq Hits /\ LexicalSearches \subseteq Hits
<1>1. IsFiniteSet(chunks)
  BY ChunksFinite
<1>2. SemanticSearches \subseteq Hits
  BY <1>1, LimitedAreLists, Numbers DEF SemanticSearches, Hits, N
<1>3. ASSUME NEW symbols \in SUBSET Symbols, NEW mentions \in SUBSET chunks
      PROVE  LexicalLists(symbols, mentions) \subseteq Hits
  <2> DEFINE hits == {c \in chunks : c.symbol \in symbols} \cup mentions
  <2>1. hits \in SUBSET chunks
    OBVIOUS
  <2>2. IsFiniteSet(hits)
    BY <1>1, <2>1, FS_Subset
  <2>3. ASSUME NEW list \in LexicalLists(symbols, mentions)
        PROVE  list \in Hits
    <3>1. list \in Limited(hits, N)
      BY DEF LexicalLists, N
    <3> HIDE DEF hits
    <3>2. list \in Seq(hits) /\ Len(list) <= N
      BY <2>2, <3>1, LimitedAreLists, Numbers
    <3> QED  BY <2>1, <3>2 DEF Hits
  <2> QED  BY <2>3
<1> QED  BY <1>2, <1>3 DEF LexicalSearches

LEMMA Contributions ==
    ASSUME NEW list \in Hits, NEW weight \in Nat, NEW c
    PROVE  /\ Contribution(list, weight, c) \in Nat
           /\ c \notin Range(list) => Contribution(list, weight, c) = 0
           /\ c \in Range(list) =>
                \E rank \in Ranks : Contribution(list, weight, c) = weight * Share[rank]
<1>1. CASE c \notin Range(list)
  BY <1>1 DEF Contribution
<1>2. CASE c \in Range(list)
  <2> DEFINE rank == CHOOSE i \in DOMAIN list : list[i] = c
  <2>1. rank \in DOMAIN list
    BY <1>2 DEF Range
  <2>2. rank \in Ranks
    BY <2>1, Numbers DEF Hits
  <2>3. Contribution(list, weight, c) = weight * Share[rank]
    BY <1>2 DEF Contribution
  <2> HIDE DEF rank
  <2> QED  BY <1>2, <2>2, <2>3, ShareBounds
<1> QED  BY <1>1, <1>2

\* Two contributions are High, one is Low.
LEMMA HighAndLow ==
    ASSUME NEW p \in Ranks, NEW q \in Ranks
    PROVE  /\ High(SemanticWeight * Share[p] + LexicalWeight * Share[q])
           /\ Low(SemanticWeight * Share[p]) /\ Low(LexicalWeight * Share[q])
<1> DEFINE first == Share[1] * (RRF_K + 1)
           last == RRF_K + N
<1>1. /\ SemanticWeight \in Nat /\ LexicalWeight \in Nat
      /\ Share[p] \in Nat /\ Share[q] \in Nat /\ Share[1] \in Nat
      /\ first \in Nat /\ last \in Nat
  BY Numbers, ShareBounds
<1>2. /\ first <= Share[p] * last /\ first <= Share[q] * last
      /\ Share[p] <= Share[1] /\ Share[q] <= Share[1]
  BY ShareBounds
<1> HIDE DEF first, last
<1>3. Share[p] * last \in Nat /\ Share[q] * last \in Nat
  BY <1>1
<1>4. /\ first * SemanticWeight <= (Share[p] * last) * SemanticWeight
      /\ first * LexicalWeight <= (Share[q] * last) * LexicalWeight
  BY <1>1, <1>2, <1>3, Products
<1>5. /\ (SemanticWeight + LexicalWeight) * first
             = first * SemanticWeight + first * LexicalWeight
      /\ (SemanticWeight * Share[p] + LexicalWeight * Share[q]) * last
             = (Share[p] * last) * SemanticWeight + (Share[q] * last) * LexicalWeight
  BY <1>1
<1>6. High(SemanticWeight * Share[p] + LexicalWeight * Share[q])
  <2>1. /\ first * SemanticWeight \in Nat /\ first * LexicalWeight \in Nat
        /\ (Share[p] * last) * SemanticWeight \in Nat
        /\ (Share[q] * last) * LexicalWeight \in Nat
    BY <1>1, <1>3
  <2>2. (SemanticWeight + LexicalWeight) * first
            <= (SemanticWeight * Share[p] + LexicalWeight * Share[q]) * last
    BY <1>4, <1>5, <2>1
  <2> QED  BY <2>2 DEF High, first, last
<1>7. /\ Share[p] * SemanticWeight <= Share[1] * SemanticWeight
      /\ Share[q] * LexicalWeight <= Share[1] * LexicalWeight
  BY <1>1, <1>2, Products
<1>8. /\ SemanticWeight * Share[p] <= SemanticWeight * Share[1]
      /\ LexicalWeight * Share[q] <= LexicalWeight * Share[1]
  BY <1>1, <1>7
<1> QED  BY <1>6, <1>8 DEF Low

LEMMA FusedScores ==
    ASSUME NEW semantic \in Hits, NEW lexical \in Hits,
           NEW fused, fused = Fused(semantic, lexical)
    PROVE  /\ DOMAIN fused = Range(semantic) \cup Range(lexical)
           /\ DOMAIN fused \subseteq chunks
           /\ \A c \in DOMAIN fused :
                 /\ fused[c] \in Result
                 /\ fused[c].strategies = 2 <=> c \in Range(semantic) \cap Range(lexical)
                 /\ fused[c].strategies = 2 => High(fused[c].score)
                 /\ fused[c].strategies = 1 => Low(fused[c].score)
<1>1. DOMAIN fused = Range(semantic) \cup Range(lexical)
  BY DEF Fused
<1>2. DOMAIN fused \subseteq chunks
  BY <1>1 DEF Hits, Range
<1>3. ASSUME NEW c \in DOMAIN fused
      PROVE  /\ fused[c] \in Result
             /\ fused[c].strategies = 2 <=> c \in Range(semantic) \cap Range(lexical)
             /\ fused[c].strategies = 2 => High(fused[c].score)
             /\ fused[c].strategies = 1 => Low(fused[c].score)
  <2> DEFINE near == Contribution(semantic, SemanticWeight, c)
             text == Contribution(lexical, LexicalWeight, c)
  <2> HIDE DEF near, text
  <2>1. /\ fused[c].strategies
              = IF c \in Range(semantic) \cap Range(lexical) THEN 2 ELSE 1
        /\ fused[c].score = near + text
        /\ fused[c] = [strategies |-> fused[c].strategies, score |-> fused[c].score]
    BY <1>1 DEF Fused, Score, near, text
  <2>2. /\ near \in Nat /\ text \in Nat
        /\ c \notin Range(semantic) => near = 0
        /\ c \notin Range(lexical) => text = 0
        /\ c \in Range(semantic) => \E rank \in Ranks : near = SemanticWeight * Share[rank]
        /\ c \in Range(lexical) => \E rank \in Ranks : text = LexicalWeight * Share[rank]
    <3>1. SemanticWeight \in Nat /\ LexicalWeight \in Nat
      BY Numbers
    <3> QED  BY <3>1, Contributions DEF near, text
  <2>3. fused[c] \in Result
    BY <2>1, <2>2 DEF Result
  <2>4. CASE c \in Range(semantic) \cap Range(lexical)
    <3>1. PICK p \in Ranks : near = SemanticWeight * Share[p]
      BY <2>2, <2>4
    <3>2. PICK q \in Ranks : text = LexicalWeight * Share[q]
      BY <2>2, <2>4
    <3>3. High(near + text)
      BY <3>1, <3>2, HighAndLow
    <3> QED  BY <2>1, <2>3, <2>4, <3>3
  <2>5. CASE c \in Range(semantic) /\ c \notin Range(lexical)
    <3>1. PICK p \in Ranks : near = SemanticWeight * Share[p]
      BY <2>2, <2>5
    <3>2. near + text = SemanticWeight * Share[p]
      BY <2>2, <2>5, <3>1
    <3>3. Low(near + text)
      BY <3>2, HighAndLow
    <3> QED  BY <2>1, <2>3, <2>5, <3>3
  <2>6. CASE c \notin Range(semantic) /\ c \in Range(lexical)
    <3>1. PICK q \in Ranks : text = LexicalWeight * Share[q]
      BY <2>2, <2>6
    <3>2. near + text = LexicalWeight * Share[q]
      BY <2>2, <2>6, <3>1
    <3>3. Low(near + text)
      BY <3>2, HighAndLow
    <3> QED  BY <2>1, <2>3, <2>6, <3>3
  <2> QED  BY <1>1, <2>4, <2>5, <2>6
<1> QED  BY <1>1, <1>2, <1>3

-----------------------------------------------------------------------------
(* The invariant.                                                          *)

LEMMA SearchInitInv == SearchInit => SearchInv
<1> SUFFICES ASSUME SearchInit PROVE SearchInv
  OBVIOUS
<1>1. SearchTypeOK
  BY Numbers DEF SearchInit, SearchTypeOK
<1>2. DOMAIN collected = {} /\ agreed = {} /\ returned = <<>>
  BY DEF SearchInit
<1> QED  BY <1>1, <1>2 DEF SearchInv, ScoresTell, AgreedAreThere, AgreementWins

\* What is collected is not forgotten, and what was found by both stays so.
LEMMA QueryInv ==
    ASSUME SearchInv, NEW semantic \in SemanticSearches, NEW lexical \in LexicalSearches,
           Query(semantic, lexical)
    PROVE  SearchInv'
<1> DEFINE fused == Fused(semantic, lexical)
           found == Range(semantic) \cap Range(lexical)
           better(c) == c \in DOMAIN collected => fused[c].score > collected[c].score
<1>1. PICK top \in SUBSET DOMAIN fused :
        /\ IsBest(top, fused)
        /\ collected' = [c \in DOMAIN collected \cup top |->
                            IF c \in top /\ better(c) THEN fused[c] ELSE collected[c]]
  BY DEF Query
<1>2. /\ returned = <<>> /\ asked < MaxQueries /\ asked' = asked + 1
      /\ agreed' = agreed \cup found
      /\ file' = file /\ chunks' = chunks /\ returned' = returned
  BY DEF Query
<1>3. /\ DOMAIN fused = Range(semantic) \cup Range(lexical)
      /\ DOMAIN fused \subseteq chunks
      /\ \A c \in DOMAIN fused :
            /\ fused[c] \in Result
            /\ fused[c].strategies = 2 <=> c \in found
            /\ fused[c].strategies = 2 => High(fused[c].score)
            /\ fused[c].strategies = 1 => Low(fused[c].score)
  <2>1. semantic \in Hits /\ lexical \in Hits
    BY SearchesAreHits DEF SearchInv
  <2> QED  BY <2>1, FusedScores
<1> HIDE DEF fused, found
<1>4. DOMAIN collected \subseteq chunks /\ IsFiniteSet(chunks)
  BY ChunksFinite DEF SearchInv, SearchTypeOK
<1>5. DOMAIN collected' = DOMAIN collected \cup top
  BY <1>1
<1>6. ASSUME NEW c \in DOMAIN collected'
      PROVE  \/ c \in top /\ collected'[c] = fused[c] /\ better(c)
             \/ c \in DOMAIN collected /\ collected'[c] = collected[c] /\ (c \in top => ~better(c))
  BY <1>1, <1>5
<1>7. /\ \A c \in DOMAIN collected : collected[c] \in Result
      /\ \A c \in DOMAIN collected : collected[c].strategies = 2 => High(collected[c].score)
      /\ \A c \in DOMAIN collected : collected[c].strategies = 1 => Low(collected[c].score)
  BY DEF SearchInv, SearchTypeOK, ScoresTell
<1>8. SearchTypeOK'
  <2>1. DOMAIN collected' \subseteq chunks /\ agreed' \subseteq chunks
    BY <1>2, <1>3, <1>4, <1>5 DEF SearchInv, SearchTypeOK, found
  <2>2. \A c \in DOMAIN collected' : collected'[c] \in Result
    BY <1>3, <1>6, <1>7
  <2>3. asked' \in 0..MaxQueries
    BY <1>2, Numbers DEF SearchInv, SearchTypeOK
  <2>4. returned' \in Seq(DOMAIN collected')
    BY <1>2
  <2>5. file' \in Files /\ chunks' = ChunksOf[file']
    BY <1>2 DEF SearchInv, SearchTypeOK
  <2>6. chunks' = chunks
    BY <1>2
  <2> QED  BY <2>1, <2>2, <2>3, <2>4, <2>5, <2>6 DEF SearchTypeOK
<1>9. ScoresTell'
  BY <1>3, <1>6, <1>7 DEF ScoresTell
<1>10. ASSUME NEW c \in Both
       PROVE  c \in Both'
  <2>1. c \in DOMAIN collected /\ collected[c].strategies = 2 /\ c \in DOMAIN collected'
    BY <1>5 DEF Both
  <2>2. ASSUME c \in top, collected'[c] = fused[c], better(c)
        PROVE  fused[c].strategies = 2
    <3> SUFFICES ASSUME fused[c].strategies # 2 PROVE FALSE
      OBVIOUS
    <3>1. /\ fused[c] \in Result /\ collected[c] \in Result
          /\ High(collected[c].score) /\ Low(fused[c].score)
      BY <1>3, <1>7, <2>1, <2>2 DEF Result
    <3>2. fused[c].score < collected[c].score
      BY <3>1, HighBeatsLow DEF Result
    <3> QED  BY <2>1, <2>2, <3>1, <3>2 DEF Result
  <2> QED  BY <1>6, <2>1, <2>2 DEF Both
<1>11. ASSUME NEW c \in top, c \in found
       PROVE  c \in Both'
  <2>1. /\ c \in DOMAIN collected' /\ fused[c] \in Result
        /\ fused[c].strategies = 2 /\ High(fused[c].score)
    BY <1>3, <1>5, <1>11
  <2>2. ASSUME c \in DOMAIN collected, ~better(c)
        PROVE  collected[c].strategies = 2
    <3> SUFFICES ASSUME collected[c].strategies # 2 PROVE FALSE
      OBVIOUS
    <3>1. collected[c] \in Result /\ Low(collected[c].score)
      BY <1>7, <2>2 DEF Result
    <3>2. collected[c].score < fused[c].score
      BY <2>1, <3>1, HighBeatsLow DEF Result
    <3> QED  BY <2>1, <2>2, <3>1, <3>2 DEF Result
  <2> QED  BY <1>6, <2>1, <2>2 DEF Both
<1>12. IsFiniteSet(Both') /\ Cardinality(Both') \in Nat
  <2>1. Both' \subseteq chunks
    BY <1>8, <1>2 DEF Both, SearchTypeOK
  <2> QED  BY <1>4, <2>1, FS_Subset, FS_CardinalityType
<1>13. AgreedAreThere'
  <2>1. CASE Cardinality(Both) >= Limit
    <3>1. Both \subseteq Both'
      BY <1>10
    <3>2. IsFiniteSet(Both) /\ Cardinality(Both) \in Nat /\ Cardinality(Both) <= Cardinality(Both')
      BY <1>12, <3>1, FS_Subset, FS_CardinalityType
    <3> QED  BY <1>12, <2>1, <3>2, Numbers DEF AgreedAreThere
  <2>2. CASE agreed \subseteq Both /\ found \subseteq top
    BY <1>2, <1>10, <1>11, <2>2 DEF AgreedAreThere
  <2>3. CASE ~(found \subseteq top)
    <3>1. PICK d \in found : d \notin top
      BY <2>3
    <3>2. d \in DOMAIN fused /\ fused[d] \in Result /\ High(fused[d].score)
      BY <1>3 DEF found
    <3>3. ASSUME NEW c \in top
          PROVE  c \in found
      <4> SUFFICES ASSUME c \notin found PROVE FALSE
        OBVIOUS
      <4>1. fused[c] \in Result /\ Low(fused[c].score)
        BY <1>3 DEF Result
      <4>2. fused[c].score < fused[d].score
        BY <3>2, <4>1, HighBeatsLow DEF Result
      <4>3. fused[c].score >= fused[d].score
        BY <1>1, <3>1, <3>2 DEF IsBest
      <4> QED  BY <3>2, <4>1, <4>2, <4>3 DEF Result
    <3>4. top \subseteq Both'
      BY <1>11, <3>3
    <3>5. IsFiniteSet(DOMAIN fused)
      BY <1>3, <1>4, FS_Subset
    <3>6. /\ Cardinality(DOMAIN fused) \in Nat
          /\ Cardinality(top) # Cardinality(DOMAIN fused)
      BY <3>1, <3>2, <3>5, FS_Subset, FS_CardinalityType
    <3>7. Cardinality(top) = Limit
      BY <1>1, <3>6 DEF IsBest, Smaller
    <3>8. Cardinality(top) <= Cardinality(Both')
      BY <1>12, <3>4, FS_Subset
    <3> QED  BY <1>12, <3>7, <3>8, Numbers DEF AgreedAreThere
  <2> QED  BY <2>1, <2>2, <2>3 DEF SearchInv, AgreedAreThere
<1>14. AgreementWins'
  BY <1>2 DEF AgreementWins
<1> QED  BY <1>8, <1>9, <1>13, <1>14 DEF SearchInv

\* A chunk of one strategy is among the best only if all those of both are.
LEMMA AnswerInv ==
    ASSUME SearchInv, NEW list \in Limited(DOMAIN collected, Limit), Answer(list)
    PROVE  SearchInv'
<1>1. /\ returned' = list
      /\ file' = file /\ chunks' = chunks /\ asked' = asked
      /\ collected' = collected /\ agreed' = agreed
      /\ IsBest(Range(list), collected)
      /\ \A i, j \in DOMAIN list : i < j => collected[list[i]].score >= collected[list[j]].score
  BY DEF Answer
<1>2. IsFiniteSet(DOMAIN collected)
  BY ChunksFinite, FS_Subset DEF SearchInv, SearchTypeOK
<1>3. list \in Seq(DOMAIN collected)
  BY <1>2, LimitedAreLists, Numbers
<1>4. SearchTypeOK'
  BY <1>1, <1>3 DEF SearchInv, SearchTypeOK
<1>5. ScoresTell' /\ AgreedAreThere'
  BY <1>1 DEF SearchInv, ScoresTell, AgreedAreThere, Both
<1>6. \A c \in DOMAIN collected :
         /\ collected[c] \in Result
         /\ collected[c].strategies = 2 => High(collected[c].score)
         /\ collected[c].strategies = 1 => Low(collected[c].score)
  BY DEF SearchInv, SearchTypeOK, ScoresTell
<1>7. ASSUME NEW i \in DOMAIN list, collected[list[i]].strategies = 1
      PROVE  /\ agreed \subseteq Range(list)
             /\ \A j \in DOMAIN list : j > i => collected[list[j]].strategies = 1
  <2>1. /\ list[i] \in DOMAIN collected /\ list[i] \in Range(list)
        /\ collected[list[i]] \in Result /\ Low(collected[list[i]].score)
    BY <1>3, <1>6, <1>7 DEF Range
  <2>2. ASSUME NEW c \in Both
        PROVE  collected[list[i]].score < collected[c].score /\ collected[c] \in Result
    <3>1. collected[c] \in Result /\ High(collected[c].score)
      BY <1>6 DEF Both
    <3> QED  BY <2>1, <3>1, HighBeatsLow DEF Result
  <2>3. ASSUME NEW j \in DOMAIN list, j > i
        PROVE  collected[list[j]].strategies = 1
    <3>1. list[j] \in DOMAIN collected /\ collected[list[j]] \in Result
      BY <1>3, <1>6
    <3>2. collected[list[i]].score >= collected[list[j]].score
      BY <1>1, <1>3, <2>3
    <3>3. list[j] \notin Both
      BY <2>1, <2>2, <3>1, <3>2 DEF Result
    <3> QED  BY <3>1, <3>3 DEF Both, Result
  <2>4. Both \subseteq Range(list)
    <3>1. ASSUME NEW c \in Both, c \notin Range(list)
          PROVE  FALSE
      <4>1. collected[list[i]].score >= collected[c].score
        BY <1>1, <2>1, <3>1 DEF IsBest, Both
      <4> QED  BY <2>1, <2>2, <4>1 DEF Result
    <3> QED  BY <3>1
  <2>5. ~(Cardinality(Both) >= Limit)
    <3>1. /\ IsFiniteSet(Both) /\ Cardinality(Both) \in Nat
          /\ IsFiniteSet(Range(list)) /\ Cardinality(Range(list)) \in Nat
          /\ Cardinality(DOMAIN collected) \in Nat
      <4>1. Both \subseteq DOMAIN collected /\ Range(list) \subseteq DOMAIN collected
        BY <1>1 DEF Both, IsBest
      <4> QED  BY <1>2, <4>1, FS_Subset, FS_CardinalityType
    <3>2. list[i] \notin Both
      BY <1>7 DEF Both
    <3>3. /\ IsFiniteSet(Both \cup {list[i]})
          /\ Cardinality(Both \cup {list[i]}) = Cardinality(Both) + 1
      BY <3>1, <3>2, FS_AddElement
    <3>4. Cardinality(Both \cup {list[i]}) <= Cardinality(Range(list))
      <4>1. Both \cup {list[i]} \subseteq Range(list)
        BY <2>1, <2>4
      <4> QED  BY <3>1, <4>1, FS_Subset
    <3>5. Cardinality(Range(list)) <= Limit
      BY <1>1, <3>1, Numbers DEF IsBest, Smaller
    <3> QED  BY <3>1, <3>3, <3>4, <3>5, Numbers
  <2>6. agreed \subseteq Range(list)
    BY <2>4, <2>5 DEF SearchInv, AgreedAreThere
  <2> QED  BY <2>3, <2>6
<1>8. AgreementWins'
  BY <1>1, <1>7 DEF AgreementWins
<1> QED  BY <1>4, <1>5, <1>8 DEF SearchInv

LEMMA SearchStutterInv == SearchInv /\ UNCHANGED searchVars => SearchInv'
BY DEF SearchInv, searchVars, SearchTypeOK, ScoresTell, AgreedAreThere, AgreementWins, Both

LEMMA SearchInvariance == SearchSpec => []SearchInv
<1>1. SearchInv /\ [SearchNext]_searchVars => SearchInv'
  BY QueryInv, AnswerInv, SearchStutterInv DEF SearchNext
<1> QED  BY SearchInitInv, <1>1, PTL DEF SearchSpec

\* Every state of a search is well formed: what is collected are chunks of the file that was
\* indexed, with their scores.
THEOREM SearchTypeCorrect == SearchSpec => []SearchTypeOK
<1>1. SearchInv => SearchTypeOK
  BY DEF SearchInv
<1> QED  BY SearchInvariance, <1>1, PTL

\* Over all queries of a search, however many and in whatever order, no chunk that only one
\* strategy found comes before one that both found, and none is in the answer when such a
\* one is not: reciprocal_rank_fusion, the cuts of hybrid_search and the merge of retrieve.
THEOREM AgreementOutranks == SearchSpec => []AgreementWins
<1>1. SearchInv => AgreementWins
  BY DEF SearchInv
<1> QED  BY SearchInvariance, <1>1, PTL
-----------------------------------------------------------------------------
(* LineWindows.                                                            *)

\* Multiples of a step.
LEMMA Multiples ==
    ASSUME NEW step \in Nat \ {0}
    PROVE  /\ \A m \in Nat : m <= m * step /\ m * step \in Nat
           /\ \A m, n \in Nat : m <= n => m * step <= n * step
           /\ \A n \in Int : (n - 1) * step + step = n * step
OBVIOUS

\* What Windows are, without a choice.
AreWindows(w, first, last, size, step, count) ==
    /\ DOMAIN w = 1..count
    /\ \A n \in 1..count :
          /\ w[n].first = first + (n - 1) * step
          /\ w[n].last = IF n = count THEN last ELSE first + (n - 1) * step + size - 1
          /\ w[n].last <= last

\* There is a first window that reaches the end, and no other one does.
LEMMA WindowsFacts ==
    ASSUME NEW first \in Nat, NEW last \in Nat, first <= last,
           NEW size \in Nat \ {0}, NEW step \in 1..size
    PROVE  \E count \in Nat \ {0} :
              AreWindows(Windows(first, last, size, step), first, last, size, step, count)
<1> DEFINE R(n) == Reaches(first, last, size, step, n)
           all == {n \in 1..(last - first + 1) : R(n)}
           Is(n) == R(n) /\ \A m \in 1..(n - 1) : ~R(m)
           count == CHOOSE n \in 1..(last - first + 1) : Is(n)
           end(n) == IF R(n) THEN last ELSE first + (n - 1) * step + size - 1
           w == [n \in 1..count |-> [first |-> first + (n - 1) * step, last |-> end(n)]]
<1>1. last - first + 1 \in all
  <2>1. last - first \in Nat /\ last - first <= (last - first) * step
    BY Multiples
  <2> QED  BY <2>1 DEF Reaches
<1>2. PICK n \in all : \A m \in all : n <= m
  <2>1. all \subseteq Nat /\ all # {}
    BY <1>1
  <2> HIDE DEF all
  <2> QED  BY <2>1, Least
<1>3. \A m \in 1..(n - 1) : m \in 1..(last - first + 1) /\ m \notin all
  BY <1>2
<1>4. n \in 1..(last - first + 1) /\ Is(n)
  BY <1>2, <1>3
<1>5. count \in 1..(last - first + 1) /\ Is(count)
  <2> HIDE DEF Is
  <2> QED  BY <1>4
<1>6. Windows(first, last, size, step) = w
  BY DEF Windows
<1>7. count \in Nat \ {0} /\ \A i \in 1..count : R(i) <=> i = count
  <2> HIDE DEF R, count
  <2> QED  BY <1>5
<1>8. AreWindows(w, first, last, size, step, count)
  <2>1. ASSUME NEW i \in Nat, ~R(i)
        PROVE  first + (i - 1) * step + size - 1 <= last
    <3>1. (i - 1) * step \in Int
      OBVIOUS
    <3> QED  BY <2>1, <3>1 DEF Reaches
  <2> HIDE DEF R, count
  <2> QED  BY <1>7, <2>1 DEF AreWindows
<1> HIDE DEF w, count
<1> QED  BY <1>6, <1>7, <1>8

\* "Overlapping windows mean a construct sitting on a boundary still appears whole in one of
\* them" (chunk.py:411), wherever it begins, if it is at most one line longer than the
\* overlap (size - step): for any file and any sizes of window and overlap.
THEOREM ConstructsStayWhole ==
    ASSUME NEW first \in Nat, NEW last \in Nat, first <= last,
           NEW size \in Nat \ {0}, NEW step \in 1..size,
           NEW a \in first..last, NEW b \in a..last, b - a <= size - step
    PROVE  \E n \in DOMAIN Windows(first, last, size, step) :
              /\ Windows(first, last, size, step)[n].first <= a
              /\ b <= Windows(first, last, size, step)[n].last
<1> DEFINE w == Windows(first, last, size, step)
<1>1. PICK count \in Nat \ {0} : AreWindows(w, first, last, size, step, count)
  BY WindowsFacts
<1> HIDE DEF w
<1> DEFINE T == {n \in 1..count : n = count \/ first + n * step > a}
<1>2. PICK n \in T : \A m \in T : n <= m
  <2>1. count \in T /\ T \subseteq Nat
    OBVIOUS
  <2> HIDE DEF T
  <2> QED  BY <2>1, Least
<1>3. first + (n - 1) * step <= a
  <2>1. CASE n = 1
    BY <2>1, Multiples
  <2>2. CASE n # 1
    <3>1. n - 1 \in 1..count /\ n - 1 \notin T
      BY <1>2, <2>2
    <3>2. ~(first + (n - 1) * step > a)
      BY <1>2, <2>2, <3>1
    <3>3. (n - 1) * step \in Int
      OBVIOUS
    <3> QED  BY <3>2, <3>3
  <2> QED  BY <2>1, <2>2
<1>4. n # count => b <= first + (n - 1) * step + size - 1
  <2>1. (n - 1) * step + step = n * step /\ (n - 1) * step \in Int
    BY Multiples
  <2>2. n # count => first + n * step > a
    BY <1>2
  <2> QED  BY <2>1, <2>2
<1>5. n \in DOMAIN w /\ w[n].first <= a /\ b <= w[n].last
  <2>1. n \in 1..count
    OBVIOUS
  <2> HIDE DEF T
  <2> QED  BY <1>1, <1>3, <1>4, <2>1 DEF AreWindows
<1> QED  BY <1>5 DEF w

\* A declaration that is too large for a chunk is split with each of its lines in exactly one
\* of the parts, for any size of declaration and chunk (_split_oversized).
THEOREM PartsAreDisjoint ==
    ASSUME NEW first \in Nat, NEW last \in Nat, first <= last, NEW size \in Nat \ {0},
           NEW line \in first..last
    PROVE  \E n \in DOMAIN Windows(first, last, size, size) :
              LET w == Windows(first, last, size, size)
              IN  \A m \in DOMAIN w : (w[m].first <= line /\ line <= w[m].last) <=> m = n
<1> DEFINE w == Windows(first, last, size, size)
<1>0. size \in 1..size /\ line \in line..last /\ line - line <= size - size
  OBVIOUS
<1>1. PICK n \in DOMAIN w : w[n].first <= line /\ line <= w[n].last
  BY <1>0, ConstructsStayWhole
<1>2. PICK count \in Nat \ {0} : AreWindows(w, first, last, size, size, count)
  BY <1>0, WindowsFacts
<1> HIDE DEF w
<1>3. \A m \in 1..count : w[m].first \in Int /\ w[m].last \in Int
  <2> TAKE m \in 1..count
  <2>1. (m - 1) * size \in Int /\ size \in Int
    OBVIOUS
  <2>2. w[m].first = first + (m - 1) * size
    BY <1>2 DEF AreWindows
  <2>3. w[m].last = last \/ w[m].last = first + (m - 1) * size + size - 1
    BY <1>2 DEF AreWindows
  <2> QED  BY <2>1, <2>2, <2>3
<1>4. ASSUME NEW i \in 1..count, NEW j \in 1..count, i < j
      PROVE  w[i].last < w[j].first
  <2>1. i * size <= (j - 1) * size
    BY <1>4, Multiples
  <2>2. (i - 1) * size + size = i * size
    BY Multiples
  <2>3. (i - 1) * size \in Int /\ (j - 1) * size \in Int /\ i * size \in Int
    OBVIOUS
  <2>4. w[i].last = first + (i - 1) * size + size - 1
    BY <1>2, <1>4 DEF AreWindows
  <2>5. w[j].first = first + (j - 1) * size
    BY <1>2 DEF AreWindows
  <2> QED  BY <2>1, <2>2, <2>3, <2>4, <2>5
<1>5. ASSUME NEW m \in DOMAIN w, w[m].first <= line, line <= w[m].last
      PROVE  m = n
  <2>1. m \in 1..count /\ n \in 1..count
    BY <1>1, <1>2 DEF AreWindows
  <2>2. ~(m < n)
    BY <1>1, <1>3, <1>4, <1>5, <2>1
  <2>3. ~(n < m)
    BY <1>1, <1>3, <1>4, <1>5, <2>1
  <2> QED  BY <2>1, <2>2, <2>3
<1> QED  BY <1>1, <1>5 DEF w

-----------------------------------------------------------------------------
(* Chunking: what is made of a declaration.                                *)

\* What is made of a node: chunks from its lines, each of which is in one of them.
AreChunks(made, f, path, symbol, parent) ==
    /\ made # {}
    /\ \A c \in made :
          /\ c.node = path /\ c.symbol = symbol /\ c.parent = parent
          /\ f.tree[path].first <= c.first /\ c.last <= f.tree[path].last
    /\ \A line \in f.tree[path].first..f.tree[path].last \cap Text(f) : \E c \in made :
          \A d \in made : (d.first <= line /\ line <= d.last) <=> d = c

LEMMA ChunksOfNode ==
    ASSUME NEW f, IsFile(f), f.parsed, NEW path \in DOMAIN f.tree, f.tree[path].kind # "plain",
           NEW symbol, NEW parent
    PROVE  AreChunks(MakeChunk(f, path, symbol, parent), f, path, symbol, parent)
<1> DEFINE made == MakeChunk(f, path, symbol, parent)
           node == f.tree[path]
           w == Windows(node.first, node.last, MAX_CHUNK_LINES, MAX_CHUNK_LINES)
<1> SUFFICES AreChunks(made, f, path, symbol, parent)
  OBVIOUS
<1>1. /\ node.first \in Nat /\ node.last \in Nat /\ node.first <= node.last
      /\ node.first \in node.first..node.last \cap Text(f)
  BY DEF IsFile, Lines
<1>2. MAX_CHUNK_LINES \in Nat \ {0} /\ MAX_CHUNK_LINES \in 1..MAX_CHUNK_LINES
  BY ChunkingAssumption
<1>3. CASE node.last - node.first + 1 <= MAX_CHUNK_LINES
  <2>1. made = {Chunk(path, symbol, parent, node.first, node.last)}
    BY <1>3 DEF MakeChunk
  <2> HIDE DEF made
  <2> QED  BY <1>1, <2>1 DEF Chunk, AreChunks
<1>4. CASE ~(node.last - node.first + 1 <= MAX_CHUNK_LINES)
  <2>1. made = Pieces(f, path, w, symbol, parent)
    BY <1>4 DEF MakeChunk
  <2>2. PICK count \in Nat \ {0} :
          AreWindows(w, node.first, node.last, MAX_CHUNK_LINES, MAX_CHUNK_LINES, count)
    BY <1>1, <1>2, WindowsFacts
  <2>3. ASSUME NEW line \in node.first..node.last
        PROVE  \E n \in DOMAIN w : \A m \in DOMAIN w :
                  (w[m].first <= line /\ line <= w[m].last) <=> m = n
    BY <1>1, <1>2, PartsAreDisjoint
  <2> HIDE DEF made, w
  <2>4. DOMAIN w = 1..count
    BY <2>2 DEF AreWindows
  <2>5. ASSUME NEW n \in DOMAIN w
        PROVE  node.first <= w[n].first /\ w[n].last <= node.last
    <3>1. (n - 1) * MAX_CHUNK_LINES \in Nat
      BY <1>2, <2>4
    <3> QED  BY <1>1, <2>2, <2>4, <3>1 DEF AreWindows
  <2>6. ASSUME NEW c \in made
        PROVE  \E n \in DOMAIN w : c = Chunk(path, symbol, parent, w[n].first, w[n].last)
    BY <2>1 DEF Pieces, Range
  <2>7. ASSUME NEW line \in node.first..node.last \cap Text(f)
        PROVE  \E c \in made : \A d \in made : (d.first <= line /\ line <= d.last) <=> d = c
    <3>1. PICK n \in DOMAIN w : \A m \in DOMAIN w :
                  (w[m].first <= line /\ line <= w[m].last) <=> m = n
      BY <2>3
    <3>2. w[n].first <= line /\ line <= w[n].last
      BY <3>1
    <3> DEFINE c == Chunk(path, symbol, parent, w[n].first, w[n].last)
    <3>3. line \in w[n].first..w[n].last \cap Text(f)
      <4>1. w[n].first \in Int /\ w[n].last \in Int
        <5>1. (n - 1) * MAX_CHUNK_LINES \in Int /\ n \in 1..count
          BY <1>2, <2>4
        <5>2. w[n].first = node.first + (n - 1) * MAX_CHUNK_LINES
          BY <2>2, <5>1 DEF AreWindows
        <5>3. \/ w[n].last = node.last
              \/ w[n].last = node.first + (n - 1) * MAX_CHUNK_LINES + MAX_CHUNK_LINES - 1
          BY <2>2, <5>1 DEF AreWindows
        <5> QED  BY <1>1, <1>2, <5>1, <5>2, <5>3
      <4> QED  BY <3>2, <4>1
    <3>4. c \in made
      BY <2>1, <3>3 DEF Pieces, Range
    <3>5. ASSUME NEW d \in made, d.first <= line, line <= d.last
          PROVE  d = c
      <4>1. PICK m \in DOMAIN w : d = Chunk(path, symbol, parent, w[m].first, w[m].last)
        BY <2>6
      <4>2. m = n
        BY <3>1, <3>5, <4>1 DEF Chunk
      <4> QED  BY <4>1, <4>2
    <3>6. c.first <= line /\ line <= c.last
      BY <3>2 DEF Chunk
    <3> HIDE DEF c
    <3> QED  BY <3>4, <3>5, <3>6
  <2>8. ASSUME NEW c \in made
        PROVE  /\ c.node = path /\ c.symbol = symbol /\ c.parent = parent
               /\ node.first <= c.first /\ c.last <= node.last
    BY <2>5, <2>6 DEF Chunk
  <2>9. made # {}
    BY <1>1, <2>7
  <2> QED  BY <2>7, <2>8, <2>9 DEF AreChunks
<1> QED  BY <1>3, <1>4

\* What is in a window of a file without a parser is in its chunks.
LEMMA FallbackHoldsConstructs ==
    ASSUME NEW f, IsFile(f)
    PROVE  Text(f) # {} => ConstructsAreWhole(f, FallbackWindows(f))
<1> SUFFICES ASSUME NEW first \in Text(f), NEW last \in Lines(f),
                    first <= last, last - first <= FALLBACK_OVERLAP_LINES
             PROVE  \E c \in FallbackWindows(f) : c.first <= first /\ last <= c.last
  BY DEF ConstructsAreWhole
<1> DEFINE size == FALLBACK_WINDOW_LINES
           step == FALLBACK_WINDOW_LINES - FALLBACK_OVERLAP_LINES
           w == Windows(1, f.lines, size, step)
<1>1. /\ size \in Nat \ {0} /\ step \in 1..size
      /\ first \in 1..f.lines /\ last \in first..f.lines /\ last - first <= size - step
      /\ 1 \in Nat /\ f.lines \in Nat /\ 1 <= f.lines
  BY ChunkingAssumption DEF IsFile, Text, Lines
<1>2. PICK n \in DOMAIN w : w[n].first <= first /\ last <= w[n].last
  <2> HIDE DEF size, step
  <2> QED  BY <1>1, ConstructsStayWhole
<1>3. w[n].first \in Int /\ w[n].last \in Int
  <2> HIDE DEF size, step
  <2>1. PICK count \in Nat \ {0} : AreWindows(w, 1, f.lines, size, step, count)
    BY <1>1, WindowsFacts
  <2> HIDE DEF w
  <2>2. n \in 1..count
    BY <2>1 DEF AreWindows
  <2>3. (n - 1) * step \in Int
    BY <1>1, <2>2
  <2>4. w[n].first = 1 + (n - 1) * step
    BY <2>1, <2>2 DEF AreWindows
  <2>5. w[n].last = f.lines \/ w[n].last = 1 + (n - 1) * step + size - 1
    BY <2>1, <2>2 DEF AreWindows
  <2> QED  BY <1>1, <2>3, <2>4, <2>5
<1> HIDE DEF w
<1>4. first \in w[n].first..w[n].last \cap Text(f)
  BY <1>1, <1>2, <1>3
<1>5. Chunk(<<>>, Unnamed, Unnamed, w[n].first, w[n].last) \in FallbackWindows(f)
  BY <1>4 DEF FallbackWindows, Pieces, Range, w
<1> QED  BY <1>2, <1>5 DEF Chunk

-----------------------------------------------------------------------------
(* Chunking: the walk as a function of its levels.                         *)

\* The first n levels of the walk.
IsWalk(f, g, n) ==
    /\ DOMAIN g = 0..n
    /\ \A m \in 0..n : g[m] = IF m = 0 THEN Nothing(f) ELSE Level(f, g[m - 1])

LEMMA WalkIsUnique ==
    ASSUME NEW f, NEW n \in Nat, NEW m \in n..n + 1, NEW g, NEW h, IsWalk(f, g, n), IsWalk(f, h, m)
    PROVE  \A k \in 0..n : g[k] = h[k]
<1> DEFINE T == {k \in 0..n : g[k] # h[k]}
<1> SUFFICES ASSUME T # {} PROVE FALSE
  OBVIOUS
<1>1. PICK k \in T : \A j \in T : k <= j
  <2>1. T \subseteq Nat
    OBVIOUS
  <2> HIDE DEF T
  <2> QED  BY <2>1, Least
<1>2. k # 0 => k - 1 \in 0..n /\ g[k - 1] = h[k - 1]
  BY <1>1
<1>3. k \in 0..n /\ k \in 0..m /\ g[k] # h[k]
  OBVIOUS
<1> HIDE DEF T
<1> QED  BY <1>2, <1>3 DEF IsWalk

LEMMA WalkExists ==
    ASSUME NEW f, NEW n \in Nat
    PROVE  \E g : IsWalk(f, g, n)
<1> DEFINE T == {m \in Nat : ~\E g : IsWalk(f, g, m)}
<1> SUFFICES ASSUME T # {} PROVE FALSE
  OBVIOUS
<1>1. PICK m \in T : \A j \in T : m <= j
  <2>1. T \subseteq Nat
    OBVIOUS
  <2> HIDE DEF T
  <2> QED  BY <2>1, Least
<1>2. CASE m = 0
  <2> DEFINE g == [k \in 0..0 |-> Nothing(f)]
  <2>1. IsWalk(f, g, 0)
    BY DEF IsWalk
  <2> QED  BY <1>1, <1>2, <2>1
<1>3. CASE m # 0
  <2>1. m - 1 \in Nat /\ m - 1 \notin T
    BY <1>1, <1>3
  <2>2. PICK h : IsWalk(f, h, m - 1)
    BY <2>1
  <2> DEFINE g == [k \in 0..m |-> IF k = m THEN Level(f, h[m - 1]) ELSE h[k]]
  <2>3. IsWalk(f, g, m)
    BY <1>3, <2>1, <2>2, SMTT(30) DEF IsWalk
  <2> QED  BY <1>1, <2>3
<1> QED  BY <1>2, <1>3

\* There is a function that satisfies the equation of the walk, so that is what Walk is.
LEMMA WalkIs ==
    ASSUME NEW f
    PROVE  /\ Walk(f)[0] = Nothing(f)
           /\ \A n \in Nat \ {0} : Walk(f)[n] = Level(f, Walk(f)[n - 1])
<1> DEFINE first(n) == CHOOSE g : IsWalk(f, g, n)
           g == [n \in Nat |-> first(n)[n]]
           IsIt(h) == h = [n \in Nat |-> IF n = 0 THEN Nothing(f) ELSE Level(f, h[n - 1])]
<1>1. \A n \in Nat : IsWalk(f, first(n), n)
  BY WalkExists
<1> HIDE DEF first
<1>2. ASSUME NEW n \in Nat
      PROVE  g[n] = IF n = 0 THEN Nothing(f) ELSE Level(f, g[n - 1])
  <2>1. g[n] = first(n)[n] /\ (n # 0 => g[n - 1] = first(n - 1)[n - 1])
    OBVIOUS
  <2>2. n # 0 => first(n - 1)[n - 1] = first(n)[n - 1]
    <3> SUFFICES ASSUME n # 0 PROVE first(n - 1)[n - 1] = first(n)[n - 1]
      OBVIOUS
    <3>1. n - 1 \in Nat /\ n \in (n - 1)..(n - 1) + 1 /\ n - 1 \in 0..n - 1
      OBVIOUS
    <3> QED  BY <1>1, <3>1, WalkIsUnique
  <2>3. first(n)[n] = IF n = 0 THEN Nothing(f) ELSE Level(f, first(n)[n - 1])
    BY <1>1 DEF IsWalk
  <2> HIDE DEF g
  <2> QED  BY <2>1, <2>2, <2>3
<1>3. IsIt(g)
  BY <1>2
<1>4. IsIt(Walk(f))
  <2> HIDE DEF g
  <2> QED  BY <1>3 DEF Walk
<1> QED  BY <1>4

-----------------------------------------------------------------------------
(* Chunking: nodes below a node.                                           *)

\* Nodes on the way of a path, and paths of paths.
LEMMA PathFacts ==
    ASSUME NEW f, IsFile(f), f.parsed, NEW p \in DOMAIN f.tree
    PROVE  /\ p \in Seq(Nat) /\ Len(p) \in Nat /\ Up(p, Len(p)) = p
           /\ \A n \in 0..Len(p) :
                 /\ Up(p, n) \in DOMAIN f.tree /\ Len(Up(p, n)) = n
                 /\ \A m \in 0..n : Up(Up(p, n), m) = Up(p, m)
<1>1. p \in Seq(Nat) /\ Len(p) \in Nat
  BY DEF IsFile
<1>2. Up(p, Len(p)) = p
  BY <1>1 DEF Up
<1>3. ASSUME NEW n \in 0..Len(p)
      PROVE  /\ Up(p, n) \in DOMAIN f.tree /\ Len(Up(p, n)) = n
             /\ \A m \in 0..n : Up(Up(p, n), m) = Up(p, m)
  <2>1. Up(p, n) \in DOMAIN f.tree
    BY DEF IsFile
  <2>2. Len(Up(p, n)) = n
    BY <1>1 DEF Up
  <2>3. ASSUME NEW m \in 0..n
        PROVE  Up(Up(p, n), m) = Up(p, m)
    BY <1>1 DEF Up
  <2> QED  BY <2>1, <2>2, <2>3
<1> QED  BY <1>1, <1>2, <1>3

LEMMA ChildIsBelow ==
    ASSUME NEW f, IsFile(f), f.parsed, NEW a \in DOMAIN f.tree, NEW c \in Children(f.tree, a)
    PROVE  c \in DOMAIN f.tree /\ Len(c) = Len(a) + 1 /\ Up(c, Len(a)) = a /\ Front(c) = a
<1>1. c \in DOMAIN f.tree /\ c # <<>> /\ Front(c) = a
  BY DEF Children
<1>2. c \in Seq(Nat) /\ Len(c) \in Nat /\ Len(c) # 0
  BY <1>1 DEF IsFile
<1>3. Up(c, Len(c) - 1) = a
  BY <1>1 DEF Front, Up
<1>4. Len(a) = Len(c) - 1
  BY <1>1, <1>2, <1>3, PathFacts
<1> QED  BY <1>1, <1>2, <1>3, <1>4

LEMMA BelowIsChild ==
    ASSUME NEW f, IsFile(f), f.parsed, NEW a \in DOMAIN f.tree, NEW p \in Below(f.tree, a)
    PROVE  Up(p, Len(a) + 1) \in Children(f.tree, a)
<1>1. p \in DOMAIN f.tree /\ Len(a) < Len(p) /\ Up(p, Len(a)) = a
  BY DEF Below
<1>2. /\ Len(a) \in Nat /\ Len(p) \in Nat
      /\ \A n \in 0..Len(p) :
            /\ Up(p, n) \in DOMAIN f.tree /\ Len(Up(p, n)) = n
            /\ \A m \in 0..n : Up(Up(p, n), m) = Up(p, m)
  BY <1>1, PathFacts
<1> DEFINE c == Up(p, Len(a) + 1)
<1>3. c \in DOMAIN f.tree /\ Len(c) = Len(a) + 1 /\ Up(c, Len(a)) = a
  BY <1>1, <1>2
<1> HIDE DEF c
<1>4. c # <<>>
  BY <1>2, <1>3
<1>5. Front(c) = a
  BY <1>2, <1>3 DEF Front, Up
<1> QED  BY <1>3, <1>4, <1>5 DEF Children, c

\* A node or one below it.
Via(f, c) == {c} \cup Below(f.tree, c)

LEMMA ViaIs ==
    ASSUME NEW f, IsFile(f), f.parsed, NEW a \in DOMAIN f.tree, NEW c \in Children(f.tree, a),
           NEW p \in Via(f, c)
    PROVE  /\ p \in DOMAIN f.tree /\ p \in Below(f.tree, a)
           /\ Len(a) \in Nat /\ Len(c) = Len(a) + 1 /\ Len(p) \in Nat
           /\ Len(c) <= Len(p) /\ Up(p, Len(c)) = c
           /\ p # c => p \in Below(f.tree, c)
<1>1. c \in DOMAIN f.tree /\ Len(c) = Len(a) + 1 /\ Up(c, Len(a)) = a
  BY ChildIsBelow
<1>2. Len(a) \in Nat /\ Len(c) \in Nat /\ Up(c, Len(c)) = c
  BY <1>1, PathFacts
<1>3. p \in DOMAIN f.tree /\ Len(c) <= Len(p) /\ Up(p, Len(c)) = c
  BY <1>1, <1>2 DEF Via, Below
<1>4. Len(p) \in Nat /\ Up(p, Len(a)) = a
  <2>1. Len(p) \in Nat /\ Up(Up(p, Len(c)), Len(a)) = Up(p, Len(a))
    BY <1>1, <1>2, <1>3, PathFacts
  <2> QED  BY <1>1, <1>3, <2>1
<1> QED  BY <1>1, <1>2, <1>3, <1>4 DEF Via, Below

\* A wrapper wraps one declaration.
LEMMA OneIsInner ==
    ASSUME NEW f, IsFile(f), f.parsed, NEW a \in DOMAIN f.tree,
           NEW p \in InnerDeclarations(f.tree, a), NEW q \in InnerDeclarations(f.tree, a)
    PROVE  p = q
<1>1. /\ p \in Children(f.tree, a) /\ q \in Children(f.tree, a)
      /\ Last(p) <= Last(q) /\ Last(q) <= Last(p)
  BY DEF InnerDeclarations
<1>2. /\ p \in DOMAIN f.tree /\ Len(p) = Len(a) + 1 /\ Up(p, Len(a)) = a
      /\ q \in DOMAIN f.tree /\ Len(q) = Len(a) + 1 /\ Up(q, Len(a)) = a
  BY <1>1, ChildIsBelow
<1>3. p \in Seq(Nat) /\ q \in Seq(Nat) /\ Len(a) \in Nat
  BY <1>2, PathFacts
<1>4. Last(p) \in Nat /\ Last(q) \in Nat
  BY <1>2, <1>3 DEF Last
<1>5. p[Len(p)] = q[Len(p)]
  BY <1>1, <1>2, <1>4 DEF Last
<1>6. \A i \in 1..Len(a) : p[i] = q[i]
  <2> TAKE i \in 1..Len(a)
  <2>1. SubSeq(p, 1, Len(a))[i] = p[i] /\ SubSeq(q, 1, Len(a))[i] = q[i]
    BY <1>2, <1>3
  <2> QED  BY <1>2, <2>1 DEF Up
<1>7. \A i \in 1..Len(p) : p[i] = q[i]
  BY <1>2, <1>3, <1>5, <1>6
<1> QED  BY <1>2, <1>3, <1>7

-----------------------------------------------------------------------------
(* Chunking: what a walk of n levels from a node reaches.                  *)

Between(a, p) == Len(a) + 1..Len(p) - 1

\* The walk goes on from the node on level n of a path to the next.
Passes(f, p, n) ==
    LET node == f.tree[Up(p, n)]
    IN  /\ node.kind # "leaf"
        /\ node.kind = "wrapper" => Up(p, n + 1) \in InnerDeclarations(f.tree, Up(p, n))

\* The nodes on the way that take a level of the walk.
Levels(f, a, p) == {n \in Between(a, p) : f.tree[Up(p, n)].kind # "wrapper"}

Seen(f, a, n) ==
    {p \in Below(f.tree, a) :
        Cardinality(Levels(f, a, p)) < n /\ \A m \in Between(a, p) : Passes(f, p, m)}

Declared(f, a, n) == {p \in Seen(f, a, n) : f.tree[p].kind \in {"leaf", "container"}}

\* The declarations among them that are found on their own.
Own(f, a, n) ==
    {p \in Declared(f, a, n) :
        f.tree[p].kind = "container" => Below(f.tree, p) \cap Declared(f, a, n) = {}}

LEMMA SeenStep ==
    ASSUME NEW f, IsFile(f), f.parsed, NEW a \in DOMAIN f.tree, NEW c \in Children(f.tree, a),
           NEW p \in Via(f, c), NEW n \in Nat \ {0}
    PROVE  /\ p = c => p \in Seen(f, a, n)
           /\ p # c => (p \in Seen(f, a, n) <=>
                          /\ p \in Seen(f, c, IF f.tree[c].kind = "wrapper" THEN n ELSE n - 1)
                          /\ Passes(f, p, Len(c)))
<1>1. /\ p \in DOMAIN f.tree /\ p \in Below(f.tree, a)
      /\ Len(a) \in Nat /\ Len(c) = Len(a) + 1 /\ Len(p) \in Nat
      /\ Len(c) <= Len(p) /\ Up(p, Len(c)) = c
      /\ p # c => p \in Below(f.tree, c)
  BY ViaIs
<1>2. CASE p = c
  <2>1. Between(a, p) = {}
    BY <1>1, <1>2 DEF Between
  <2>2. Cardinality(Levels(f, a, p)) = 0
    <3>1. Levels(f, a, p) = {}
      BY <2>1 DEF Levels
    <3> QED  BY <3>1, FS_EmptySet
  <2> QED  BY <1>1, <1>2, <2>1, <2>2 DEF Seen
<1>3. CASE p # c
  <2>1. Len(c) < Len(p) /\ p \in Below(f.tree, c)
    BY <1>1, <1>3 DEF Below
  <2>2. Between(a, p) = {Len(c)} \cup Between(c, p) /\ Len(c) \notin Between(c, p)
    BY <1>1, <2>1 DEF Between
  <2>3. IsFiniteSet(Levels(f, c, p))
    <3>1. IsFiniteSet(Between(c, p))
      BY <1>1, FS_Interval DEF Between
    <3> QED  BY <3>1, FS_Subset DEF Levels
  <2>4. Cardinality(Levels(f, c, p)) \in Nat
    BY <2>3, FS_CardinalityType
  <2>5. Cardinality(Levels(f, a, p)) =
          IF f.tree[c].kind = "wrapper" THEN Cardinality(Levels(f, c, p))
          ELSE Cardinality(Levels(f, c, p)) + 1
    <3>1. CASE f.tree[c].kind = "wrapper"
      <4>1. Levels(f, a, p) = Levels(f, c, p)
        BY <1>1, <2>2, <3>1 DEF Levels
      <4> QED  BY <3>1, <4>1
    <3>2. CASE f.tree[c].kind # "wrapper"
      <4>1. Levels(f, a, p) = Levels(f, c, p) \cup {Len(c)} /\ Len(c) \notin Levels(f, c, p)
        BY <1>1, <2>2, <3>2 DEF Levels
      <4> QED  BY <2>3, <3>2, <4>1, FS_AddElement
    <3> QED  BY <3>1, <3>2
  <2>6. Cardinality(Levels(f, a, p)) < n <=>
          Cardinality(Levels(f, c, p)) < IF f.tree[c].kind = "wrapper" THEN n ELSE n - 1
    BY <2>4, <2>5
  <2>7. (\A m \in Between(a, p) : Passes(f, p, m)) <=>
          (\A m \in Between(c, p) : Passes(f, p, m)) /\ Passes(f, p, Len(c))
    BY <2>2
  <2> QED  BY <1>1, <1>3, <2>1, <2>6, <2>7 DEF Seen
<1> QED  BY <1>2, <1>3

\* The name around p for a walk from a under the name `parent`.
Around(f, a, parent, p) ==
    LET named == {n \in Between(a, p) : /\ f.tree[Up(p, n)].kind = "container"
                                        /\ f.tree[Up(p, n)].name # Unnamed}
        innermost == {n \in named : \A m \in named : m <= n}
    IN  IF named = {} THEN parent ELSE f.tree[Up(p, CHOOSE n \in innermost : TRUE)].name

LEMMA AroundStep ==
    ASSUME NEW f, IsFile(f), f.parsed, NEW a \in DOMAIN f.tree, NEW c \in Children(f.tree, a),
           NEW p \in Via(f, c), NEW parent
    PROVE  /\ p = c => Around(f, a, parent, p) = parent
           /\ p # c => Around(f, a, parent, p) =
                Around(f, c, IF f.tree[c].kind = "container" THEN Scope(f.tree[c].name, parent)
                             ELSE parent, p)
<1>1. /\ Len(a) \in Nat /\ Len(c) = Len(a) + 1 /\ Len(p) \in Nat
      /\ Len(c) <= Len(p) /\ Up(p, Len(c)) = c
      /\ p # c => p \in Below(f.tree, c)
  BY ViaIs
<1>2. CASE p = c
  <2>1. Between(a, p) = {}
    BY <1>1, <1>2 DEF Between
  <2> QED  BY <1>2, <2>1 DEF Around
<1>3. CASE p # c
  <2> DEFINE Is(n) == f.tree[Up(p, n)].kind = "container" /\ f.tree[Up(p, n)].name # Unnamed
             named(x) == {n \in Between(x, p) : Is(n)}
             innermost(x) == {n \in named(x) : \A m \in named(x) : m <= n}
             scope == IF f.tree[c].kind = "container" THEN Scope(f.tree[c].name, parent) ELSE parent
  <2>1. Len(c) < Len(p)
    BY <1>1, <1>3 DEF Below
  <2>2. Between(a, p) = {Len(c)} \cup Between(c, p) /\ \A n \in Between(c, p) : Len(c) < n /\ n \in Int
    BY <1>1, <2>1 DEF Between
  <2>3. Is(Len(c)) <=> f.tree[c].kind = "container" /\ f.tree[c].name # Unnamed
    BY <1>1
  <2>4. /\ Around(f, a, parent, p) =
             IF named(a) = {} THEN parent ELSE f.tree[Up(p, CHOOSE n \in innermost(a) : TRUE)].name
        /\ Around(f, c, scope, p) =
             IF named(c) = {} THEN scope ELSE f.tree[Up(p, CHOOSE n \in innermost(c) : TRUE)].name
    BY DEF Around
  <2>5. CASE named(c) # {}
    <3>1. innermost(a) = innermost(c)
      <4> HIDE DEF Is
      <4>1. named(a) = named(c) \cup (IF Is(Len(c)) THEN {Len(c)} ELSE {})
        BY <2>2
      <4>2. \A n \in named(c) : Len(c) < n /\ n \in Int
        BY <2>2
      <4>3. Len(c) \in Int
        BY <1>1
      <4> HIDE DEF named
      <4> QED  BY <2>5, <4>1, <4>2, <4>3
    <3>2. named(a) # {}
      BY <2>2, <2>5
    <3> HIDE DEF innermost, named
    <3> QED  BY <1>3, <2>4, <2>5, <3>1, <3>2 DEF scope
  <2>6. CASE named(c) = {} /\ Is(Len(c))
    <3>1. named(a) = {Len(c)}
      <4> HIDE DEF Is
      <4> QED  BY <2>2, <2>6
    <3>2. innermost(a) = {Len(c)}
      <4>1. Len(c) <= Len(c)
        BY <1>1
      <4> HIDE DEF named
      <4> QED  BY <3>1, <4>1
    <3>3. (CHOOSE n \in innermost(a) : TRUE) = Len(c)
      <4> HIDE DEF innermost
      <4> QED  BY <3>2
    <3>4. scope = f.tree[c].name
      BY <2>3, <2>6 DEF Scope
    <3> HIDE DEF innermost, named, Is
    <3> QED  BY <1>1, <1>3, <2>4, <2>6, <3>1, <3>3, <3>4
  <2>7. CASE named(c) = {} /\ ~Is(Len(c))
    <3>1. named(a) = {}
      <4> HIDE DEF Is
      <4> QED  BY <2>2, <2>7
    <3>2. scope = parent
      BY <2>3, <2>7 DEF Scope
    <3> HIDE DEF innermost, named, Is
    <3> QED  BY <1>3, <2>4, <2>7, <3>1, <3>2
  <2> QED  BY <2>5, <2>6, <2>7
<1> QED  BY <1>2, <1>3

-----------------------------------------------------------------------------
(* Chunking: what a walk emits.                                            *)

LEMMA BelowBelow ==
    ASSUME NEW f, IsFile(f), f.parsed, NEW a \in DOMAIN f.tree,
           NEW p \in Below(f.tree, a), NEW q \in Below(f.tree, p)
    PROVE  q \in Below(f.tree, a)
<1>1. /\ p \in DOMAIN f.tree /\ Len(a) < Len(p) /\ Up(p, Len(a)) = a
      /\ q \in DOMAIN f.tree /\ Len(p) < Len(q) /\ Up(q, Len(p)) = p
  BY DEF Below
<1>2. Len(a) \in Nat /\ Len(p) \in Nat /\ Len(q) \in Nat
  BY <1>1, PathFacts
<1>3. Len(p) \in 0..Len(q) /\ Len(a) \in 0..Len(p) /\ Len(a) < Len(q)
  BY <1>1, <1>2
<1>4. \A n \in 0..Len(q) : \A m \in 0..n : Up(Up(q, n), m) = Up(q, m)
  BY <1>1, PathFacts
<1>5. Up(Up(q, Len(p)), Len(a)) = Up(q, Len(a))
  BY <1>3, <1>4
<1>6. Up(q, Len(a)) = a
  BY <1>1, <1>5
<1> QED  BY <1>1, <1>3, <1>6 DEF Below

LEMMA NotBelowItself ==
    ASSUME NEW f, IsFile(f), f.parsed, NEW p \in DOMAIN f.tree
    PROVE  p \notin Below(f.tree, p)
BY PathFacts DEF Below

\* The chunks of a declaration that is found on its own.
Made(f, a, parent, p) ==
    MakeChunk(f, Outer(f.tree, p), f.tree[p].name, Around(f, a, parent, p))

\* What a walk from a emits for some nodes are the chunks of those found on their own, and it
\* emits nothing only if no declaration is among them.
Emits(emitted, f, a, parent, n, nodes) ==
    /\ emitted = UNION {Made(f, a, parent, p) : p \in Own(f, a, n) \cap nodes}
    /\ emitted = {} <=> Declared(f, a, n) \cap nodes = {}

WalkEmits(f, n) ==
    \A a \in DOMAIN f.tree, parent \in Names(f) :
       f.tree[a].kind # "wrapper" =>
          Emits(Walk(f)[n][a][parent], f, a, parent, n, Below(f.tree, a))

\* A container emits what is found in it, or itself.
LEMMA ContainerEmits ==
    ASSUME NEW f, IsFile(f), f.parsed, NEW a \in DOMAIN f.tree, NEW n \in Nat \ {0},
           WalkEmits(f, n - 1), NEW i \in DOMAIN f.tree, f.tree[i].kind = "container",
           NEW parent \in Names(f),
           Outer(f.tree, i) \in DOMAIN f.tree, f.tree[Outer(f.tree, i)].kind # "plain",
           Seen(f, a, n) \cap Via(f, i) = {i} \cup Seen(f, i, n - 1),
           Around(f, a, parent, i) = parent,
           \A p \in Below(f.tree, i) :
              Around(f, a, parent, p) = Around(f, i, Scope(f.tree[i].name, parent), p)
    PROVE  Emits(Container(f, Walk(f)[n - 1], i, Outer(f.tree, i), parent),
                 f, a, parent, n, Via(f, i))
<1> DEFINE name == f.tree[i].name
           inside == Walk(f)[n - 1][i][Scope(name, parent)]
           self == MakeChunk(f, Outer(f.tree, i), name, parent)
           emitted == Container(f, Walk(f)[n - 1], i, Outer(f.tree, i), parent)
<1> SUFFICES Emits(emitted, f, a, parent, n, Via(f, i))
  OBVIOUS
<1>1. emitted = IF inside = {} THEN self ELSE inside
  BY DEF Container
<1>2. Emits(inside, f, i, Scope(name, parent), n - 1, Below(f.tree, i))
  <2>1. Scope(name, parent) \in Names(f)
    BY DEF Scope, Names
  <2> QED  BY <2>1 DEF WalkEmits
<1>3. self # {}
  BY ChunksOfNode DEF AreChunks
<1> HIDE DEF emitted, inside, self
<1>4. Declared(f, i, n - 1) \subseteq Below(f.tree, i)
  BY DEF Declared, Seen
<1>5. Declared(f, a, n) \cap Via(f, i) = {i} \cup Declared(f, i, n - 1)
  BY DEF Declared
<1>6. i \notin Below(f.tree, i)
  BY NotBelowItself
<1>7. Declared(f, a, n) \cap Below(f.tree, i) = Declared(f, i, n - 1)
  BY <1>4, <1>5, <1>6 DEF Via
<1>8. Own(f, i, n - 1) \subseteq Below(f.tree, i)
  BY <1>4 DEF Own
<1>9. i \in Own(f, a, n) <=> Declared(f, i, n - 1) = {}
  BY <1>5, <1>7 DEF Own
<1>10. Own(f, a, n) \cap Below(f.tree, i) = Own(f, i, n - 1)
  <2>1. ASSUME NEW p \in Below(f.tree, i)
        PROVE  Below(f.tree, p) \cap Declared(f, a, n) = Below(f.tree, p) \cap Declared(f, i, n - 1)
    <3>1. Below(f.tree, p) \subseteq Below(f.tree, i)
      BY BelowBelow
    <3> QED  BY <1>7, <3>1
  <2> QED  BY <1>7, <1>8, <2>1 DEF Own
<1>11. CASE inside = {}
  <2>1. Declared(f, i, n - 1) = {}
    BY <1>2, <1>4, <1>11 DEF Emits
  <2>2. Own(f, a, n) \cap Via(f, i) = {i}
    <3>1. Own(f, i, n - 1) = {}
      BY <2>1 DEF Own
    <3> QED  BY <1>9, <1>10, <2>1, <3>1 DEF Via
  <2>3. Made(f, a, parent, i) = self
    BY DEF Made, self
  <2>4. UNION {Made(f, a, parent, p) : p \in Own(f, a, n) \cap Via(f, i)} = self
    BY <2>2, <2>3
  <2> QED  BY <1>1, <1>3, <1>5, <1>11, <2>4 DEF Emits
<1>12. CASE inside # {}
  <2>1. Declared(f, i, n - 1) # {}
    BY <1>2, <1>12 DEF Emits
  <2>2. Own(f, a, n) \cap Via(f, i) = Own(f, i, n - 1)
    BY <1>9, <1>10, <2>1 DEF Via
  <2>3. \A p \in Own(f, i, n - 1) : Made(f, a, parent, p) = Made(f, i, Scope(name, parent), p)
    BY <1>8 DEF Made
  <2>4. inside = UNION {Made(f, i, Scope(name, parent), p) : p \in Own(f, i, n - 1)}
    <3>1. Own(f, i, n - 1) \cap Below(f.tree, i) = Own(f, i, n - 1)
      BY <1>8
    <3> QED  BY <1>2, <3>1 DEF Emits
  <2>5. inside = UNION {Made(f, a, parent, p) : p \in Own(f, a, n) \cap Via(f, i)}
    BY <2>2, <2>3, <2>4
  <2> QED  BY <1>1, <1>5, <1>12, <2>5 DEF Emits
<1> QED  BY <1>11, <1>12

\* A declaration that is kept whole emits itself, if nothing below it is seen.
LEMMA LeafEmits ==
    ASSUME NEW f, IsFile(f), f.parsed, NEW a \in DOMAIN f.tree, NEW n \in Nat,
           NEW i \in DOMAIN f.tree, f.tree[i].kind = "leaf", NEW parent,
           Outer(f.tree, i) \in DOMAIN f.tree, f.tree[Outer(f.tree, i)].kind # "plain",
           Seen(f, a, n) \cap Via(f, i) = {i},
           Around(f, a, parent, i) = parent
    PROVE  Emits(MakeChunk(f, Outer(f.tree, i), f.tree[i].name, parent),
                 f, a, parent, n, Via(f, i))
<1> DEFINE self == MakeChunk(f, Outer(f.tree, i), f.tree[i].name, parent)
<1> SUFFICES Emits(self, f, a, parent, n, Via(f, i))
  OBVIOUS
<1>1. self # {}
  BY ChunksOfNode DEF AreChunks
<1>2. Declared(f, a, n) \cap Via(f, i) = {i} /\ Own(f, a, n) \cap Via(f, i) = {i}
  BY DEF Declared, Own
<1>3. Made(f, a, parent, i) = self
  BY DEF Made
<1> HIDE DEF self
<1> QED  BY <1>1, <1>2, <1>3 DEF Emits

\* What is seen below a child, by its kind.
LEMMA SeenVia ==
    ASSUME NEW f, IsFile(f), f.parsed, NEW a \in DOMAIN f.tree, NEW c \in Children(f.tree, a),
           NEW n \in Nat \ {0}
    PROVE  /\ f.tree[c].kind = "leaf" => Seen(f, a, n) \cap Via(f, c) = {c}
           /\ f.tree[c].kind \in {"plain", "container"} =>
                Seen(f, a, n) \cap Via(f, c) = {c} \cup Seen(f, c, n - 1)
           /\ f.tree[c].kind = "wrapper" =>
                \A p \in Below(f.tree, c) :
                   p \in Seen(f, a, n) <=>
                      /\ p \in Seen(f, c, n)
                      /\ Up(p, Len(c) + 1) \in InnerDeclarations(f.tree, c)
<1>1. c \in DOMAIN f.tree /\ c \in Via(f, c) /\ c \in Seen(f, a, n)
  <2>1. c \in DOMAIN f.tree /\ c \in Via(f, c)
    BY ChildIsBelow DEF Via
  <2> QED  BY <2>1, SeenStep
<1>2. ASSUME NEW p \in Below(f.tree, c)
      PROVE  /\ p \in Seen(f, a, n) <=>
                  /\ p \in Seen(f, c, IF f.tree[c].kind = "wrapper" THEN n ELSE n - 1)
                  /\ Passes(f, p, Len(c))
             /\ Up(p, Len(c)) = c
  <2>1. p \in Via(f, c) /\ p # c
    BY <1>1, NotBelowItself DEF Via
  <2> QED  BY <2>1, SeenStep, ViaIs
<1>3. CASE f.tree[c].kind = "leaf"
  <2>1. \A p \in Below(f.tree, c) : p \notin Seen(f, a, n)
    BY <1>2, <1>3 DEF Passes
  <2> QED  BY <1>1, <1>3, <2>1 DEF Via
<1>4. CASE f.tree[c].kind \in {"plain", "container"}
  <2>1. \A p \in Below(f.tree, c) : p \in Seen(f, a, n) <=> p \in Seen(f, c, n - 1)
    BY <1>2, <1>4 DEF Passes
  <2>2. Seen(f, c, n - 1) \subseteq Below(f.tree, c)
    BY DEF Seen
  <2> QED  BY <1>1, <1>4, <2>1, <2>2 DEF Via
<1>5. CASE f.tree[c].kind = "wrapper"
  BY <1>2, <1>5 DEF Passes
<1>6. f.tree[c].kind \in Kinds
  BY <1>1 DEF IsFile
<1> QED  BY <1>3, <1>4, <1>5

\* A wrapper emits what it wraps.
LEMMA WrapperSees ==
    ASSUME NEW f, IsFile(f), f.parsed, NEW a \in DOMAIN f.tree, NEW c \in Children(f.tree, a),
           f.tree[c].kind = "wrapper", NEW n \in Nat \ {0}
    PROVE  /\ InnerDeclarations(f.tree, c) = {} => Declared(f, a, n) \cap Via(f, c) = {}
           /\ \A i \in InnerDeclarations(f.tree, c) :
                 /\ Declared(f, a, n) \cap Via(f, c) = Declared(f, a, n) \cap Via(f, i)
                 /\ f.tree[i].kind = "leaf" => Seen(f, a, n) \cap Via(f, i) = {i}
                 /\ f.tree[i].kind = "container" =>
                       Seen(f, a, n) \cap Via(f, i) = {i} \cup Seen(f, i, n - 1)
<1>1. c \in DOMAIN f.tree
  BY ChildIsBelow
<1>2. \A p \in Below(f.tree, c) :
         p \in Seen(f, a, n) <=>
            p \in Seen(f, c, n) /\ Up(p, Len(c) + 1) \in InnerDeclarations(f.tree, c)
  BY SeenVia
<1>3. c \notin Declared(f, a, n)
  BY DEF Declared
<1>4. InnerDeclarations(f.tree, c) = {} => Declared(f, a, n) \cap Via(f, c) = {}
  BY <1>2, <1>3 DEF Declared, Via
<1>5. ASSUME NEW i \in InnerDeclarations(f.tree, c)
      PROVE  /\ Declared(f, a, n) \cap Via(f, c) = Declared(f, a, n) \cap Via(f, i)
             /\ f.tree[i].kind = "leaf" => Seen(f, a, n) \cap Via(f, i) = {i}
             /\ f.tree[i].kind = "container" =>
                   Seen(f, a, n) \cap Via(f, i) = {i} \cup Seen(f, i, n - 1)
  <2>1. i \in Children(f.tree, c)
    BY DEF InnerDeclarations
  <2>2. ASSUME NEW p \in Via(f, i)
        PROVE  /\ p \in Below(f.tree, c) /\ p \in Via(f, c)
               /\ Up(p, Len(c) + 1) = i
    <3>1. p \in Below(f.tree, c) /\ Len(i) = Len(c) + 1 /\ Up(p, Len(i)) = i
      BY <1>1, <2>1, ViaIs
    <3> QED  BY <3>1 DEF Via
  <2>3. Seen(f, a, n) \cap Via(f, i) = Seen(f, c, n) \cap Via(f, i)
    BY <1>2, <2>2
  <2>4. ASSUME NEW p \in Declared(f, a, n) \cap Via(f, c)
        PROVE  p \in Via(f, i)
    <3>1. p \in Below(f.tree, c) /\ p \in Seen(f, a, n)
      BY <1>3 DEF Declared, Via
    <3>2. Up(p, Len(c) + 1) = i
      BY <1>1, <1>2, <3>1, OneIsInner
    <3>3. p \in DOMAIN f.tree /\ Len(c) \in Nat /\ Len(p) \in Nat /\ Len(c) < Len(p)
      BY <1>1, <3>1, PathFacts DEF Below
    <3>4. Len(i) = Len(c) + 1
      BY <1>1, <2>1, ChildIsBelow
    <3>5. CASE Len(p) = Len(i)
      BY <3>2, <3>3, <3>4, <3>5, PathFacts DEF Via
    <3>6. CASE Len(i) < Len(p)
      BY <3>2, <3>3, <3>4, <3>6 DEF Via, Below
    <3> QED  BY <3>3, <3>4, <3>5, <3>6
  <2>5. Declared(f, a, n) \cap Via(f, c) = Declared(f, a, n) \cap Via(f, i)
    BY <2>2, <2>4
  <2>6. /\ f.tree[i].kind = "leaf" => Seen(f, c, n) \cap Via(f, i) = {i}
        /\ f.tree[i].kind = "container" =>
              Seen(f, c, n) \cap Via(f, i) = {i} \cup Seen(f, i, n - 1)
    BY <1>1, <2>1, SeenVia
  <2> QED  BY <2>3, <2>5, <2>6
<1> QED  BY <1>4, <1>5

\* The wrapper of what it wraps, and the name around that.
LEMMA Wrapped ==
    ASSUME NEW f, IsFile(f), f.parsed, NEW a \in DOMAIN f.tree, NEW c \in Children(f.tree, a),
           f.tree[c].kind = "wrapper", NEW i \in InnerDeclarations(f.tree, c), NEW parent
    PROVE  /\ i \in DOMAIN f.tree /\ f.tree[i].kind \in {"container", "leaf"}
           /\ Outer(f.tree, i) = c /\ c \in DOMAIN f.tree
           /\ Around(f, a, parent, i) = parent
           /\ f.tree[i].kind = "container" =>
                \A p \in Below(f.tree, i) :
                   Around(f, a, parent, p) = Around(f, i, Scope(f.tree[i].name, parent), p)
<1>1. c \in DOMAIN f.tree
  BY ChildIsBelow
<1>2. i \in Children(f.tree, c) /\ f.tree[i].kind \in {"container", "leaf"}
  BY DEF InnerDeclarations
<1>3. i \in DOMAIN f.tree /\ Front(i) = c
  BY <1>1, <1>2, ChildIsBelow
<1>4. Outer(f.tree, i) = c
  BY <1>3 DEF Outer
<1>5. ASSUME NEW p \in Via(f, i)
      PROVE  Around(f, a, parent, p) = Around(f, c, parent, p)
  <2>1. p \in Below(f.tree, c)
    BY <1>1, <1>2, ViaIs
  <2>2. p \in Via(f, c) /\ p # c
    BY <1>1, <2>1, NotBelowItself DEF Via
  <2> QED  BY <2>2, AroundStep
<1>6. Around(f, c, parent, i) = parent
  <2>1. i \in Via(f, i)
    BY DEF Via
  <2> QED  BY <1>1, <1>2, <2>1, AroundStep
<1>7. ASSUME f.tree[i].kind = "container", NEW p \in Below(f.tree, i)
      PROVE  Around(f, c, parent, p) = Around(f, i, Scope(f.tree[i].name, parent), p)
  <2>1. p \in Via(f, i) /\ p # i
    BY <1>3, NotBelowItself DEF Via
  <2> QED  BY <1>1, <1>2, <1>7, <2>1, AroundStep
<1> QED  BY <1>1, <1>2, <1>3, <1>4, <1>5, <1>6, <1>7 DEF Via

LEMMA VisitEmits ==
    ASSUME NEW f, IsFile(f), f.parsed, NEW a \in DOMAIN f.tree, f.tree[a].kind # "wrapper",
           NEW c \in Children(f.tree, a), NEW n \in Nat \ {0}, WalkEmits(f, n - 1),
           NEW parent \in Names(f)
    PROVE  Emits(Visit(f, Walk(f)[n - 1], c, parent), f, a, parent, n, Via(f, c))
<1> DEFINE deeper == Walk(f)[n - 1]
           wrapped == InnerDeclarations(f.tree, c)
           inner == CHOOSE p \in wrapped : TRUE
           emitted == Visit(f, deeper, c, parent)
<1> SUFFICES Emits(emitted, f, a, parent, n, Via(f, c))
  OBVIOUS
<1>1. c \in DOMAIN f.tree /\ Front(c) = a /\ c \in Via(f, c)
  BY ChildIsBelow DEF Via
<1>2. f.tree[c].kind \in {"wrapper", "container", "leaf", "plain"}
  BY <1>1 DEF IsFile, Kinds
<1>3. Outer(f.tree, c) = c
  BY <1>1 DEF Outer
<1>4. Around(f, a, parent, c) = parent
  BY <1>1, AroundStep
<1>5. ASSUME NEW p \in Below(f.tree, c)
      PROVE  Around(f, a, parent, p) =
               Around(f, c, IF f.tree[c].kind = "container" THEN Scope(f.tree[c].name, parent)
                            ELSE parent, p)
  <2>1. p \in Via(f, c) /\ p # c
    BY <1>1, NotBelowItself DEF Via
  <2> QED  BY <2>1, AroundStep
<1>6. CASE f.tree[c].kind = "leaf"
  <2>1. emitted = MakeChunk(f, Outer(f.tree, c), f.tree[c].name, parent)
    BY <1>3, <1>6 DEF Visit
  <2>2. Seen(f, a, n) \cap Via(f, c) = {c}
    BY <1>6, SeenVia
  <2> QED  BY <1>1, <1>3, <1>4, <1>6, <2>1, <2>2, LeafEmits
<1>7. CASE f.tree[c].kind = "container"
  <2>1. emitted = Container(f, deeper, c, Outer(f.tree, c), parent)
    BY <1>3, <1>7 DEF Visit
  <2>2. Seen(f, a, n) \cap Via(f, c) = {c} \cup Seen(f, c, n - 1)
    BY <1>7, SeenVia
  <2>3. \A p \in Below(f.tree, c) :
           Around(f, a, parent, p) = Around(f, c, Scope(f.tree[c].name, parent), p)
    BY <1>5, <1>7
  <2> HIDE DEF emitted
  <2> QED  BY <1>1, <1>3, <1>4, <1>7, <2>1, <2>2, <2>3, ContainerEmits
<1>8. CASE f.tree[c].kind = "plain"
  <2>1. emitted = deeper[c][parent]
    BY <1>8 DEF Visit
  <2>2. Emits(deeper[c][parent], f, c, parent, n - 1, Below(f.tree, c))
    BY <1>1, <1>8 DEF WalkEmits
  <2>3. Seen(f, a, n) \cap Via(f, c) = {c} \cup Seen(f, c, n - 1)
    BY <1>8, SeenVia
  <2>4. Declared(f, a, n) \cap Via(f, c) = Declared(f, c, n - 1)
    BY <1>8, <2>3 DEF Declared
  <2>5. Declared(f, c, n - 1) \subseteq Below(f.tree, c)
    BY DEF Declared, Seen
  <2>6. Own(f, a, n) \cap Via(f, c) = Own(f, c, n - 1)
    <3>1. ASSUME NEW p \in Below(f.tree, c)
          PROVE  Below(f.tree, p) \cap Declared(f, a, n) = Below(f.tree, p) \cap Declared(f, c, n - 1)
      <4>1. Below(f.tree, p) \subseteq Below(f.tree, c)
        BY <1>1, BelowBelow
      <4>2. Below(f.tree, p) \subseteq Via(f, c)
        BY <4>1 DEF Via
      <4> QED  BY <2>4, <4>2
    <3>2. Own(f, c, n - 1) \subseteq Below(f.tree, c)
      BY <2>5 DEF Own
    <3> QED  BY <2>4, <2>5, <3>1, <3>2 DEF Own
  <2>7. ASSUME NEW p \in Own(f, c, n - 1)
        PROVE  Made(f, a, parent, p) = Made(f, c, parent, p)
    <3>1. p \in Below(f.tree, c)
      BY <2>5 DEF Own
    <3> QED  BY <1>5, <1>8, <3>1 DEF Made
  <2>8. Own(f, c, n - 1) \cap Below(f.tree, c) = Own(f, c, n - 1)
    BY <2>5 DEF Own
  <2> HIDE DEF emitted, deeper
  <2>9. emitted = UNION {Made(f, c, parent, p) : p \in Own(f, c, n - 1)}
    BY <2>1, <2>2, <2>8 DEF Emits
  <2>10. emitted = UNION {Made(f, a, parent, p) : p \in Own(f, a, n) \cap Via(f, c)}
    BY <2>6, <2>7, <2>9
  <2>11. emitted = {} <=> Declared(f, a, n) \cap Via(f, c) = {}
    <3>1. Declared(f, c, n - 1) \cap Below(f.tree, c) = Declared(f, c, n - 1)
      BY <2>5
    <3> QED  BY <2>1, <2>2, <2>4, <3>1 DEF Emits
  <2> QED  BY <2>10, <2>11 DEF Emits
<1>9. CASE f.tree[c].kind = "wrapper" /\ wrapped = {}
  <2>1. emitted = {}
    BY <1>9 DEF Visit
  <2>2. Declared(f, a, n) \cap Via(f, c) = {}
    BY <1>9, WrapperSees
  <2>3. Own(f, a, n) \cap Via(f, c) = {}
    BY <2>2 DEF Own
  <2> HIDE DEF emitted
  <2>4. UNION {Made(f, a, parent, p) : p \in Own(f, a, n) \cap Via(f, c)} = {}
    BY <2>3
  <2> QED  BY <2>1, <2>2, <2>4 DEF Emits
<1>10. CASE f.tree[c].kind = "wrapper" /\ wrapped # {}
  <2>1. PICK i \in InnerDeclarations(f.tree, c) :
          emitted = IF f.tree[i].kind = "container" THEN Container(f, deeper, i, c, parent)
                    ELSE MakeChunk(f, c, f.tree[i].name, parent)
    <3>1. inner \in InnerDeclarations(f.tree, c)
      BY <1>10
    <3>2. emitted = IF f.tree[inner].kind = "container"
                    THEN Container(f, deeper, inner, c, parent)
                    ELSE MakeChunk(f, c, f.tree[inner].name, parent)
      BY <1>10 DEF Visit
    <3> HIDE DEF inner, emitted, deeper
    <3> QED  BY <3>1, <3>2
  <2> HIDE DEF emitted, deeper
  <2>2. /\ i \in DOMAIN f.tree /\ f.tree[i].kind \in {"container", "leaf"}
        /\ Outer(f.tree, i) = c
        /\ Around(f, a, parent, i) = parent
        /\ f.tree[i].kind = "container" =>
             \A p \in Below(f.tree, i) :
                Around(f, a, parent, p) = Around(f, i, Scope(f.tree[i].name, parent), p)
    BY <1>10, Wrapped, SMTT(30)
  <2>3. /\ Declared(f, a, n) \cap Via(f, c) = Declared(f, a, n) \cap Via(f, i)
        /\ f.tree[i].kind = "leaf" => Seen(f, a, n) \cap Via(f, i) = {i}
        /\ f.tree[i].kind = "container" =>
              Seen(f, a, n) \cap Via(f, i) = {i} \cup Seen(f, i, n - 1)
    BY <1>10, WrapperSees
  <2>4. Emits(emitted, f, a, parent, n, Via(f, i))
    <3>1. CASE f.tree[i].kind = "container"
      <4>1. emitted = Container(f, Walk(f)[n - 1], i, Outer(f.tree, i), parent)
        BY <2>1, <2>2, <3>1 DEF deeper
      <4> QED  BY <1>1, <1>10, <2>2, <2>3, <3>1, <4>1, ContainerEmits
    <3>2. CASE f.tree[i].kind = "leaf"
      <4>1. emitted = MakeChunk(f, Outer(f.tree, i), f.tree[i].name, parent)
        BY <2>1, <2>2, <3>2
      <4> QED  BY <1>1, <1>10, <2>2, <2>3, <3>2, <4>1, LeafEmits
    <3> QED  BY <2>2, <3>1, <3>2
  <2>5. Own(f, a, n) \cap Via(f, c) = Own(f, a, n) \cap Via(f, i)
    BY <2>3 DEF Own
  <2> QED  BY <2>3, <2>4, <2>5 DEF Emits
<1> QED  BY <1>2, <1>6, <1>7, <1>8, <1>9, <1>10

\* The walk with any number of levels left emits what it reaches.
LEMMA WalkEmitsAll ==
    ASSUME NEW f, IsFile(f), f.parsed, NEW n \in Nat
    PROVE  WalkEmits(f, n)
<1> DEFINE T == {m \in Nat : ~WalkEmits(f, m)}
<1> SUFFICES ASSUME T # {} PROVE FALSE
  OBVIOUS
<1>1. PICK m \in T : \A j \in T : m <= j
  <2>1. T \subseteq Nat
    OBVIOUS
  <2> HIDE DEF T
  <2> QED  BY <2>1, Least
<1>2. m \in Nat /\ ~WalkEmits(f, m) /\ (m # 0 => WalkEmits(f, m - 1))
  BY <1>1
<1> HIDE DEF T
<1>3. PICK a \in DOMAIN f.tree, parent \in Names(f) :
        /\ f.tree[a].kind # "wrapper"
        /\ ~Emits(Walk(f)[m][a][parent], f, a, parent, m, Below(f.tree, a))
  BY <1>2 DEF WalkEmits
<1> DEFINE emitted == Walk(f)[m][a][parent]
<1>4. Declared(f, a, m) \subseteq Below(f.tree, a) /\ Own(f, a, m) \subseteq Below(f.tree, a)
  BY DEF Declared, Own, Seen
<1>5. CASE m = 0
  <2>1. emitted = {}
    <3>1. Walk(f)[m] = Nothing(f)
      BY <1>5, WalkIs
    <3> QED  BY <1>3, <3>1 DEF Nothing
  <2>2. Seen(f, a, 0) = {}
    <3>1. ASSUME NEW p \in Seen(f, a, 0)
          PROVE  FALSE
      <4>1. p \in DOMAIN f.tree /\ Cardinality(Levels(f, a, p)) < 0
        BY DEF Seen, Below
      <4>2. Len(a) \in Nat /\ Len(p) \in Nat
        BY <4>1, PathFacts
      <4>3. IsFiniteSet(Between(a, p))
        BY <4>2, FS_Interval DEF Between
      <4>4. Cardinality(Levels(f, a, p)) \in Nat
        BY <4>3, FS_Subset, FS_CardinalityType DEF Levels
      <4> QED  BY <4>1, <4>4
    <3> QED  BY <3>1
  <2>3. Declared(f, a, 0) = {} /\ Own(f, a, 0) = {}
    BY <2>2 DEF Declared, Own
  <2> HIDE DEF emitted
  <2>4. UNION {Made(f, a, parent, p) : p \in Own(f, a, 0) \cap Below(f.tree, a)} = {}
    BY <2>3
  <2>5. Emits(emitted, f, a, parent, 0, Below(f.tree, a))
    BY <2>1, <2>3, <2>4 DEF Emits
  <2> QED  BY <1>3, <1>5, <2>5 DEF emitted
<1>6. CASE m # 0
  <2> DEFINE visit(c) == Visit(f, Walk(f)[m - 1], c, parent)
  <2>1. emitted = UNION {visit(c) : c \in Children(f.tree, a)}
    <3>1. Walk(f)[m] = Level(f, Walk(f)[m - 1])
      BY <1>2, <1>6, WalkIs
    <3> QED  BY <1>3, <3>1 DEF Level
  <2>2. ASSUME NEW c \in Children(f.tree, a)
        PROVE  Emits(visit(c), f, a, parent, m, Via(f, c))
    BY <1>2, <1>3, <1>6, VisitEmits
  <2>3. ASSUME NEW c \in Children(f.tree, a)
        PROVE  Via(f, c) \subseteq Below(f.tree, a)
    BY ViaIs
  <2>4. ASSUME NEW p \in Below(f.tree, a)
        PROVE  \E c \in Children(f.tree, a) : p \in Via(f, c)
    <3> DEFINE c == Up(p, Len(a) + 1)
    <3>1. c \in Children(f.tree, a)
      BY BelowIsChild
    <3>2. p \in DOMAIN f.tree /\ Len(a) \in Nat /\ Len(p) \in Nat /\ Len(a) < Len(p)
      BY PathFacts DEF Below
    <3>3. c \in DOMAIN f.tree /\ Len(c) = Len(a) + 1
      BY <3>1, ChildIsBelow
    <3>4. CASE Len(p) = Len(a) + 1
      <4>1. c = p
        BY <3>2, <3>4, PathFacts
      <4> QED  BY <3>1, <4>1 DEF Via
    <3>5. CASE Len(a) + 1 < Len(p)
      <4>1. p \in Below(f.tree, c)
        BY <3>2, <3>3, <3>5 DEF Below
      <4> HIDE DEF c
      <4> QED  BY <3>1, <4>1 DEF Via
    <3> QED  BY <3>2, <3>4, <3>5
  <2> HIDE DEF emitted, visit
  <2>5. emitted = UNION {Made(f, a, parent, p) : p \in Own(f, a, m) \cap Below(f.tree, a)}
    <3>1. ASSUME NEW x \in emitted
          PROVE  \E p \in Own(f, a, m) \cap Below(f.tree, a) : x \in Made(f, a, parent, p)
      <4>1. PICK c \in Children(f.tree, a) : x \in visit(c)
        BY <2>1
      <4>2. PICK p \in Own(f, a, m) \cap Via(f, c) : x \in Made(f, a, parent, p)
        BY <2>2, <4>1 DEF Emits
      <4> QED  BY <2>3, <4>2
    <3>2. ASSUME NEW p \in Own(f, a, m) \cap Below(f.tree, a), NEW x \in Made(f, a, parent, p)
          PROVE  x \in emitted
      <4>1. PICK c \in Children(f.tree, a) : p \in Via(f, c)
        BY <2>4
      <4>2. x \in visit(c)
        BY <2>2, <4>1 DEF Emits
      <4> QED  BY <2>1, <4>2
    <3> QED  BY <3>1, <3>2
  <2>6. emitted = {} <=> Declared(f, a, m) \cap Below(f.tree, a) = {}
    <3>1. emitted = {} <=> \A c \in Children(f.tree, a) : visit(c) = {}
      BY <2>1
    <3>2. \A c \in Children(f.tree, a) : visit(c) = {} <=> Declared(f, a, m) \cap Via(f, c) = {}
      BY <2>2 DEF Emits
    <3>3. Declared(f, a, m) \cap Below(f.tree, a) = {} <=>
            \A c \in Children(f.tree, a) : Declared(f, a, m) \cap Via(f, c) = {}
      BY <2>3, <2>4
    <3> QED  BY <3>1, <3>2, <3>3
  <2>7. Emits(emitted, f, a, parent, m, Below(f.tree, a))
    BY <2>5, <2>6 DEF Emits
  <2> QED  BY <1>3, <2>7 DEF emitted
<1> QED  BY <1>5, <1>6

-----------------------------------------------------------------------------
(* Chunking: what a file is cut into.                                      *)

LEMMA RootSees ==
    ASSUME NEW f, IsFile(f), f.parsed
    PROVE  /\ Own(f, <<>>, MAX_WALK_DEPTH + 1) = Declarations(f.tree)
           /\ \A p \in DOMAIN f.tree : Around(f, <<>>, Unnamed, p) = Parent(f.tree, p)
           /\ Declarations(f.tree) = {} => Declared(f, <<>>, MAX_WALK_DEPTH + 1) = {}
<1> DEFINE n == MAX_WALK_DEPTH + 1
           root == <<>>
<1>1. root \in DOMAIN f.tree /\ Len(root) = 0 /\ MAX_WALK_DEPTH \in Nat
  BY ChunkingAssumption DEF IsFile
<1>2. ASSUME NEW p \in DOMAIN f.tree
      PROVE  /\ Between(root, p) = Above(p)
             /\ p \in Below(f.tree, root) <=> p # <<>>
  <2>1. p \in Seq(Nat) /\ Len(p) \in Nat
    BY PathFacts
  <2>2. Up(p, 0) = <<>>
    BY <2>1 DEF Up
  <2> QED  BY <1>1, <2>1, <2>2 DEF Between, Above, Below
<1>3. ASSUME NEW p \in DOMAIN f.tree
      PROVE  p \in Seen(f, root, n) <=> Reached(f.tree, p)
  <2>1. Levels(f, root, p) = {m \in Above(p) : f.tree[Up(p, m)].kind # "wrapper"}
    BY <1>2 DEF Levels
  <2>2. Cardinality(Levels(f, root, p)) \in Nat
    <3>1. Len(p) \in Nat
      BY PathFacts
    <3>2. IsFiniteSet(Above(p))
      BY <3>1, FS_Interval DEF Above
    <3> QED  BY <2>1, <3>2, FS_Subset, FS_CardinalityType
  <2>3. Cardinality(Levels(f, root, p)) < n <=> Cardinality(Levels(f, root, p)) <= MAX_WALK_DEPTH
    BY <1>1, <2>2
  <2>4. (\A m \in Between(root, p) : Passes(f, p, m)) <=>
           \A m \in Above(p) :
              /\ f.tree[Up(p, m)].kind # "leaf"
              /\ f.tree[Up(p, m)].kind = "wrapper" =>
                    Up(p, m + 1) \in InnerDeclarations(f.tree, Up(p, m))
    BY <1>2 DEF Passes
  <2> HIDE DEF root, n
  <2> QED  BY <1>2, <2>1, <2>3, <2>4 DEF Seen, Reached
<1>4. Seen(f, root, n) \subseteq DOMAIN f.tree
  BY DEF Seen, Below
<1>5. ASSUME NEW p \in DOMAIN f.tree
      PROVE  p \in Own(f, root, n) <=> p \in Declarations(f.tree)
  <2>1. \A q \in Below(f.tree, p) :
           q \in Declared(f, root, n) <=>
              f.tree[q].kind \in {"leaf", "container"} /\ Reached(f.tree, q)
    <3>1. Below(f.tree, p) \subseteq DOMAIN f.tree
      BY DEF Below
    <3> HIDE DEF root, n
    <3> QED  BY <1>3, <3>1 DEF Declared
  <2> HIDE DEF root, n
  <2> QED  BY <1>3, <2>1 DEF Own, Declared, Declarations
<1>6. Own(f, root, n) = Declarations(f.tree)
  <2>1. Own(f, root, n) \subseteq DOMAIN f.tree /\ Declarations(f.tree) \subseteq DOMAIN f.tree
    BY <1>4 DEF Own, Declared, Declarations
  <2> HIDE DEF root, n
  <2> QED  BY <1>5, <2>1
<1>7. ASSUME NEW p \in DOMAIN f.tree
      PROVE  Around(f, root, Unnamed, p) = Parent(f.tree, p)
  <2> DEFINE named(levels) == {m \in levels : /\ f.tree[Up(p, m)].kind = "container"
                                              /\ f.tree[Up(p, m)].name # Unnamed}
             innermost(levels) == {m \in named(levels) : \A k \in named(levels) : k <= m}
             name(levels) == IF named(levels) = {} THEN Unnamed
                             ELSE f.tree[Up(p, CHOOSE m \in innermost(levels) : TRUE)].name
  <2>1. /\ Around(f, root, Unnamed, p) = name(Between(root, p))
        /\ Parent(f.tree, p) = name(Above(p))
    BY DEF Around, Parent
  <2>2. Between(root, p) = Above(p)
    BY <1>2
  <2> HIDE DEF name
  <2> QED  BY <2>1, <2>2
<1>8. Own(f, root, n) = {} => Declared(f, root, n) = {}
  <2>1. Unnamed \in Names(f) /\ n \in Nat /\ f.tree[root].kind # "wrapper"
    BY <1>1 DEF Names, IsFile
  <2> DEFINE emitted == Walk(f)[n][root][Unnamed]
  <2> HIDE DEF root, n
  <2>2. Emits(emitted, f, root, Unnamed, n, Below(f.tree, root))
    BY <1>1, <2>1, WalkEmitsAll DEF WalkEmits
  <2> HIDE DEF emitted
  <2>3. Own(f, root, n) = {} =>
          UNION {Made(f, root, Unnamed, p) : p \in Own(f, root, n) \cap Below(f.tree, root)} = {}
    OBVIOUS
  <2>4. Declared(f, root, n) \subseteq Below(f.tree, root)
    BY DEF Declared, Seen
  <2> QED  BY <2>2, <2>3, <2>4 DEF Emits
<1> QED  BY <1>6, <1>7, <1>8

\* The chunks of a declaration, with its wrapper, under its name and its parent's.
ChunksOfDeclaration(f, p) ==
    MakeChunk(f, Outer(f.tree, p), f.tree[p].name, Parent(f.tree, p))

\* All that is emitted for a file are its declarations.
LEMMA WalkOfFile ==
    ASSUME NEW f, IsFile(f), f.parsed
    PROVE  Walk(f)[MAX_WALK_DEPTH + 1][<<>>][Unnamed] =
             UNION {ChunksOfDeclaration(f, p) : p \in Declarations(f.tree)}
<1> DEFINE n == MAX_WALK_DEPTH + 1
           emitted == Walk(f)[n][<<>>][Unnamed]
<1> SUFFICES emitted = UNION {ChunksOfDeclaration(f, p) : p \in Declarations(f.tree)}
  OBVIOUS
<1>1. /\ <<>> \in DOMAIN f.tree /\ Unnamed \in Names(f) /\ n \in Nat
      /\ f.tree[<<>>].kind # "wrapper"
  BY ChunkingAssumption DEF Names, IsFile
<1>2. Emits(emitted, f, <<>>, Unnamed, n, Below(f.tree, <<>>))
  <2> HIDE DEF n
  <2> QED  BY <1>1, WalkEmitsAll DEF WalkEmits
<1>3. /\ Own(f, <<>>, n) = Declarations(f.tree)
      /\ \A p \in DOMAIN f.tree : Around(f, <<>>, Unnamed, p) = Parent(f.tree, p)
  BY RootSees
<1> HIDE DEF emitted, n
<1>4. Declarations(f.tree) \subseteq DOMAIN f.tree
  BY DEF Declarations
<1>5. Own(f, <<>>, n) \cap Below(f.tree, <<>>) = Declarations(f.tree)
  BY <1>3 DEF Own, Declared, Seen
<1>6. \A p \in Declarations(f.tree) : Made(f, <<>>, Unnamed, p) = ChunksOfDeclaration(f, p)
  BY <1>3, <1>4 DEF Made, ChunksOfDeclaration
<1> QED  BY <1>2, <1>5, <1>6 DEF Emits

\* A declaration has at most one wrapper, and a wrapper at most one declaration.
LEMMA OuterIs ==
    ASSUME NEW f, IsFile(f), f.parsed, NEW p \in Declarations(f.tree)
    PROVE  /\ p \in DOMAIN f.tree
           /\ Outer(f.tree, p) \in DOMAIN f.tree /\ f.tree[Outer(f.tree, p)].kind # "plain"
           /\ \A q \in Declarations(f.tree) : Outer(f.tree, q) = Outer(f.tree, p) => q = p
<1>1. ASSUME NEW q \in Declarations(f.tree)
      PROVE  /\ q \in DOMAIN f.tree /\ f.tree[q].kind \in {"leaf", "container"}
             /\ Front(q) \in DOMAIN f.tree
             /\ f.tree[Front(q)].kind = "wrapper" => q \in InnerDeclarations(f.tree, Front(q))
  <2>1. q \in DOMAIN f.tree /\ Reached(f.tree, q) /\ f.tree[q].kind \in {"leaf", "container"}
    BY DEF Declarations
  <2>2. q \in Seq(Nat) /\ Len(q) \in Nat /\ q # <<>>
    BY <2>1, PathFacts DEF Reached
  <2>3. Len(q) # 0 /\ Front(q) = Up(q, Len(q) - 1)
    BY <2>2 DEF Front, Up
  <2>4. Front(q) \in DOMAIN f.tree
    BY <2>1, <2>2, <2>3, PathFacts
  <2>5. ASSUME f.tree[Front(q)].kind = "wrapper"
        PROVE  q \in InnerDeclarations(f.tree, Front(q))
    <3>1. Len(q) # 1
      <4>1. Len(q) = 1 => Front(q) = <<>>
        BY <2>2 DEF Front
      <4> QED  BY <2>5, <4>1 DEF IsFile
    <3>2. Len(q) - 1 \in Above(q)
      <4>1. Len(q) \in Nat /\ Len(q) # 0 /\ Len(q) # 1
        BY <2>2, <2>3, <3>1
      <4>2. \A l \in Nat : l # 0 /\ l # 1 => l - 1 \in 1..l - 1
        OBVIOUS
      <4>3. Len(q) - 1 \in 1..Len(q) - 1
        BY <4>1, <4>2
      <4> QED  BY <4>3 DEF Above
    <3>3. Up(q, (Len(q) - 1) + 1) = q
      BY <2>1, <2>2, PathFacts
    <3> QED  BY <2>1, <2>3, <2>5, <3>2, <3>3 DEF Reached
  <2> QED  BY <2>1, <2>4, <2>5
<1>2. Outer(f.tree, p) \in DOMAIN f.tree /\ f.tree[Outer(f.tree, p)].kind # "plain"
  BY <1>1 DEF Outer
<1>3. ASSUME NEW q \in Declarations(f.tree), Outer(f.tree, q) = Outer(f.tree, p)
      PROVE  q = p
  <2>1. CASE f.tree[Front(p)].kind = "wrapper"
    <3>1. Outer(f.tree, p) = Front(p)
      BY <2>1 DEF Outer
    <3>2. f.tree[Front(q)].kind = "wrapper" /\ Front(q) = Front(p)
      BY <1>1, <1>3, <2>1, <3>1 DEF Outer
    <3> QED  BY <1>1, <2>1, <3>2, OneIsInner
  <2>2. CASE f.tree[Front(p)].kind # "wrapper"
    <3>1. Outer(f.tree, p) = p
      BY <2>2 DEF Outer
    <3> QED  BY <1>1, <1>3, <3>1 DEF Outer
  <2> QED  BY <2>1, <2>2
<1> QED  BY <1>1, <1>2, <1>3

\* For any file, if it is parsed and declares something its chunks are its declarations, and
\* else what is no longer than the overlap and one line is whole in one of them.
LEMMA FileIsWhole ==
    ASSUME NEW f, IsFile(f)
    PROVE  IF f.parsed /\ Declarations(f.tree) # {}
           THEN DeclarationsAreWhole(f, ChunkFile(f))
           ELSE ConstructsAreWhole(f, ChunkFile(f))
<1> DEFINE walked == IF f.parsed THEN Walk(f)[MAX_WALK_DEPTH + 1][<<>>][Unnamed] ELSE {}
           kept == {c \in walked : \/ c.symbol # Unnamed
                                   \/ c.last - c.first + 1 >= MIN_UNNAMED_CHUNK_LINES}
           result == ChunkFile(f)
<1>1. result = CASE Text(f) = {} -> {}
                 [] Text(f) # {} /\ walked = {} -> FallbackWindows(f)
                 [] Text(f) # {} /\ walked # {} -> IF kept = {} THEN walked ELSE kept
  BY DEF ChunkFile
<1>2. f.parsed => walked = UNION {ChunksOfDeclaration(f, p) : p \in Declarations(f.tree)}
  BY WalkOfFile
<1>3. CASE f.parsed /\ Declarations(f.tree) # {}
  <2>1. ASSUME NEW p \in Declarations(f.tree)
        PROVE  AreChunks(ChunksOfDeclaration(f, p), f, Outer(f.tree, p),
                         f.tree[p].name, Parent(f.tree, p))
    BY <1>3, OuterIs, ChunksOfNode DEF ChunksOfDeclaration
  <2>2. ASSUME NEW c \in walked
        PROVE  \E p \in Declarations(f.tree) :
                  /\ c \in ChunksOfDeclaration(f, p)
                  /\ c.node = Outer(f.tree, p)
                  /\ c.symbol = f.tree[p].name /\ c.parent = Parent(f.tree, p)
                  /\ f.tree[c.node].first <= c.first /\ c.last <= f.tree[c.node].last
    <3>1. PICK p \in Declarations(f.tree) : c \in ChunksOfDeclaration(f, p)
      BY <1>2, <1>3
    <3> QED  BY <2>1, <3>1 DEF AreChunks
  <2> HIDE DEF walked, result
  <2>3. walked # {} /\ Text(f) # {}
    <3>1. PICK p \in Declarations(f.tree) : TRUE
      BY <1>3
    <3>2. ChunksOfDeclaration(f, p) # {}
      BY <2>1 DEF AreChunks
    <3>3. f.tree[Outer(f.tree, p)].first \in Text(f)
      BY <1>3, OuterIs DEF IsFile
    <3> QED  BY <1>2, <1>3, <3>2, <3>3
  <2>4. result = IF kept = {} THEN walked ELSE kept
    BY <1>1, <2>3
  <2>5. result \subseteq walked
    BY <2>4
  <2>6. ASSUME NEW p \in Declarations(f.tree), f.tree[p].name # Unnamed,
               NEW line \in f.tree[Outer(f.tree, p)].first..f.tree[Outer(f.tree, p)].last \cap Text(f)
        PROVE  Cardinality({c \in result : /\ c.node = Outer(f.tree, p)
                                           /\ c.first <= line /\ line <= c.last}) = 1
    <3>1. PICK c \in ChunksOfDeclaration(f, p) : \A d \in ChunksOfDeclaration(f, p) :
             (d.first <= line /\ line <= d.last) <=> d = c
      BY <2>1 DEF AreChunks
    <3>2. c \in walked /\ c.symbol # Unnamed /\ c.node = Outer(f.tree, p)
      BY <1>2, <1>3, <2>1, <2>6 DEF AreChunks
    <3>3. c \in result
      BY <2>4, <3>2
    <3>4. ASSUME NEW d \in result, d.node = Outer(f.tree, p), d.first <= line, line <= d.last
          PROVE  d = c
      <4>1. PICK q \in Declarations(f.tree) :
               d \in ChunksOfDeclaration(f, q) /\ d.node = Outer(f.tree, q)
        BY <2>2, <2>5
      <4>2. q = p
        BY <1>3, <3>4, <4>1, OuterIs
      <4> QED  BY <3>1, <3>4, <4>1, <4>2
    <3>5. {d \in result : d.node = Outer(f.tree, p) /\ d.first <= line /\ line <= d.last} = {c}
      BY <3>1, <3>2, <3>3, <3>4
    <3> QED  BY <3>5, FS_Singleton
  <2>7. DeclarationsAreWhole(f, result)
    BY <2>2, <2>5, <2>6 DEF DeclarationsAreWhole
  <2> QED  BY <1>3, <2>7 DEF result
<1>4. CASE ~(f.parsed /\ Declarations(f.tree) # {})
  <2>1. walked = {}
    BY <1>2, <1>4
  <2> HIDE DEF walked, result
  <2>2. CASE Text(f) = {}
    BY <1>4, <2>2 DEF ConstructsAreWhole
  <2>3. CASE Text(f) # {}
    <3>1. result = FallbackWindows(f)
      BY <1>1, <2>1, <2>3
    <3> QED  BY <1>4, <2>3, <3>1, FallbackHoldsConstructs DEF result
  <2> QED  BY <2>2, <2>3
<1> QED  BY <1>3, <1>4

\* For files of any size and declarations nested in any way, a search finds every declaration
\* under its own name and its class's, each line of it in one chunk, and in a file without a
\* parser what an overlap holds (_walk, _split_oversized, _fallback_windows, chunk_file).
THEOREM SearchedChunksAreWhole == SearchSpec => []ChunksAreWhole
<1>1. SearchInv => ChunksAreWhole
  <2> SUFFICES ASSUME SearchInv PROVE ChunksAreWhole
    OBVIOUS
  <2>1. file \in Files /\ chunks = ChunkFile(file) /\ IsFile(file)
    BY FilesAssumption DEF SearchInv, SearchTypeOK
  <2> QED  BY <2>1, FileIsWhole DEF ChunksAreWhole
<1> QED  BY SearchInvariance, <1>1, PTL
=============================================================================
