------------------------------ MODULE Indexing ------------------------------
(***************************************************************************)
(* The code index of one repository: checkouts (`rag/workspace.py`),       *)
(* snapshots and their files, chunks and vectors (`rag/indexer.py`), and   *)
(* the steps of the orchestrator that build and read them.  Runs share the *)
(* snapshots; each has a checkout of its own, which is lost with the       *)
(* machine and can be left half done by a worker that is killed.           *)
(*                                                                         *)
(* `_index` is one transaction: rows other runs wrote are seen once they   *)
(* are committed, and two unique constraints decide between writers.  What *)
(* a run has flushed is `added` until it commits.  A snapshot is its rows  *)
(* by path; the chunks of a file always have their vectors together, so a  *)
(* row is a content and the model of its vectors.  A snapshot is named by  *)
(* its commit.  The steps up to EXPLORING_REPOSITORY touch no snapshot and *)
(* are one state, "prepared", entered with the clone.                      *)
(***************************************************************************)
EXTENDS Naturals, Sequences, FiniteSets

CONSTANTS
    Runs,          \* runs of the repository
    Paths,         \* file names
    Contents,      \* contents of files
    Blank,         \* those without a chunk, such as an empty __init__.py
    Skipped,       \* those `scan` leaves out: binary, minified, too long
    History,       \* the commits of the default branch, each [Paths -> Contents \cup {None}]
    Models,        \* embedding models workers may be configured with
    None,          \* no file, row, vector, snapshot or checkout
    MaxCrashes,    \* bound on killed workers
    MaxLosses,     \* bound on lost machines
    MaxFailures    \* bound on embedding requests that fail for good

Commits == DOMAIN History
Row == [content : Contents, vector : Models \cup {None}]
Rows == [Paths -> Row \cup {None}]
Snapshot == [status : {"indexing", "ready"}, chunked : BOOLEAN, model : Models \cup {None},
             born : Nat, rows : Rows]
Checkout == [commit : Commits, head : BOOLEAN, files : SUBSET Paths]
Places == {"idle", "rehydrate", "clone", "step", "insert", "build", "embed"}
Working == {"created", "prepared", "indexed"}

ASSUME HistoryAssumption == History \in Seq([Paths -> Contents \cup {None}]) /\ History # <<>>
ASSUME ContentsAssumption == Blank \subseteq Contents /\ Skipped \subseteq Contents
ASSUME NoneAssumption == None \notin Contents \cup Models \cup Row \cup Rows \cup Snapshot
                                     \cup Checkout \cup Nat
ASSUME BoundsAssumption == {MaxCrashes, MaxLosses, MaxFailures} \subseteq Nat

VARIABLES
    tip,        \* the last commit of the default branch
    snapshots,  \* committed repository_snapshot rows with their files, by commit
    clock,      \* created_at of the next snapshot
    state,      \* per run: agent_run.state
    chosen,     \* per run: agent_run.snapshot_id
    disk,       \* per run: its checkout
    at,         \* per run: where its worker is
    model,      \* per run: the embedding model of its worker
    head,       \* per run: scratch.commit_sha
    previous,   \* per run: previous_snapshot_id
    born,       \* per run: created_at of the snapshot it inserted, or None
    added,      \* per run: the file rows it has flushed
    context,    \* per run: what it retrieved
    torn,       \* snapshots indexed from a checkout that was half done
    crashes, losses, failures

db == <<snapshots, clock, state, chosen>>
work == <<previous, born, added>>
faults == <<crashes, losses, failures>>
vars == <<tip, db, disk, at, model, head, work, context, torn, faults>>

NoRows == [p \in Paths |-> None]

Init ==
    /\ tip = 1
    /\ snapshots = [c \in Commits |-> None]
    /\ clock = 0
    /\ state = [r \in Runs |-> "created"]
    /\ chosen = [r \in Runs |-> None]
    /\ disk = [r \in Runs |-> None]
    /\ at = [r \in Runs |-> "idle"]
    /\ model \in [Runs -> Models]
    /\ head = [r \in Runs |-> None]
    /\ previous = [r \in Runs |-> None]
    /\ born = [r \in Runs |-> None]
    /\ added = [r \in Runs |-> NoRows]
    /\ context = [r \in Runs |-> None]
    /\ torn = {}
    /\ crashes = 0 /\ losses = 0 /\ failures = 0

Go(r, place) == at' = [at EXCEPT ![r] = place]

\* The session of r is rolled back or committed: nothing of it is left in memory.
EndOfTransaction(r) ==
    /\ previous' = [previous EXCEPT ![r] = None]
    /\ born' = [born EXCEPT ![r] = None]
    /\ added' = [added EXCEPT ![r] = NoRows]

-----------------------------------------------------------------------------
(* Checkouts.                                                              *)

\* The default branch moves on, while runs are under way.
Push ==
    /\ tip < Len(History)
    /\ tip' = tip + 1
    /\ UNCHANGED <<db, disk, at, model, head, work, context, torn, faults>>

\* A worker, of whatever deployment, claims the run's job: advance with a new scratch.
Claim(r, m) ==
    /\ at[r] = "idle"
    /\ state[r] \in Working
    /\ Go(r, IF state[r] = "created" THEN "clone" ELSE "rehydrate")
    /\ model' = [model EXCEPT ![r] = m]
    /\ head' = [head EXCEPT ![r] = None]
    /\ UNCHANGED <<tip, db, disk, work, context, torn, faults>>

\* The checkout a worker finds; is_dir() does not ask whether it is whole.
Rehydrate(r) ==
    /\ at[r] = "rehydrate"
    /\ \/ /\ disk[r] = None
          /\ Go(r, "clone")
          /\ UNCHANGED <<state, head, disk>>
       \/ /\ disk[r] # None /\ disk[r].head
          /\ head' = [head EXCEPT ![r] = disk[r].commit]
          /\ Go(r, "step")
          /\ UNCHANGED <<state, disk>>
       \/ /\ disk[r] # None /\ ~disk[r].head    \* git rev-parse HEAD fails
          /\ state' = [state EXCEPT ![r] = "failed"]
          /\ disk' = [disk EXCEPT ![r] = None]
          /\ Go(r, "idle")
          /\ UNCHANGED head
    /\ UNCHANGED <<tip, snapshots, clock, chosen, model, work, context, torn, faults>>

\* _checkout succeeds, in _clone or in _rehydrate, with the tip of the branch.
Clone(r) ==
    /\ at[r] = "clone"
    /\ disk' = [disk EXCEPT ![r] = [commit |-> tip, head |-> TRUE, files |-> Paths]]
    /\ head' = [head EXCEPT ![r] = tip]
    /\ state' = [state EXCEPT ![r] = IF @ = "created" THEN "prepared" ELSE @]
    /\ Go(r, "step")
    /\ UNCHANGED <<tip, snapshots, clock, chosen, model, work, context, torn, faults>>

\* git clone or git rev-parse fails, which fails the run.  What git leaves of the checkout
\* nobody looks at any more.
CloneFails(r) ==
    /\ at[r] = "clone"
    /\ state' = [state EXCEPT ![r] = "failed"]
    /\ disk' = [disk EXCEPT ![r] = None]
    /\ Go(r, "idle")
    /\ UNCHANGED <<tip, snapshots, clock, chosen, model, head, work, context, torn, faults>>

\* The worker is killed; git leaves what it had done of a clone: no commit yet, or the
\* commit and some of the files.
Kill(r) ==
    /\ crashes < MaxCrashes
    /\ at[r] # "idle"
    /\ IF at[r] = "clone"
       THEN \E c \in {tip}, h \in BOOLEAN, f \in SUBSET Paths :
               /\ ~h => f = {}
               /\ disk' = [disk EXCEPT ![r] = [commit |-> c, head |-> h, files |-> f]]
       ELSE UNCHANGED disk
    /\ Go(r, "idle")
    /\ EndOfTransaction(r)
    /\ crashes' = crashes + 1
    /\ UNCHANGED <<tip, db, model, head, context, torn, losses, failures>>

\* The machine is replaced: workers and checkouts are gone.
LoseMachine ==
    /\ losses < MaxLosses
    /\ at' = [r \in Runs |-> "idle"]
    /\ disk' = [r \in Runs |-> None]
    /\ previous' = [r \in Runs |-> None]
    /\ born' = [r \in Runs |-> None]
    /\ added' = [r \in Runs |-> NoRows]
    /\ losses' = losses + 1
    /\ UNCHANGED <<tip, db, model, head, context, torn, crashes, failures>>

-----------------------------------------------------------------------------
(* The step that indexes.                                                  *)

Indexed(c) == snapshots[c] # None /\ snapshots[c].status = "ready" /\ snapshots[c].chunked

\* The snapshot created last, of any commit and in any status.
Latest ==
    LET there == {c \in Commits : snapshots[c] # None}
    IN  IF there = {} THEN None
        ELSE CHOOSE c \in there : \A d \in there : snapshots[d].born <= snapshots[c].born

\* The snapshot of the commit: reused, found unfinished, or to be inserted.
FindSnapshot(r) ==
    /\ at[r] = "step" /\ state[r] = "prepared"
    /\ IF Indexed(head[r])
       THEN /\ chosen' = [chosen EXCEPT ![r] = head[r]]
            /\ state' = [state EXCEPT ![r] = "indexed"]
            /\ UNCHANGED <<at, previous>>
       ELSE /\ IF snapshots[head[r]] = None
               THEN Go(r, "insert") /\ previous' = [previous EXCEPT ![r] = Latest]
               ELSE Go(r, "build") /\ UNCHANGED previous
            /\ UNCHANGED <<chosen, state>>
    /\ UNCHANGED <<tip, snapshots, clock, disk, model, head, born, added, context, torn, faults>>

\* Mutant: wait for whoever is indexing the commit.
CommitIsUnfinished(r) ==
    /\ snapshots[head[r]] # None
    /\ snapshots[head[r]].status = "indexing"

\* uq_snapshot_commit: an insert waits for a transaction that has inserted the commit, and
\* fails if that has been committed.
CommitIsLocked(r) == \E q \in Runs \ {r} : born[q] # None /\ head[q] = head[r]

CommitIsTaken(r) == snapshots[head[r]] # None

\* Mutant: a failed attempt takes the snapshot of its commit with it.
RecordFailureAndDelete(r) ==
    /\ state' = [state EXCEPT ![r] = "failed"]
    /\ Go(r, "idle")
    /\ EndOfTransaction(r)
    /\ snapshots' = [snapshots EXCEPT ![head[r]] = None]
    /\ UNCHANGED chosen

\* An exception of the database: the session is beyond use and the worker records the failure.
RecordFailure(r) ==
    /\ state' = [state EXCEPT ![r] = "failed"]
    /\ Go(r, "idle")
    /\ EndOfTransaction(r)
    /\ UNCHANGED <<snapshots, chosen>>

InsertSnapshot(r) ==
    /\ at[r] = "insert"
    /\ ~CommitIsLocked(r)
    /\ IF CommitIsTaken(r)
       THEN RecordFailure(r) /\ UNCHANGED clock
       ELSE /\ born' = [born EXCEPT ![r] = clock]
            /\ clock' = clock + 1
            /\ Go(r, "build")
            /\ UNCHANGED <<snapshots, state, chosen, previous, added>>
    /\ UNCHANGED <<tip, disk, model, head, context, torn, faults>>

\* Mutant: a file that cannot be read is not skipped.
ScanUnreadable(c, files) == {p \in files : History[c][p] \notin Skipped}

\* scan: the files of the checkout worth indexing.
Scan(c, files) == {p \in files : History[c][p] \notin Skipped \cup {None}}
Scanned(r) == Scan(head[r], disk[r].files)

PreviousRow(r, p) == IF previous[r] = None THEN None ELSE snapshots[previous[r]].rows[p]

\* Mutant: files are compared by name only.
SameName(r) == {p \in Scanned(r) : PreviousRow(r, p) # None}

\* changed_files: the hash is the one of the previous snapshot.
Unchanged(r) == {p \in Scanned(r) :
    /\ PreviousRow(r, p) # None
    /\ PreviousRow(r, p).content = History[head[r]][p]}

\* Mutant: any vector will do.
HasVector(r, p) == /\ PreviousRow(r, p).content \notin Blank
                   /\ PreviousRow(r, p).vector # None

\* _carry_forward: it has chunks, and all have a vector of the current model.
Reusable(r, p) == /\ PreviousRow(r, p).content \notin Blank
                  /\ PreviousRow(r, p).vector = model[r]

Carried(r) == {p \in Unchanged(r) : Reusable(r, p)}

\* The rows before the vectors of the files that are not carried forward.
NewRows(r) == [p \in Paths |->
    IF p \in Carried(r) THEN PreviousRow(r, p)
    ELSE IF p \in Scanned(r) THEN [content |-> History[head[r]][p], vector |-> None]
    ELSE None]

\* uq_file_per_snapshot: rows of others that are flushed, or committed.
FilesAreLocked(r) == \E q \in Runs \ {r}, p \in Scanned(r) : head[q] = head[r] /\ added[q][p] # None
FilesAreTaken(r) == /\ snapshots[head[r]] # None
                    /\ \E p \in Scanned(r) : snapshots[head[r]].rows[p] # None

\* index_snapshot up to the flush of the chunks.
Build(r) ==
    /\ at[r] = "build"
    /\ ~FilesAreLocked(r)
    /\ IF FilesAreTaken(r)
       THEN RecordFailure(r) /\ UNCHANGED torn
       ELSE /\ added' = [added EXCEPT ![r] = NewRows(r)]
            /\ torn' = IF disk[r].files = Paths THEN torn ELSE torn \cup {head[r]}
            /\ Go(r, "embed")
            /\ UNCHANGED <<snapshots, state, chosen, previous, born>>
    /\ UNCHANGED <<tip, clock, disk, model, head, context, faults>>

\* Files with chunks to embed.
ToEmbed(r) == {p \in Paths : /\ added[r][p] # None
                             /\ added[r][p].content \notin Blank
                             /\ added[r][p].vector = None}

\* The committed snapshot after r's commit, with the rows it has added.
Merged(r, rows) ==
    LET old == IF snapshots[head[r]] = None
               THEN [status |-> "indexing", chunked |-> FALSE, model |-> None, born |-> born[r],
                     rows |-> NoRows]
               ELSE snapshots[head[r]]
    IN  [old EXCEPT !.rows = [p \in Paths |-> IF rows[p] # None THEN rows[p] ELSE @[p]]]

Embedded(r) == [p \in Paths |->
    IF p \in ToEmbed(r) THEN [added[r][p] EXCEPT !.vector = model[r]] ELSE added[r][p]]

\* The rest of index_snapshot with the vectors, and the commit of the step.
Embed(r) ==
    /\ at[r] = "embed"
    /\ snapshots' = [snapshots EXCEPT ![head[r]] =
         [Merged(r, Embedded(r)) EXCEPT
            !.status = "ready",
            !.chunked = \E p \in Paths : added[r][p] # None /\ added[r][p].content \notin Blank,
            !.model = model[r]]]
    /\ chosen' = [chosen EXCEPT ![r] = head[r]]
    /\ state' = [state EXCEPT ![r] = "indexed"]
    /\ Go(r, "step")
    /\ EndOfTransaction(r)
    /\ UNCHANGED <<tip, clock, disk, model, head, context, torn, faults>>

\* embed_documents raises: RunAborted, and _fail, which does not roll back, commits the
\* rows flushed before.
EmbedFails(r) ==
    /\ at[r] = "embed"
    /\ ToEmbed(r) # {}
    /\ failures < MaxFailures
    /\ snapshots' = [snapshots EXCEPT ![head[r]] = Merged(r, added[r])]
    /\ chosen' = [chosen EXCEPT ![r] = head[r]]
    /\ state' = [state EXCEPT ![r] = "failed"]
    /\ disk' = [disk EXCEPT ![r] = None]
    /\ Go(r, "idle")
    /\ EndOfTransaction(r)
    /\ failures' = failures + 1
    /\ UNCHANGED <<tip, clock, model, head, context, torn, crashes, losses>>

-----------------------------------------------------------------------------
(* The step that retrieves.                                                *)

Found(r) == snapshots[chosen[r]].rows

\* hybrid_search: by vectors of the query's model, and by text.
SemanticHits(r) == {p \in Paths : Found(r)[p] # None /\ Found(r)[p].content \notin Blank
                                                     /\ Found(r)[p].vector = model[r]}
LexicalHits(r) == {p \in Paths : Found(r)[p] # None /\ Found(r)[p].content \notin Blank}

Retrieve(r) ==
    /\ at[r] = "step" /\ state[r] = "indexed"
    /\ context' = [context EXCEPT ![r] =
         [commit |-> chosen[r], semantic |-> SemanticHits(r), lexical |-> LexicalHits(r)]]
    /\ state' = [state EXCEPT ![r] = "retrieved"]
    /\ Go(r, "idle")
    /\ UNCHANGED <<tip, snapshots, clock, chosen, disk, model, head, work, torn, faults>>

\* embed_query raises.
QueryFails(r) ==
    /\ at[r] = "step" /\ state[r] = "indexed"
    /\ failures < MaxFailures
    /\ state' = [state EXCEPT ![r] = "failed"]
    /\ disk' = [disk EXCEPT ![r] = None]
    /\ Go(r, "idle")
    /\ failures' = failures + 1
    /\ UNCHANGED <<tip, snapshots, clock, chosen, model, head, work, context, torn, crashes, losses>>

-----------------------------------------------------------------------------
WorkerStep(r) ==
    \/ \E m \in Models : Claim(r, m)
    \/ Rehydrate(r)
    \/ Clone(r)
    \/ FindSnapshot(r)
    \/ InsertSnapshot(r)
    \/ Build(r)
    \/ Embed(r)
    \/ Retrieve(r)

Next ==
    \/ Push
    \/ LoseMachine
    \/ \E r \in Runs : WorkerStep(r) \/ CloneFails(r) \/ Kill(r) \/ EmbedFails(r) \/ QueryFails(r)

Spec == Init /\ [][Next]_vars
Fairness == \A r \in Runs : WF_vars(WorkerStep(r))
FairSpec == Spec /\ Fairness

-----------------------------------------------------------------------------
(* Properties.                                                             *)

TypeOK ==
    /\ tip \in Commits
    /\ snapshots \in [Commits -> Snapshot \cup {None}]
    /\ clock \in Nat
    /\ state \in [Runs -> Working \cup {"retrieved", "failed"}]
    /\ chosen \in [Runs -> Commits \cup {None}]
    /\ disk \in [Runs -> Checkout \cup {None}]
    /\ at \in [Runs -> Places]
    /\ model \in [Runs -> Models]
    /\ head \in [Runs -> Commits \cup {None}]
    /\ previous \in [Runs -> Commits \cup {None}]
    /\ born \in [Runs -> Nat \cup {None}]
    /\ added \in [Runs -> Rows]
    /\ torn \subseteq Commits
    /\ {crashes, losses, failures} \subseteq Nat

\* What an index of commit c made with model m has to contain.
FullIndex(c, m) == [p \in Paths |->
    IF p \notin Scan(c, Paths) THEN None
    ELSE [content |-> History[c][p], vector |-> IF History[c][p] \in Blank THEN None ELSE m]]

\* A snapshot that is marked ready has exactly the files of its commit, each as it is in
\* that commit, and every chunk has a vector of the one model the snapshot names: whatever
\* was carried forward, from whichever earlier snapshot, and whoever else was indexing.
\* (index_snapshot, _carry_forward; a snapshot made from a half checkout is `torn`.)
ReadyIsComplete ==
    \A c \in Commits \ torn :
       snapshots[c] # None /\ snapshots[c].status = "ready"
          => snapshots[c].rows = FullIndex(c, snapshots[c].model)

\* A snapshot that runs have begun to search is never changed under them: later runs,
\* other models and failed attempts leave it as it is.  (The snapshots of a commit that was
\* indexed from a half checkout are excepted: an attempt that finds no file collides with
\* nobody, and marks the snapshot as one without chunks.)
ReadyStays ==
    [][\A c \in Commits \ torn : Indexed(c) => snapshots'[c] = snapshots[c]]_vars

\* A run that retrieves with the model its snapshot was made with, from a checkout that
\* was whole, is offered every file of the snapshot's commit, by meaning and by text.
\* (hybrid_search scoped by snapshot and model.)
NothingHidden ==
    \A r \in Runs :
       /\ at[r] = "step" /\ state[r] = "indexed"
       /\ chosen[r] \notin torn
       => LET code == {p \in Scan(chosen[r], Paths) : History[chosen[r]][p] \notin Blank}
          IN  /\ LexicalHits(r) = code
              /\ snapshots[chosen[r]].model = model[r] => SemanticHits(r) = code

\* Every run gets through indexing or fails: nobody waits for an index for ever.
IndexingEnds == \A r \in Runs : <>(state[r] \in {"retrieved", "failed"})

\* What indexer.py:3-6 says of an attempt that ended between chunks and embeddings: "On
\* the next run the missing embeddings are simply filled in, which makes the whole
\* operation resumable".  Checked to be violated: their files collide with the new ones.
AttemptsResume == \A r \in Runs : at[r] = "build" => ~FilesAreTaken(r)
=============================================================================
