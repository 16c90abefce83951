------------------------------ MODULE JobQueue ------------------------------
(***************************************************************************)
(* The durable job queue (`services/job_queue.py`) and the loop of the     *)
(* workers that serve it (`worker/main.py`).                               *)
(*                                                                         *)
(* A job is a row; claiming it stamps a lease on it.  Nothing renews the   *)
(* lease while the handler runs, and marking a job does not look at who    *)
(* holds it, so a worker whose handler outlives its lease competes with    *)
(* the worker the job is handed to next.                                   *)
(*                                                                         *)
(* Each action is one committed transaction of the queue, or the end of a  *)
(* handler between two of them.  The one exception is mark_failed, which   *)
(* selects the row without a lock and updates it by what it read: its      *)
(* SELECT and its UPDATE are two actions.  What a handler does is not      *)
(* modelled here: it takes any time and then returns, raises, or dies with *)
(* its process.                                                            *)
(***************************************************************************)
EXTENDS Naturals

CONSTANTS
    Workers,       \* worker processes
    Jobs,          \* jobs that may be enqueued
    Nobody,        \* the locked_by of a job no worker holds
    Idle,          \* the job of a worker that has none
    NoLease,       \* the lease_expires_at of a job that is not running
    Same,          \* a column that an UPDATE leaves alone
    MaxAttempts,   \* Job.max_attempts
    Lease,         \* worker_lease_seconds
    RetryDelay,    \* mark_failed's retry_delay_seconds
    MaxCrashes     \* bound on the crashes of worker processes

ASSUME WorkersAssumption == Nobody \notin Workers
ASSUME JobsAssumption == Idle \notin Jobs
ASSUME LeaseAssumption == NoLease \notin Nat
ASSUME SameAssumption == Same \notin Nat \cup {"queued", "failed"}
ASSUME TimesAssumption ==
    /\ MaxAttempts \in Nat \ {0}
    /\ Lease \in Nat
    /\ RetryDelay \in Nat
    /\ MaxCrashes \in Nat

VARIABLES
    job,       \* the job table: status, attempts, run_after, lease, locked_by
    now,       \* the clock
    step,      \* per worker: where it is in its loop
    doing,     \* per worker: the job it claimed, or Idle
    update,    \* per worker: the columns the UPDATE of its mark_failed will write
    crashes,   \* number of crashes so far
    reclaims,  \* history: how often each job was reclaimed
    overrun    \* history: jobs reclaimed while a worker was handling them

vars == <<job, now, step, doing, update, crashes, reclaims, overrun>>
history == <<reclaims, overrun>>

Status == {"absent", "queued", "running", "succeeded", "failed"}

Job == [status : Status, attempts : Nat, run_after : Nat,
        lease_expires_at : Nat \cup {NoLease}, locked_by : Workers \cup {Nobody}]

Absent == [status |-> "absent", attempts |-> 0, run_after |-> 0,
           lease_expires_at |-> NoLease, locked_by |-> Nobody]

Update == [status : {"queued", "failed", Same}, run_after : Nat \cup {Same},
           released : BOOLEAN]

NoUpdate == [status |-> Same, run_after |-> Same, released |-> FALSE]

Finished(j) == job[j].status \in {"succeeded", "failed"}

\* Mutants of Due: claim_next selects running, or failed, jobs as well.
DueOrRunning(j) == job[j].status \in {"queued", "running"} /\ job[j].run_after <= now
DueOrFailed(j) == job[j].status \in {"queued", "failed"} /\ job[j].run_after <= now

Due(j) == job[j].status = "queued" /\ job[j].run_after <= now

-----------------------------------------------------------------------------
Init ==
    /\ job = [j \in Jobs |-> Absent]
    /\ now = 0
    /\ step = [w \in Workers |-> "reclaim"]
    /\ doing = [w \in Workers |-> Idle]
    /\ update = [w \in Workers |-> NoUpdate]
    /\ crashes = 0
    /\ reclaims = [j \in Jobs |-> 0]
    /\ overrun = {}

\* enqueue, by the API, inside the transaction that makes the job necessary.
Enqueue(j) ==
    /\ job[j].status = "absent"
    /\ job' = [job EXCEPT ![j].status = "queued", ![j].run_after = now]
    /\ UNCHANGED <<now, step, doing, update, crashes, history>>

\* Mutant of Expired: only jobs that name no worker are reclaimed.
ExpiredAndUnowned(j) == job[j].status = "running" /\ job[j].locked_by = Nobody

\* A row without a lease is no candidate: NULL is less than nothing.
Expired(j) ==
    /\ job[j].status = "running"
    /\ job[j].lease_expires_at # NoLease
    /\ job[j].lease_expires_at < now

\* Mutant of Released: the lease is made to look expired instead of cleared.
ReleasedExpired(row, status) ==
    [row EXCEPT !.status = status, !.locked_by = Nobody, !.lease_expires_at = now - 1]

\* The row when its job ends or goes back to the queue.
Released(row, status) ==
    [row EXCEPT !.status = status, !.locked_by = Nobody, !.lease_expires_at = NoLease]

\* reclaim_expired, at the top of the worker loop: every expired job at once.
\* Neither attempts nor run_after change.
ReclaimExpired(w) ==
    /\ step[w] = "reclaim"
    /\ job' = [j \in Jobs |->
                  IF Expired(j) THEN Released(job[j], "queued") ELSE job[j]]
    /\ reclaims' = [j \in Jobs |->
                  IF Expired(j) THEN reclaims[j] + 1 ELSE reclaims[j]]
    /\ overrun' = overrun \cup
                  {j \in Jobs : Expired(j) /\ \E u \in Workers : doing[u] = j}
    /\ step' = [step EXCEPT ![w] = "claim"]
    /\ UNCHANGED <<now, doing, update, crashes>>

\* claim_next: the due job with the earliest run_after, skipping no one's
\* lock because the claim and its commit are one step here.
Claimable(j) == Due(j) /\ \A k \in Jobs : Due(k) => job[j].run_after <= job[k].run_after

\* The row once worker w has it.
Claimed(j, w) ==
    [job[j] EXCEPT !.status = "running",
                   !.attempts = @ + 1,
                   !.locked_by = w,
                   !.lease_expires_at = now + Lease]

ClaimNext(w, j) ==
    /\ step[w] = "claim"
    /\ Claimable(j)
    /\ job' = [job EXCEPT ![j] = Claimed(j, w)]
    /\ doing' = [doing EXCEPT ![w] = j]
    /\ step' = [step EXCEPT ![w] = "handle"]
    /\ UNCHANGED <<now, update, crashes, history>>

\* Nothing is due: the worker sleeps and starts over.
FindNothing(w) ==
    /\ step[w] = "claim"
    /\ \A j \in Jobs : ~Due(j)
    /\ step' = [step EXCEPT ![w] = "reclaim"]
    /\ UNCHANGED <<job, now, doing, update, crashes, history>>

\* The handler returns or raises; the job is marked in a later transaction.
HandlerEnds(w, outcome) ==
    /\ step[w] = "handle"
    /\ step' = [step EXCEPT ![w] = outcome]
    /\ UNCHANGED <<job, now, doing, update, crashes, history>>

GoBack(w) ==
    /\ doing' = [doing EXCEPT ![w] = Idle]
    /\ update' = [update EXCEPT ![w] = NoUpdate]
    /\ step' = [step EXCEPT ![w] = "reclaim"]

\* mark_succeeded: unconditional.
MarkSucceeded(w) ==
    /\ step[w] = "returned"
    /\ job' = [job EXCEPT ![doing[w]] = Released(@, "succeeded")]
    /\ GoBack(w)
    /\ UNCHANGED <<now, crashes, history>>

\* mark_succeeded raises: the except branch that follows marks the job failed.
MarkSucceededFails(w) ==
    /\ step[w] = "returned"
    /\ step' = [step EXCEPT ![w] = "raised"]
    /\ UNCHANGED <<job, now, doing, update, crashes, history>>

\* Mutant of AttemptsRemain: off by one.
OneMoreAttempt(j) == job[j].attempts <= MaxAttempts

AttemptsRemain(j) == job[j].attempts < MaxAttempts

Verdict(j) == IF AttemptsRemain(j) THEN "queued" ELSE "failed"

\* What mark_failed will write, from the row it reads: the session sends a column only
\* when the assigned value differs from the one read.
Decided(j) ==
    [status |-> IF job[j].status = Verdict(j) THEN Same ELSE Verdict(j),
     run_after |-> IF AttemptsRemain(j) THEN now + RetryDelay ELSE Same,
     released |-> job[j].locked_by # Nobody]

\* mark_failed, its SELECT: nothing locks the row until the UPDATE.
SelectJob(w) ==
    /\ step[w] = "raised"
    /\ update' = [update EXCEPT ![w] = Decided(doing[w])]
    /\ step' = [step EXCEPT ![w] = "failing"]
    /\ UNCHANGED <<job, now, doing, crashes, history>>

\* The row after an UPDATE.
Updated(row, u) ==
    [row EXCEPT !.status = IF u.status = Same THEN @ ELSE u.status,
                !.run_after = IF u.run_after = Same THEN @ ELSE u.run_after,
                !.locked_by = IF u.released THEN Nobody ELSE @,
                !.lease_expires_at = IF u.released THEN NoLease ELSE @]

\* mark_failed, its UPDATE: like mark_succeeded, it does not ask whose job it is now,
\* nor what became of the row since it was read.
MarkFailed(w) ==
    /\ step[w] = "failing"
    /\ job' = [job EXCEPT ![doing[w]] = Updated(@, update[w])]
    /\ GoBack(w)
    /\ UNCHANGED <<now, crashes, history>>

\* The process dies and is started again, or marking the job failed raises and
\* the loop goes on: either way the job keeps its lease.
Crash(w) ==
    /\ step[w] # "reclaim"
    /\ crashes < MaxCrashes
    /\ crashes' = crashes + 1
    /\ GoBack(w)
    /\ UNCHANGED <<job, now, history>>

\* Time passes while something waits for it.
Tick ==
    /\ \E j \in Jobs :
          \/ job[j].status = "queued" /\ job[j].run_after > now
          \/ /\ job[j].status = "running"
             /\ job[j].lease_expires_at # NoLease
             /\ job[j].lease_expires_at >= now
    /\ now' = now + 1
    /\ UNCHANGED <<job, step, doing, update, crashes, history>>

Next ==
    \/ \E j \in Jobs : Enqueue(j)
    \/ \E w \in Workers :
          \/ ReclaimExpired(w)
          \/ \E j \in Jobs : ClaimNext(w, j)
          \/ FindNothing(w)
          \/ HandlerEnds(w, "returned")
          \/ HandlerEnds(w, "raised")
          \/ MarkSucceeded(w)
          \/ MarkSucceededFails(w)
          \/ SelectJob(w)
          \/ MarkFailed(w)
          \/ Crash(w)
    \/ Tick

Spec == Init /\ [][Next]_vars

\* The worker loop keeps going, handlers end (each run, tool and model call has
\* a time limit) and time passes.  Nothing makes the API enqueue a job or a
\* process crash.
Fairness ==
    /\ \A w \in Workers :
          /\ WF_vars(ReclaimExpired(w))
          /\ WF_vars(FindNothing(w) \/ \E j \in Jobs : ClaimNext(w, j))
          /\ WF_vars(HandlerEnds(w, "returned") \/ HandlerEnds(w, "raised"))
          /\ WF_vars(MarkSucceeded(w) \/ MarkSucceededFails(w) \/ SelectJob(w) \/ MarkFailed(w))
    /\ WF_vars(Tick)

FairSpec == Spec /\ Fairness

-----------------------------------------------------------------------------
\* The tables and the workers keep their types.
TypeOK ==
    /\ job \in [Jobs -> Job]
    /\ now \in Nat
    /\ step \in [Workers -> {"reclaim", "claim", "handle", "returned", "raised", "failing"}]
    /\ doing \in [Workers -> Jobs \cup {Idle}]
    /\ update \in [Workers -> Update]
    /\ crashes \in Nat
    /\ reclaims \in [Jobs -> Nat]
    /\ overrun \in SUBSET Jobs

\* A running job can be recovered: it has a lease that will run out, and no other job
\* has one (job_queue.py:149).  Once a lease was overrun, a mark_failed that read the row
\* before it was claimed again may settle it without releasing the lease.
RunningHasLease ==
    \A j \in Jobs \ overrun :
        /\ job[j].status = "running" <=> job[j].lease_expires_at # NoLease
        /\ job[j].status = "running" <=> job[j].locked_by # Nobody

\* As long as no lease of a job ran out under a live worker, the worker that
\* handles it is the one the row names, so no two workers handle it
\* (job_queue.py:74).
OwnerUntilOverrun ==
    \A w \in Workers : doing[w] \in Jobs \ overrun =>
        /\ job[doing[w]].status = "running"
        /\ job[doing[w]].locked_by = w

\* A job is handed out max_attempts times, and once more for every time its
\* lease ran out, which is not counted against it.
AttemptsBounded ==
    \A j \in Jobs : job[j].attempts <= MaxAttempts + reclaims[j]

\* Only a worker that outlived its lease can bring a finished job back.
FinishedStays ==
    [][\A j \in Jobs : Finished(j) /\ j \notin overrun => Finished(j)']_vars

\* A job as those see it who enqueue it, have it or settle it.
Delivery(j) == INSTANCE JobDelivery
    WITH status <- job[j].status, attempts <- job[j].attempts,
         working <- {w \in Workers : doing[w] = j},
         retrying <- {w \in Workers : doing[w] = j /\ update[w].status = "queued"}

\* Whatever workers do twice, late or after a crash, a job is handed out only when it is
\* queued, each time counted; only its lease running out or somebody who has it changes
\* the status it has then; it fails only with its attempts used up, and somebody queues it
\* again only who saw attempts left (claim_next, reclaim_expired, mark_failed).
RefinesDelivery ==
    /\ \A j \in Jobs : Delivery(j)!Init
    /\ [][\A j \in Jobs : [Delivery(j)!Next]_(Delivery(j)!vars)]_vars

\* Running without a lease: reclaim_expired never finds it if its worker dies, although
\* reclaiming is how worker crashes recover (job_queue.py:149).
Stranded(j) == job[j].status = "running" /\ job[j].lease_expires_at = NoLease

\* Every job is settled for good in the end, whatever workers crash, outlive their leases
\* and mark each other's jobs, as long as crashes stop; unless the UPDATE of a mark_failed
\* that read an older row has taken the lease off the running one.
EventuallySettled ==
    \A j \in Jobs : job[j].status # "absent" ~> ([](Finished(j)) \/ [](Stranded(j)))
=============================================================================
