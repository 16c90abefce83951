--------------------------- MODULE JobQueueProofs ---------------------------
(***************************************************************************)
(* Theorems about JobQueue, for any number of workers, jobs and crashes    *)
(* and any lengths of the lease and of the retry delay.                    *)
(*                                                                         *)
(* OwnerUntilOverrun and RunningHasLease need to know that a worker has a  *)
(* job exactly between its claim and its mark (Busy), and that as long as  *)
(* no lease of the job was overrun, what a mark_failed is about to write   *)
(* gives it up (GivesUpItsOwn).  That each job is a JobDelivery needs that *)
(* an UPDATE is pending only between SELECT and commit (OnlyFailingWrites) *)
(* and that attempts once used up stay so (FailsExhausted).                *)
(*                                                                         *)
(* AttemptsBounded is proved from the steps of JobDelivery alone, by       *)
(* counting (Counted): those who have a job, and the job itself if it      *)
(* waits, are one more than its reclaims at most; and once its attempts    *)
(* are used up, each of those who still think otherwise can have it handed *)
(* out once more, and that too fits under the bound.                       *)
(***************************************************************************)
EXTENDS JobQueue, FiniteSetTheorems, TLAPS

Busy ==
    \A w \in Workers :
        step[w] \in {"handle", "returned", "raised", "failing"} <=> doing[w] \in Jobs

OnlyFailingWrites ==
    \A w \in Workers : step[w] # "failing" => update[w] = NoUpdate

GivesUpItsOwn ==
    \A w \in Workers : step[w] = "failing" /\ doing[w] \in Jobs \ overrun =>
        update[w].released /\ update[w].status # Same

FailsExhausted ==
    \A w \in Workers : update[w].status = "failed" => job[doing[w]].attempts >= MaxAttempts

Inv ==
    /\ TypeOK
    /\ Busy
    /\ OnlyFailingWrites
    /\ GivesUpItsOwn
    /\ FailsExhausted
    /\ RunningHasLease
    /\ OwnerUntilOverrun

Holders(j) == {w \in Workers : doing[w] = j}

Retrying(j) == {w \in Workers : doing[w] = j /\ update[w].status = "queued"}

Waiting(j) == IF job[j].status \in {"absent", "queued"} THEN 1 ELSE 0

Counted ==
    \A j \in Jobs :
        /\ IsFiniteSet(Holders(j))
        /\ Waiting(j) + Cardinality(Holders(j)) <= 1 + reclaims[j]
        /\ job[j].attempts >= MaxAttempts =>
              job[j].attempts + Waiting(j) + Cardinality(Retrying(j))
                  <= MaxAttempts + reclaims[j]

-------------------------
\* A released row is a row, has no owner and no lease, and keeps its attempts.
LEMMA ReleasedFacts ==
    ASSUME NEW row \in Job, NEW status \in {"queued", "succeeded", "failed"}
    PROVE  /\ Released(row, status) \in Job
           /\ Released(row, status).status = status
           /\ Released(row, status).locked_by = Nobody
           /\ Released(row, status).lease_expires_at = NoLease
           /\ Released(row, status).attempts = row.attempts
BY DEF Released, Job, Status

\* What mark_failed decides follows from the row it reads.
LEMMA DecidedFacts ==
    ASSUME NEW j \in Jobs, job[j] \in Job, now \in Nat
    PROVE  /\ Decided(j) \in Update
           /\ Decided(j).status = "queued" => job[j].attempts < MaxAttempts
           /\ Decided(j).status = "failed" => job[j].attempts >= MaxAttempts
           /\ job[j].status = "running" => Decided(j).status # Same
           /\ Decided(j).released <=> job[j].locked_by # Nobody
<1>1. now + RetryDelay \in Nat /\ job[j].attempts \in Nat /\ MaxAttempts \in Nat
  BY TimesAssumption DEF Job
<1>2. Verdict(j) = IF job[j].attempts < MaxAttempts THEN "queued" ELSE "failed"
  BY DEF Verdict, AttemptsRemain
<1>3. Decided(j).status = IF job[j].status = Verdict(j) THEN Same ELSE Verdict(j)
  BY DEF Decided
<1>4. Decided(j).released <=> job[j].locked_by # Nobody
  BY DEF Decided
<1>5. Decided(j) \in Update
  BY <1>1, <1>2 DEF Decided, Update
<1>6. Same # "queued" /\ Same # "failed"
  BY SameAssumption
<1>7. job[j].status = "running" => Decided(j).status # Same
  BY <1>2, <1>3, <1>6
<1>8. /\ Decided(j).status = "queued" => job[j].attempts < MaxAttempts
      /\ Decided(j).status = "failed" => job[j].attempts >= MaxAttempts
  BY <1>1, <1>2, <1>3, <1>6
<1> QED
  BY <1>4, <1>5, <1>7, <1>8

\* An UPDATE keeps the attempts of a row.
LEMMA UpdatedFacts ==
    ASSUME NEW row \in Job, NEW u \in Update
    PROVE  /\ Updated(row, u) \in Job
           /\ Updated(row, u).status = IF u.status = Same THEN row.status ELSE u.status
           /\ u.released => /\ Updated(row, u).locked_by = Nobody
                            /\ Updated(row, u).lease_expires_at = NoLease
           /\ Updated(row, u).attempts = row.attempts
<1>1. DOMAIN row =
        {"status", "attempts", "run_after", "lease_expires_at", "locked_by"}
  BY DEF Job
<1>2. /\ Updated(row, u).status = IF u.status = Same THEN row.status ELSE u.status
      /\ Updated(row, u).run_after = IF u.run_after = Same THEN row.run_after ELSE u.run_after
      /\ Updated(row, u).locked_by = IF u.released THEN Nobody ELSE row.locked_by
      /\ Updated(row, u).lease_expires_at =
            IF u.released THEN NoLease ELSE row.lease_expires_at
      /\ Updated(row, u).attempts = row.attempts
  BY <1>1 DEF Updated
<1>3. Updated(row, u) \in Job
  BY DEF Updated, Job, Status, Update
<1> QED
  BY <1>2, <1>3

\* Nothing is what a worker writes that is not about to.
LEMMA NoUpdateFacts ==
    /\ NoUpdate \in Update
    /\ NoUpdate.status # "queued"
    /\ NoUpdate.status # "failed"
BY SameAssumption DEF NoUpdate, Update

\* The row of a claimed job names the worker and has one attempt more.
LEMMA ClaimedFacts ==
    ASSUME NEW j \in Jobs, NEW w \in Workers, job[j] \in Job, now \in Nat
    PROVE  /\ Claimed(j, w) \in Job
           /\ Claimed(j, w).status = "running"
           /\ Claimed(j, w).locked_by = w
           /\ Claimed(j, w).lease_expires_at # NoLease
           /\ Claimed(j, w).attempts = job[j].attempts + 1
<1>1. now + Lease \in Nat /\ job[j].attempts + 1 \in Nat
  BY TimesAssumption DEF Job
<1>2. DOMAIN job[j] =
        {"status", "attempts", "run_after", "lease_expires_at", "locked_by"}
  BY DEF Job
<1>3. /\ Claimed(j, w).status = "running"
      /\ Claimed(j, w).locked_by = w
      /\ Claimed(j, w).lease_expires_at = now + Lease
      /\ Claimed(j, w).attempts = job[j].attempts + 1
  BY <1>2 DEF Claimed
<1>4. Claimed(j, w) \in Job
  BY <1>1 DEF Claimed, Job, Status
<1> QED
  BY <1>1, <1>3, <1>4, LeaseAssumption

-----------------------------------------------------------------------------
LEMMA InitInv == Init => Inv
BY JobsAssumption, TimesAssumption, NoUpdateFacts
   DEF Init, Inv, TypeOK, Busy, OnlyFailingWrites, GivesUpItsOwn, FailsExhausted,
       RunningHasLease, OwnerUntilOverrun, Absent, Job, Status

LEMMA EnqueueInv ==
    ASSUME Inv, NEW j \in Jobs, Enqueue(j)
    PROVE  Inv'
<1> USE DEF Inv
<1>1. job' = [job EXCEPT ![j] = [job[j] EXCEPT !.status = "queued", !.run_after = now]]
  BY DEF Enqueue, TypeOK, Job
<1>2. job[j] \in Job /\ now \in Nat /\ job[j].status = "absent"
  BY DEF Enqueue, TypeOK
<1>3. /\ job'[j] \in Job /\ job'[j].status = "queued"
      /\ job'[j].attempts = job[j].attempts
      /\ job'[j].lease_expires_at = job[j].lease_expires_at
      /\ job'[j].locked_by = job[j].locked_by
      /\ \A k \in Jobs \ {j} : job'[k] = job[k]
      /\ UNCHANGED <<now, step, doing, update, crashes, reclaims, overrun>>
  BY <1>1, <1>2 DEF Enqueue, TypeOK, Job, Status, history
<1>4. TypeOK'
  BY <1>1, <1>3 DEF TypeOK
<1>5. Busy' /\ OnlyFailingWrites' /\ GivesUpItsOwn'
  BY <1>3 DEF Busy, OnlyFailingWrites, GivesUpItsOwn
<1>6. FailsExhausted'
  <2>1. \A w \in Workers : update[w].status = "failed" => doing[w] \in Jobs
    BY NoUpdateFacts DEF OnlyFailingWrites, Busy
  <2> QED  BY <1>3, <2>1 DEF FailsExhausted
<1>7. RunningHasLease' /\ OwnerUntilOverrun'
  BY <1>2, <1>3 DEF RunningHasLease, OwnerUntilOverrun
<1> QED
  BY <1>4, <1>5, <1>6, <1>7

LEMMA ReclaimInv ==
    ASSUME Inv, NEW w \in Workers, ReclaimExpired(w)
    PROVE  Inv'
<1> USE DEF Inv
<1>1. ASSUME NEW j \in Jobs
      PROVE  /\ Expired(j) => job'[j] = Released(job[j], "queued")
             /\ ~Expired(j) => job'[j] = job[j]
             /\ Expired(j) => reclaims'[j] = reclaims[j] + 1
             /\ ~Expired(j) => reclaims'[j] = reclaims[j]
             /\ Expired(j) => job[j].status = "running"
  BY DEF ReclaimExpired, Expired
<1>2. TypeOK'
  <2>1. job' \in [Jobs -> Job] /\ reclaims' \in [Jobs -> Nat]
    BY <1>1, ReleasedFacts DEF ReclaimExpired, TypeOK
  <2> QED
    BY <2>1 DEF ReclaimExpired, TypeOK
<1>3. Busy' /\ OnlyFailingWrites'
  BY DEF ReclaimExpired, Busy, OnlyFailingWrites, TypeOK
<1>4. GivesUpItsOwn'
  <2>1. /\ doing' = doing /\ update' = update /\ overrun \subseteq overrun'
        /\ \A u \in Workers : step'[u] = "failing" => step[u] = "failing"
    BY DEF ReclaimExpired, TypeOK
  <2> QED  BY <2>1 DEF GivesUpItsOwn
<1>5. FailsExhausted'
  <2>1. \A u \in Workers : update[u].status = "failed" => doing[u] \in Jobs
    BY NoUpdateFacts DEF OnlyFailingWrites, Busy
  <2>2. \A k \in Jobs : job'[k].attempts = job[k].attempts
    BY <1>1, ReleasedFacts DEF TypeOK
  <2>3. doing' = doing /\ update' = update
    BY DEF ReclaimExpired
  <2> QED  BY <2>1, <2>2, <2>3 DEF FailsExhausted
<1>6. RunningHasLease'
  <2> SUFFICES ASSUME NEW j \in Jobs \ overrun'
               PROVE  /\ job'[j].status = "running" <=> job'[j].lease_expires_at # NoLease
                      /\ job'[j].status = "running" <=> job'[j].locked_by # Nobody
    BY DEF RunningHasLease
  <2>0. j \in Jobs \ overrun
    BY DEF ReclaimExpired
  <2>1. CASE Expired(j)
    BY <1>1, <2>1, ReleasedFacts DEF TypeOK
  <2>2. CASE ~Expired(j)
    BY <1>1, <2>0, <2>2 DEF RunningHasLease
  <2> QED
    BY <2>1, <2>2
<1>7. OwnerUntilOverrun'
  <2> SUFFICES ASSUME NEW u \in Workers, doing'[u] \in Jobs \ overrun'
               PROVE  /\ job'[doing'[u]].status = "running"
                      /\ job'[doing'[u]].locked_by = u
    BY DEF OwnerUntilOverrun
  <2>1. doing'[u] = doing[u] /\ doing[u] \in Jobs \ overrun /\ ~Expired(doing[u])
    BY DEF ReclaimExpired
  <2> QED
    BY <1>1, <2>1 DEF OwnerUntilOverrun
<1> QED
  BY <1>2, <1>3, <1>4, <1>5, <1>6, <1>7

LEMMA ClaimInv ==
    ASSUME Inv, NEW w \in Workers, NEW j \in Jobs, ClaimNext(w, j)
    PROVE  Inv'
<1> USE DEF Inv
<1>1. job[j] \in Job /\ now \in Nat /\ job[j].status = "queued"
  BY DEF ClaimNext, Claimable, Due, TypeOK
<1>2. /\ job'[j] = Claimed(j, w)
      /\ \A k \in Jobs \ {j} : job'[k] = job[k]
      /\ doing'[w] = j
      /\ \A u \in Workers \ {w} : doing'[u] = doing[u]
  BY DEF ClaimNext, TypeOK
<1>3. TypeOK'
  <2>1. Claimed(j, w) \in Job
    BY <1>1, ClaimedFacts
  <2> QED
    BY <2>1 DEF ClaimNext, TypeOK, history
<1>4. Busy' /\ OnlyFailingWrites'
  BY <1>2 DEF ClaimNext, Busy, OnlyFailingWrites, TypeOK
<1>5. GivesUpItsOwn'
  <2>1. /\ update' = update /\ overrun' = overrun
        /\ \A u \in Workers : step'[u] = "failing" => u # w /\ step[u] = "failing"
    BY DEF ClaimNext, TypeOK, history
  <2> QED  BY <1>2, <2>1 DEF GivesUpItsOwn
<1>6. FailsExhausted'
  <2>1. \A u \in Workers : update[u].status = "failed" => u # w /\ doing[u] \in Jobs
    BY NoUpdateFacts DEF OnlyFailingWrites, Busy, ClaimNext
  <2>2. job'[j].attempts = job[j].attempts + 1 /\ job[j].attempts \in Nat
    BY <1>1, <1>2, ClaimedFacts DEF Job
  <2>3. update' = update /\ MaxAttempts \in Nat
    BY TimesAssumption DEF ClaimNext
  <2> QED  BY <1>2, <2>1, <2>2, <2>3 DEF FailsExhausted
<1>7. RunningHasLease'
  <2>1. Claimed(j, w).locked_by # Nobody
    BY <1>1, ClaimedFacts, WorkersAssumption
  <2>2. overrun' = overrun
    BY DEF ClaimNext, history
  <2> QED
    BY <1>1, <1>2, <2>1, <2>2, ClaimedFacts DEF RunningHasLease
<1>8. OwnerUntilOverrun'
  <2> SUFFICES ASSUME NEW u \in Workers, doing'[u] \in Jobs \ overrun'
               PROVE  /\ job'[doing'[u]].status = "running"
                      /\ job'[doing'[u]].locked_by = u
    BY DEF OwnerUntilOverrun
  <2>1. overrun' = overrun
    BY DEF ClaimNext, history
  <2>2. CASE u = w
    BY <1>1, <1>2, <2>2, ClaimedFacts
  <2>3. CASE u # w
    BY <1>1, <1>2, <2>1, <2>3 DEF OwnerUntilOverrun
  <2> QED
    BY <2>2, <2>3
<1> QED
  BY <1>3, <1>4, <1>5, <1>6, <1>7, <1>8

\* What the two ways to mark a job have in common: the row of the worker's job
\* changes, the worker starts over, and a job that is still its own is released.
LEMMA MarkInv ==
    ASSUME Inv, NEW w \in Workers, NEW new \in Job, doing[w] \in Jobs,
           job' = [job EXCEPT ![doing[w]] = new],
           new.attempts = job[doing[w]].attempts,
           doing[w] \notin overrun => /\ new.status # "running"
                                      /\ new.locked_by = Nobody
                                      /\ new.lease_expires_at = NoLease,
           GoBack(w), UNCHANGED <<now, crashes, history>>
    PROVE  Inv'
<1> USE DEF Inv
<1> DEFINE j == doing[w]
<1>1. /\ job'[j] = new
      /\ \A k \in Jobs \ {j} : job'[k] = job[k]
      /\ reclaims' = reclaims /\ overrun' = overrun
      /\ doing'[w] = Idle /\ update'[w] = NoUpdate /\ step'[w] = "reclaim"
      /\ \A u \in Workers \ {w} :
            doing'[u] = doing[u] /\ update'[u] = update[u] /\ step'[u] = step[u]
  BY DEF GoBack, TypeOK, history
<1>2. TypeOK'
  BY NoUpdateFacts DEF GoBack, TypeOK, history
<1>3. Busy' /\ OnlyFailingWrites' /\ GivesUpItsOwn'
  BY <1>1, JobsAssumption DEF Busy, OnlyFailingWrites, GivesUpItsOwn
<1>4. FailsExhausted'
  <2>1. \A u \in Workers \ {w} : update[u].status = "failed" => doing[u] \in Jobs
    BY NoUpdateFacts DEF OnlyFailingWrites, Busy
  <2>2. \A k \in Jobs : job'[k].attempts = job[k].attempts
    BY <1>1
  <2> QED  BY <1>1, <2>1, <2>2, NoUpdateFacts DEF FailsExhausted
<1>5. RunningHasLease'
  BY <1>1 DEF RunningHasLease
<1>6. OwnerUntilOverrun'
  <2> SUFFICES ASSUME NEW u \in Workers, doing'[u] \in Jobs \ overrun'
               PROVE  /\ job'[doing'[u]].status = "running"
                      /\ job'[doing'[u]].locked_by = u
    BY DEF OwnerUntilOverrun
  <2>1. u # w /\ doing'[u] = doing[u] /\ doing[u] \in Jobs \ overrun
    BY <1>1, JobsAssumption
  <2>2. job[doing[u]].locked_by = u /\ job[doing[u]].status = "running"
    BY <2>1 DEF OwnerUntilOverrun
  <2>3. doing[u] # j
    BY <2>1, <2>2 DEF OwnerUntilOverrun
  <2> QED
    BY <1>1, <2>1, <2>2, <2>3
<1> QED
  BY <1>2, <1>3, <1>4, <1>5, <1>6

LEMMA MarkSucceededInv ==
    ASSUME Inv, NEW w \in Workers, MarkSucceeded(w)
    PROVE  Inv'
<1> DEFINE new == Released(job[doing[w]], "succeeded")
<1>1. doing[w] \in Jobs /\ job[doing[w]] \in Job
  BY DEF MarkSucceeded, Inv, Busy, TypeOK
<1>2. job' = [job EXCEPT ![doing[w]] = new]
  BY DEF MarkSucceeded
<1>3. /\ new \in Job /\ new.status = "succeeded" /\ new.locked_by = Nobody
      /\ new.lease_expires_at = NoLease /\ new.attempts = job[doing[w]].attempts
  BY <1>1, ReleasedFacts
<1>4. GoBack(w) /\ UNCHANGED <<now, crashes, history>>
  BY DEF MarkSucceeded
<1> HIDE DEF new
<1> QED
  BY <1>1, <1>2, <1>3, <1>4, MarkInv

LEMMA MarkFailedInv ==
    ASSUME Inv, NEW w \in Workers, MarkFailed(w)
    PROVE  Inv'
<1> DEFINE new == Updated(job[doing[w]], update[w])
<1>1. doing[w] \in Jobs /\ job[doing[w]] \in Job /\ update[w] \in Update
  BY DEF MarkFailed, Inv, Busy, TypeOK
<1>2. /\ job' = [job EXCEPT ![doing[w]] = new]
      /\ GoBack(w)
      /\ UNCHANGED <<now, crashes, history>>
  BY DEF MarkFailed
<1>3. new \in Job /\ new.attempts = job[doing[w]].attempts
  BY <1>1, UpdatedFacts
<1>4. ASSUME doing[w] \notin overrun
      PROVE  new.status # "running" /\ new.locked_by = Nobody /\ new.lease_expires_at = NoLease
  <2>1. update[w].released /\ update[w].status # Same
    BY <1>1, <1>4 DEF MarkFailed, Inv, GivesUpItsOwn
  <2>2. update[w].status \in {"queued", "failed"}
    BY <1>1, <2>1 DEF Update
  <2> QED  BY <1>1, <2>1, <2>2, UpdatedFacts
<1> HIDE DEF new
<1> QED
  BY <1>1, <1>2, <1>3, <1>4, MarkInv

\* The row a mark_failed reads while the job is its worker's own has an owner to give up.
LEMMA SelectInv ==
    ASSUME Inv, NEW w \in Workers, SelectJob(w)
    PROVE  Inv'
<1> USE DEF Inv
<1>1. doing[w] \in Jobs /\ job[doing[w]] \in Job /\ now \in Nat
  BY DEF SelectJob, Busy, TypeOK
<1>2. /\ UNCHANGED <<job, now, doing, crashes, reclaims, overrun>>
      /\ update'[w] = Decided(doing[w]) /\ step'[w] = "failing"
      /\ \A u \in Workers \ {w} : update'[u] = update[u] /\ step'[u] = step[u]
  BY DEF SelectJob, TypeOK, history
<1>3. TypeOK'
  BY <1>1, DecidedFacts DEF SelectJob, TypeOK, history
<1>4. Busy' /\ OnlyFailingWrites'
  BY <1>1, <1>2 DEF Busy, OnlyFailingWrites
<1>5. GivesUpItsOwn'
  <2>1. ASSUME doing[w] \notin overrun
        PROVE  Decided(doing[w]).released /\ Decided(doing[w]).status # Same
    BY <1>1, <2>1, DecidedFacts, WorkersAssumption DEF OwnerUntilOverrun
  <2> QED  BY <1>2, <2>1 DEF GivesUpItsOwn
<1>6. FailsExhausted'
  BY <1>1, <1>2, DecidedFacts DEF FailsExhausted
<1>7. RunningHasLease' /\ OwnerUntilOverrun'
  BY <1>2 DEF RunningHasLease, OwnerUntilOverrun
<1> QED
  BY <1>3, <1>4, <1>5, <1>6, <1>7

\* Steps that touch no job.
LEMMA OtherInv ==
    ASSUME Inv, NEW w \in Workers,
           \/ FindNothing(w)
           \/ HandlerEnds(w, "returned")
           \/ HandlerEnds(w, "raised")
           \/ MarkSucceededFails(w)
           \/ Crash(w)
    PROVE  Inv'
<1> USE DEF Inv
<1>1. UNCHANGED <<job, now, reclaims, overrun>>
  BY DEF FindNothing, HandlerEnds, MarkSucceededFails, Crash, history
<1>2. TypeOK'
  BY <1>1, NoUpdateFacts DEF FindNothing, HandlerEnds, MarkSucceededFails, Crash, GoBack, TypeOK
<1>3. \A u \in Workers :
          \/ /\ doing'[u] = doing[u] /\ update'[u] = update[u]
             /\ step'[u] = "failing" <=> step[u] = "failing"
          \/ doing'[u] = Idle /\ update'[u] = NoUpdate /\ step'[u] = "reclaim"
  BY DEF FindNothing, HandlerEnds, MarkSucceededFails, Crash, GoBack, TypeOK
<1>4. Busy'
  BY JobsAssumption
     DEF FindNothing, HandlerEnds, MarkSucceededFails, Crash, GoBack, Busy, TypeOK
<1>5. OnlyFailingWrites' /\ GivesUpItsOwn' /\ FailsExhausted'
  BY <1>1, <1>3, NoUpdateFacts DEF OnlyFailingWrites, GivesUpItsOwn, FailsExhausted
<1>6. RunningHasLease' /\ OwnerUntilOverrun'
  BY <1>1, <1>3, JobsAssumption DEF RunningHasLease, OwnerUntilOverrun
<1> QED
  BY <1>2, <1>4, <1>5, <1>6

LEMMA NextInv == Inv /\ [Next]_vars => Inv'
<1> SUFFICES ASSUME Inv, [Next]_vars PROVE Inv'
  OBVIOUS
<1>1. ASSUME NEW j \in Jobs, Enqueue(j) PROVE Inv'
  BY <1>1, EnqueueInv
<1>2. ASSUME NEW w \in Workers, ReclaimExpired(w) PROVE Inv'
  BY <1>2, ReclaimInv
<1>3. ASSUME NEW w \in Workers, NEW j \in Jobs, ClaimNext(w, j) PROVE Inv'
  BY <1>3, ClaimInv
<1>4. ASSUME NEW w \in Workers, MarkSucceeded(w) PROVE Inv'
  BY <1>4, MarkSucceededInv
<1>5. ASSUME NEW w \in Workers, SelectJob(w) PROVE Inv'
  BY <1>5, SelectInv
<1>6. ASSUME NEW w \in Workers, MarkFailed(w) PROVE Inv'
  BY <1>6, MarkFailedInv
<1>7. ASSUME NEW w \in Workers,
             \/ FindNothing(w)
             \/ HandlerEnds(w, "returned")
             \/ HandlerEnds(w, "raised")
             \/ MarkSucceededFails(w)
             \/ Crash(w)
      PROVE Inv'
  BY <1>7, OtherInv
<1>8. Tick \/ UNCHANGED vars => Inv'
  BY DEF Tick, vars, history, Inv, TypeOK, Busy, OnlyFailingWrites, GivesUpItsOwn,
         FailsExhausted, RunningHasLease, OwnerUntilOverrun
<1> QED
  BY <1>1, <1>2, <1>3, <1>4, <1>5, <1>6, <1>7, <1>8 DEF Next

-------------------------
(* Each job is a JobDelivery, which is given back once for each reclaim.   *)

LEMMA DeliveryInit ==
    ASSUME Init, NEW j \in Jobs
    PROVE  Delivery(j)!Init
BY JobsAssumption DEF Init, Absent, Delivery!Init

\* What is not a reclaim of the job.
NotGivenBack(j) ==
    \/ Delivery(j)!Enqueue
    \/ \E w \in Workers : Delivery(j)!HandOut(w) \/ Delivery(j)!LookUp(w) \/ Delivery(j)!Settle(w)
    \/ \E gone \in SUBSET Workers : Delivery(j)!Abandon(gone)
    \/ UNCHANGED Delivery(j)!vars

\* What a step that frees worker w does to the workers that have job j.
LEMMA WorkingWithout ==
    ASSUME Inv, NEW w \in Workers, GoBack(w), NEW j \in Jobs
    PROVE  /\ Holders(j)' = Holders(j) \ {w}
           /\ Retrying(j)' = Retrying(j) \ {w}
BY JobsAssumption, NoUpdateFacts DEF GoBack, Inv, TypeOK, Holders, Retrying

LEMMA EnqueueStep ==
    ASSUME Inv, NEW j \in Jobs, NEW k \in Jobs, Enqueue(k)
    PROVE  NotGivenBack(j) /\ reclaims' = reclaims
<1>0. job[j] \in Job /\ now \in Nat /\ reclaims' = reclaims
  BY DEF Inv, TypeOK, Enqueue, history
<1>1. CASE j = k
  <2>1. /\ job'[j].status = "queued" /\ job'[j].attempts = job[j].attempts
        /\ doing' = doing /\ update' = update
    BY <1>0, <1>1 DEF Enqueue, Inv, TypeOK, Job
  <2>2. Delivery(j)!Enqueue
    BY <1>1, <2>1 DEF Enqueue, Delivery!Enqueue
  <2> QED  BY <1>0, <2>2 DEF NotGivenBack
<1>2. CASE j # k
  <2>1. job'[j] = job[j] /\ doing' = doing /\ update' = update
    BY <1>2 DEF Enqueue, Inv, TypeOK
  <2> QED  BY <1>0, <2>1 DEF NotGivenBack, Delivery!vars
<1> QED  BY <1>1, <1>2

LEMMA ReclaimStep ==
    ASSUME Inv, NEW j \in Jobs, NEW w \in Workers, ReclaimExpired(w)
    PROVE  \/ Delivery(j)!GiveBack /\ reclaims'[j] = reclaims[j] + 1
           \/ NotGivenBack(j) /\ reclaims'[j] = reclaims[j]
<1>0. job[j] \in Job /\ doing' = doing /\ update' = update
  BY DEF Inv, TypeOK, ReclaimExpired
<1>1. CASE Expired(j)
  <2>1. job'[j] = Released(job[j], "queued") /\ reclaims'[j] = reclaims[j] + 1
    BY <1>1 DEF ReclaimExpired
  <2>2. Delivery(j)!GiveBack
    BY <1>0, <1>1, <2>1, ReleasedFacts DEF Expired, Delivery!GiveBack
  <2> QED  BY <2>1, <2>2
<1>2. CASE ~Expired(j)
  <2>1. job'[j] = job[j] /\ reclaims'[j] = reclaims[j]
    BY <1>2 DEF ReclaimExpired
  <2> QED  BY <1>0, <2>1 DEF NotGivenBack, Delivery!vars
<1> QED  BY <1>1, <1>2

LEMMA ClaimStep ==
    ASSUME Inv, NEW j \in Jobs, NEW w \in Workers, NEW k \in Jobs, ClaimNext(w, k)
    PROVE  NotGivenBack(j) /\ reclaims' = reclaims
<1>0. job[j] \in Job /\ now \in Nat /\ reclaims' = reclaims /\ update' = update
  BY DEF Inv, TypeOK, ClaimNext, history
\* A worker that looks for a job has none.
<1>1. doing[w] \notin Jobs /\ update[w].status # "queued"
  BY NoUpdateFacts DEF ClaimNext, Inv, Busy, OnlyFailingWrites
<1>2. Retrying(j)' = Retrying(j)
  BY <1>0, <1>1 DEF Retrying, ClaimNext, Inv, TypeOK
<1>3. CASE j = k
  <2>1. job[j].status = "queued" /\ job'[j] = Claimed(j, w)
    BY <1>3 DEF ClaimNext, Claimable, Due, Inv, TypeOK
  <2>2. Holders(j)' = Holders(j) \cup {w}
    BY <1>3 DEF ClaimNext, Inv, TypeOK, Holders
  <2>3. Delivery(j)!HandOut(w)
    BY <1>0, <1>1, <1>2, <2>1, <2>2, ClaimedFacts DEF Delivery!HandOut, Holders, Retrying
  <2> QED  BY <1>0, <2>3 DEF NotGivenBack
<1>4. CASE j # k
  <2>1. job'[j] = job[j]
    BY <1>4 DEF ClaimNext, Inv, TypeOK
  <2>2. Holders(j)' = Holders(j)
    BY <1>1, <1>4 DEF ClaimNext, Inv, TypeOK, Holders
  <2>3. UNCHANGED Delivery(j)!vars
    BY <1>2, <2>1, <2>2 DEF Delivery!vars, Holders, Retrying
  <2> QED  BY <1>0, <2>3 DEF NotGivenBack
<1> QED  BY <1>3, <1>4

LEMMA SelectStep ==
    ASSUME Inv, NEW j \in Jobs, NEW w \in Workers, SelectJob(w)
    PROVE  NotGivenBack(j) /\ reclaims' = reclaims
<1>0. /\ doing[w] \in Jobs /\ job[doing[w]] \in Job /\ now \in Nat
      /\ UNCHANGED <<job, doing, reclaims>>
  BY DEF SelectJob, Inv, Busy, TypeOK, history
<1>1. update[w].status # "queued"
  BY NoUpdateFacts DEF SelectJob, Inv, OnlyFailingWrites
<1>2. update' = [update EXCEPT ![w] = Decided(doing[w])] /\ update \in [Workers -> Update]
  BY DEF SelectJob, Inv, TypeOK
<1>3. CASE doing[w] = j /\ Decided(doing[w]).status = "queued"
  <2>1. Retrying(j)' = Retrying(j) \cup {w}
    BY <1>0, <1>2, <1>3 DEF Retrying
  <2>2. job[j].attempts < MaxAttempts
    BY <1>0, <1>3, DecidedFacts
  <2>3. Delivery(j)!LookUp(w)
    BY <1>0, <1>3, <2>1, <2>2 DEF Delivery!LookUp, Retrying
  <2> QED  BY <1>0, <2>3 DEF NotGivenBack
<1>4. CASE ~(doing[w] = j /\ Decided(doing[w]).status = "queued")
  <2>1. Retrying(j)' = Retrying(j)
    BY <1>0, <1>1, <1>2, <1>4 DEF Retrying
  <2>2. UNCHANGED Delivery(j)!vars
    BY <1>0, <2>1 DEF Delivery!vars, Retrying
  <2> QED  BY <1>0, <2>2 DEF NotGivenBack
<1> QED  BY <1>3, <1>4

\* A mark of another job, or one that leaves the status alone.
LEMMA GoneStep ==
    ASSUME Inv, NEW j \in Jobs, NEW w \in Workers, GoBack(w),
           job'[j].status = job[j].status, job'[j].attempts = job[j].attempts
    PROVE  NotGivenBack(j)
<1>1. Delivery(j)!Abandon({w})
  BY WorkingWithout DEF Delivery!Abandon, Holders, Retrying
<1> QED  BY <1>1 DEF NotGivenBack

LEMMA MarkSucceededStep ==
    ASSUME Inv, NEW j \in Jobs, NEW w \in Workers, MarkSucceeded(w)
    PROVE  NotGivenBack(j) /\ reclaims' = reclaims
<1>0. /\ doing[w] \in Jobs /\ job[doing[w]] \in Job /\ GoBack(w) /\ reclaims' = reclaims
      /\ job' = [job EXCEPT ![doing[w]] = Released(job[doing[w]], "succeeded")]
  BY DEF MarkSucceeded, Inv, Busy, TypeOK, history
<1>1. CASE doing[w] = j
  <2>1. job'[j].status = "succeeded" /\ job'[j].attempts = job[j].attempts
    BY <1>0, <1>1, ReleasedFacts DEF Inv, TypeOK
  <2>2. Delivery(j)!Settle(w)
    BY <1>0, <1>1, <2>1, WorkingWithout DEF Delivery!Settle, Holders, Retrying
  <2> QED  BY <1>0, <2>2 DEF NotGivenBack
<1>2. CASE doing[w] # j
  <2>1. job'[j] = job[j]
    BY <1>0, <1>2 DEF Inv, TypeOK
  <2> QED  BY <1>0, <2>1, GoneStep
<1> QED  BY <1>1, <1>2

LEMMA MarkFailedStep ==
    ASSUME Inv, NEW j \in Jobs, NEW w \in Workers, MarkFailed(w)
    PROVE  NotGivenBack(j) /\ reclaims' = reclaims
<1>0. /\ doing[w] \in Jobs /\ job[doing[w]] \in Job /\ GoBack(w) /\ reclaims' = reclaims
      /\ job' = [job EXCEPT ![doing[w]] = Updated(job[doing[w]], update[w])]
      /\ update[w] \in Update
  BY DEF MarkFailed, Inv, Busy, TypeOK, history
<1>1. CASE doing[w] = j /\ update[w].status # Same
  <2>1. job'[j].status = update[w].status /\ job'[j].attempts = job[j].attempts
    BY <1>0, <1>1, UpdatedFacts DEF Inv, TypeOK
  <2>2. update[w].status = "failed" => job[j].attempts >= MaxAttempts
    BY <1>1 DEF Inv, FailsExhausted
  <2>3. update[w].status \in {"queued", "failed"}
    BY <1>0, <1>1 DEF Update
  <2>4. update[w].status = "queued" => w \in Retrying(j)
    BY <1>1 DEF Retrying
  <2>5. Delivery(j)!Settle(w)
    BY <1>0, <1>1, <2>1, <2>2, <2>3, <2>4, WorkingWithout
       DEF Delivery!Settle, Holders, Retrying
  <2> QED  BY <1>0, <2>5 DEF NotGivenBack
<1>2. CASE doing[w] = j /\ update[w].status = Same
  <2>1. job'[j].status = job[j].status /\ job'[j].attempts = job[j].attempts
    BY <1>0, <1>2, UpdatedFacts DEF Inv, TypeOK
  <2> QED  BY <1>0, <2>1, GoneStep
<1>3. CASE doing[w] # j
  <2>1. job'[j] = job[j]
    BY <1>0, <1>3 DEF Inv, TypeOK
  <2> QED  BY <1>0, <2>1, GoneStep
<1> QED  BY <1>1, <1>2, <1>3

LEMMA CrashStep ==
    ASSUME Inv, NEW j \in Jobs, NEW w \in Workers, Crash(w)
    PROVE  NotGivenBack(j) /\ reclaims' = reclaims
BY GoneStep DEF Crash, history

LEMMA DeliveryStep ==
    ASSUME Inv, [Next]_vars, NEW j \in Jobs
    PROVE  \/ Delivery(j)!GiveBack /\ reclaims'[j] = reclaims[j] + 1
           \/ NotGivenBack(j) /\ reclaims'[j] = reclaims[j]
<1>1. ASSUME NEW k \in Jobs, Enqueue(k)
      PROVE  NotGivenBack(j) /\ reclaims' = reclaims
  BY <1>1, EnqueueStep
<1>2. ASSUME NEW w \in Workers, ReclaimExpired(w)
      PROVE  \/ Delivery(j)!GiveBack /\ reclaims'[j] = reclaims[j] + 1
             \/ NotGivenBack(j) /\ reclaims'[j] = reclaims[j]
  BY <1>2, ReclaimStep
<1>3. ASSUME NEW w \in Workers, NEW k \in Jobs, ClaimNext(w, k)
      PROVE  NotGivenBack(j) /\ reclaims' = reclaims
  BY <1>3, ClaimStep
<1>4. ASSUME NEW w \in Workers,
             SelectJob(w) \/ MarkSucceeded(w) \/ MarkFailed(w) \/ Crash(w)
      PROVE  NotGivenBack(j) /\ reclaims' = reclaims
  BY <1>4, SelectStep, MarkSucceededStep, MarkFailedStep, CrashStep
<1>5. ASSUME UNCHANGED <<job, doing, update, reclaims>>
      PROVE  NotGivenBack(j) /\ reclaims' = reclaims
  BY <1>5 DEF NotGivenBack, Delivery!vars
<1>6. ASSUME NEW w \in Workers,
             \/ FindNothing(w)
             \/ HandlerEnds(w, "returned")
             \/ HandlerEnds(w, "raised")
             \/ MarkSucceededFails(w)
      PROVE  UNCHANGED <<job, doing, update, reclaims>>
  BY <1>6 DEF FindNothing, HandlerEnds, MarkSucceededFails, history
<1>7. Tick \/ UNCHANGED vars => UNCHANGED <<job, doing, update, reclaims>>
  BY DEF Tick, vars, history
<1> QED  BY <1>1, <1>2, <1>3, <1>4, <1>5, <1>6, <1>7 DEF Next

-----------------------------------------------------------------------------
(* Counting those who have a job.                                          *)

LEMMA CountedInit == Init => Counted
<1> SUFFICES ASSUME Init, NEW j \in Jobs
             PROVE  /\ IsFiniteSet(Holders(j))
                    /\ Waiting(j) + Cardinality(Holders(j)) <= 1 + reclaims[j]
                    /\ job[j].attempts >= MaxAttempts =>
                          job[j].attempts + Waiting(j) + Cardinality(Retrying(j))
                              <= MaxAttempts + reclaims[j]
  BY DEF Counted
<1>1. Holders(j) = {}
  BY JobsAssumption DEF Init, Holders
<1>2. /\ job[j].attempts = 0 /\ Waiting(j) = 1 /\ reclaims[j] = 0
      /\ MaxAttempts \in Nat \ {0}
  BY TimesAssumption DEF Init, Absent, Waiting
<1> QED  BY <1>1, <1>2, FS_EmptySet

\* Those who retry are some of those who have the job.
LEMMA CountFacts ==
    ASSUME Inv, NEW j \in Jobs, IsFiniteSet(Holders(j))
    PROVE  /\ IsFiniteSet(Retrying(j))
           /\ Cardinality(Holders(j)) \in Nat
           /\ Cardinality(Retrying(j)) \in Nat
           /\ Cardinality(Retrying(j)) <= Cardinality(Holders(j))
           /\ reclaims[j] \in Nat /\ job[j].attempts \in Nat
           /\ MaxAttempts \in Nat /\ Waiting(j) \in {0, 1}
<1>1. Retrying(j) \in SUBSET Holders(j)
  BY DEF Retrying, Holders
<1>2. job[j] \in Job /\ reclaims[j] \in Nat
  BY DEF Inv, TypeOK
<1> QED
  BY <1>1, <1>2, FS_Subset, FS_CardinalityType, TimesAssumption DEF Waiting, Job

LEMMA CountedStep ==
    ASSUME Inv, Inv', Counted, [Next]_vars
    PROVE  Counted'
<1> SUFFICES ASSUME NEW j \in Jobs
             PROVE  /\ IsFiniteSet(Holders(j)')
                    /\ Waiting(j)' + Cardinality(Holders(j)') <= 1 + reclaims'[j]
                    /\ job'[j].attempts >= MaxAttempts =>
                          job'[j].attempts + Waiting(j)' + Cardinality(Retrying(j)')
                              <= MaxAttempts + reclaims'[j]
  BY DEF Counted
<1> DEFINE H == Holders(j)
           R == Retrying(j)
<1>0. /\ IsFiniteSet(H)
      /\ Waiting(j) + Cardinality(H) <= 1 + reclaims[j]
      /\ job[j].attempts >= MaxAttempts =>
            job[j].attempts + Waiting(j) + Cardinality(R) <= MaxAttempts + reclaims[j]
  BY DEF Counted
<1>1. /\ IsFiniteSet(R) /\ Cardinality(H) \in Nat /\ Cardinality(R) \in Nat
      /\ Cardinality(R) <= Cardinality(H)
      /\ reclaims[j] \in Nat /\ job[j].attempts \in Nat
      /\ MaxAttempts \in Nat /\ Waiting(j) \in {0, 1}
  BY <1>0, CountFacts
\* Whatever makes neither the sets nor the job's waiting larger.
<1>2. ASSUME Holders(j)' \in SUBSET H, Retrying(j)' \in SUBSET R,
             Waiting(j)' <= Waiting(j), Waiting(j)' \in {0, 1},
             job'[j].attempts = job[j].attempts, reclaims'[j] = reclaims[j]
      PROVE  /\ IsFiniteSet(Holders(j)')
             /\ Waiting(j)' + Cardinality(Holders(j)') <= 1 + reclaims'[j]
             /\ job'[j].attempts >= MaxAttempts =>
                   job'[j].attempts + Waiting(j)' + Cardinality(Retrying(j)')
                       <= MaxAttempts + reclaims'[j]
  <2>1. /\ IsFiniteSet(Holders(j)') /\ Cardinality(Holders(j)') <= Cardinality(H)
        /\ IsFiniteSet(Retrying(j)') /\ Cardinality(Retrying(j)') <= Cardinality(R)
        /\ Cardinality(Holders(j)') \in Nat /\ Cardinality(Retrying(j)') \in Nat
    BY <1>0, <1>1, <1>2, FS_Subset, FS_CardinalityType
  <2> QED  BY <1>0, <1>1, <1>2, <2>1
<1>3. CASE Delivery(j)!GiveBack /\ reclaims'[j] = reclaims[j] + 1
  <2>1. Holders(j)' = H /\ Retrying(j)' = R
    BY <1>3 DEF Delivery!GiveBack, Holders, Retrying
  <2>2. Waiting(j) = 0 /\ Waiting(j)' = 1 /\ job'[j].attempts = job[j].attempts
    BY <1>3 DEF Delivery!GiveBack, Waiting
  <2> QED  BY <1>0, <1>1, <1>3, <2>1, <2>2
<1>4. CASE (Delivery(j)!Enqueue \/ UNCHANGED Delivery(j)!vars) /\ reclaims'[j] = reclaims[j]
  <2>1. Holders(j)' = H /\ Retrying(j)' = R
    BY <1>4 DEF Delivery!Enqueue, Delivery!vars, Holders, Retrying
  <2>2. Waiting(j)' = Waiting(j) /\ job'[j].attempts = job[j].attempts
    BY <1>4 DEF Delivery!Enqueue, Delivery!vars, Waiting
  <2> QED  BY <1>1, <1>2, <1>4, <2>1, <2>2
<1>5. ASSUME NEW w \in Workers, Delivery(j)!HandOut(w), reclaims'[j] = reclaims[j]
      PROVE  /\ IsFiniteSet(Holders(j)')
             /\ Waiting(j)' + Cardinality(Holders(j)') <= 1 + reclaims'[j]
             /\ job'[j].attempts >= MaxAttempts =>
                   job'[j].attempts + Waiting(j)' + Cardinality(Retrying(j)')
                       <= MaxAttempts + reclaims'[j]
  <2>1. w \notin H /\ Holders(j)' = H \cup {w} /\ Retrying(j)' = R
    BY <1>5 DEF Delivery!HandOut, Holders, Retrying
  <2>2. Waiting(j) = 1 /\ Waiting(j)' = 0 /\ job'[j].attempts = job[j].attempts + 1
    BY <1>5 DEF Delivery!HandOut, Waiting
  <2>3. IsFiniteSet(Holders(j)') /\ Cardinality(Holders(j)') = Cardinality(H) + 1
    BY <1>0, <2>1, FS_AddElement
  <2> QED  BY <1>0, <1>1, <1>5, <2>1, <2>2, <2>3
<1>6. ASSUME NEW w \in Workers, Delivery(j)!LookUp(w), reclaims'[j] = reclaims[j]
      PROVE  /\ IsFiniteSet(Holders(j)')
             /\ Waiting(j)' + Cardinality(Holders(j)') <= 1 + reclaims'[j]
             /\ ~(job'[j].attempts >= MaxAttempts)
  <2>1. Holders(j)' = H /\ Waiting(j)' = Waiting(j) /\ job'[j].attempts = job[j].attempts
    BY <1>6 DEF Delivery!LookUp, Holders, Waiting
  <2>2. job[j].attempts < MaxAttempts
    BY <1>6 DEF Delivery!LookUp
  <2> QED  BY <1>0, <1>1, <1>6, <2>1, <2>2
<1>7. ASSUME NEW w \in Workers, Delivery(j)!Settle(w), reclaims'[j] = reclaims[j]
      PROVE  /\ IsFiniteSet(Holders(j)')
             /\ Waiting(j)' + Cardinality(Holders(j)') <= 1 + reclaims'[j]
             /\ job'[j].attempts >= MaxAttempts =>
                   job'[j].attempts + Waiting(j)' + Cardinality(Retrying(j)')
                       <= MaxAttempts + reclaims'[j]
  <2>1. w \in H /\ Holders(j)' = H \ {w} /\ Retrying(j)' = R \ {w}
    BY <1>7 DEF Delivery!Settle, Holders, Retrying
  <2>2. job'[j].attempts = job[j].attempts /\ Waiting(j)' \in {0, 1}
    BY <1>7 DEF Delivery!Settle, Waiting
  <2>3. CASE Waiting(j)' = 0
    BY <1>1, <1>2, <1>7, <2>1, <2>2, <2>3
  <2>4. CASE Waiting(j)' # 0
    <3>1. w \in R
      BY <1>7, <2>4 DEF Delivery!Settle, Waiting, Retrying
    <3>2. IsFiniteSet(H \ {w}) /\ Cardinality(H \ {w}) = Cardinality(H) - 1
      BY <1>0, <2>1, FS_RemoveElement
    <3>3. Cardinality(R \ {w}) = Cardinality(R) - 1
      BY <1>1, <3>1, FS_RemoveElement
    <3> QED  BY <1>0, <1>1, <1>7, <2>1, <2>2, <3>2, <3>3
  <2> QED  BY <2>3, <2>4
<1>8. ASSUME NEW gone \in SUBSET Workers, Delivery(j)!Abandon(gone), reclaims'[j] = reclaims[j]
      PROVE  /\ IsFiniteSet(Holders(j)')
             /\ Waiting(j)' + Cardinality(Holders(j)') <= 1 + reclaims'[j]
             /\ job'[j].attempts >= MaxAttempts =>
                   job'[j].attempts + Waiting(j)' + Cardinality(Retrying(j)')
                       <= MaxAttempts + reclaims'[j]
  <2>1. Holders(j)' = H \ gone /\ Retrying(j)' = R \ gone
    BY <1>8 DEF Delivery!Abandon, Holders, Retrying
  <2>2. Waiting(j)' = Waiting(j) /\ job'[j].attempts = job[j].attempts
    BY <1>8 DEF Delivery!Abandon, Waiting
  <2> QED  BY <1>1, <1>2, <1>8, <2>1, <2>2
<1> HIDE DEF H, R
<1> QED
  BY <1>3, <1>4, <1>5, <1>6, <1>7, <1>8, DeliveryStep DEF NotGivenBack

\* Attempts that are used up leave room for themselves.
LEMMA CountedBounds ==
    ASSUME Inv, Counted
    PROVE  AttemptsBounded
<1> SUFFICES ASSUME NEW j \in Jobs
             PROVE  job[j].attempts <= MaxAttempts + reclaims[j]
  BY DEF AttemptsBounded
<1>1. /\ Cardinality(Retrying(j)) \in Nat /\ Waiting(j) \in {0, 1}
      /\ reclaims[j] \in Nat /\ job[j].attempts \in Nat /\ MaxAttempts \in Nat
  BY CountFacts DEF Counted
<1> QED  BY <1>1 DEF Counted

\* A finished job that was never overrun has no worker left to mark it, and nothing
\* else a JobDelivery does would touch it.
LEMMA FinishedStep ==
    ASSUME Inv, [Next]_vars, NEW j \in Jobs, Finished(j), j \notin overrun
    PROVE  Finished(j)'
<1>1. {w \in Workers : doing[w] = j} = {}
  BY DEF Inv, OwnerUntilOverrun, Finished
<1>2. ~Delivery(j)!Enqueue /\ ~Delivery(j)!GiveBack
  BY DEF Finished, Delivery!Enqueue, Delivery!GiveBack
<1>3. \A w \in Workers :
          ~Delivery(j)!HandOut(w) /\ ~Delivery(j)!LookUp(w) /\ ~Delivery(j)!Settle(w)
  BY <1>1 DEF Finished, Delivery!HandOut, Delivery!LookUp, Delivery!Settle
<1>4. ASSUME NEW gone \in SUBSET Workers, Delivery(j)!Abandon(gone) PROVE Finished(j)'
  BY <1>4 DEF Finished, Delivery!Abandon
<1>5. UNCHANGED Delivery(j)!vars => Finished(j)'
  BY DEF Finished, Delivery!vars
<1> QED
  BY <1>2, <1>3, <1>4, <1>5, DeliveryStep DEF NotGivenBack

-----------------------------------------------------------------------------
\* The invariant holds in every reachable state.
LEMMA Invariance == Spec => []Inv
BY InitInv, NextInv, PTL DEF Spec

\* The job table and the workers keep their types.
THEOREM TypeCorrect == Spec => []TypeOK
<1>1. Inv => TypeOK
  BY DEF Inv
<1> QED
  BY <1>1, Invariance, PTL

\* As long as no lease of it was overrun, a job is running exactly when it has an owner and
\* a lease, so reclaim_expired can find it if its worker dies.
THEOREM LeaseAlwaysThere == Spec => []RunningHasLease
<1>1. Inv => RunningHasLease
  BY DEF Inv
<1> QED
  BY <1>1, Invariance, PTL

\* Two workers can only have the same job once its lease ran out under a live
\* one: until then the row names the worker that has it.
THEOREM ExclusiveUntilOverrun == Spec => []OwnerUntilOverrun
<1>1. Inv => OwnerUntilOverrun
  BY DEF Inv
<1> QED
  BY <1>1, Invariance, PTL

\* The attempts of a job exceed max_attempts by at most its reclaims.
THEOREM AttemptsNeverRunAway == Spec => []AttemptsBounded
<1>1. Inv /\ Counted => AttemptsBounded
  BY CountedBounds
<1>2. Inv /\ Inv' /\ Counted /\ [Next]_vars => Counted'
  BY CountedStep
<1> QED
  BY <1>1, <1>2, CountedInit, Invariance, PTL DEF Spec

\* A finished job that was never overrun stays finished.
THEOREM FinishedIsFinal == Spec => FinishedStays
<1>1. Inv /\ [Next]_vars =>
        [\A j \in Jobs : Finished(j) /\ j \notin overrun => Finished(j)']_vars
  BY FinishedStep
<1> QED
  BY <1>1, Invariance, PTL DEF Spec, FinishedStays

\* Each job of the table behaves as JobDelivery says, for any number of workers and jobs
\* and any lengths of the lease and the delay.
THEOREM ImplementsDelivery == Spec => RefinesDelivery
<1>1. Init => \A j \in Jobs : Delivery(j)!Init
  BY DeliveryInit
<1>2. Inv /\ [Next]_vars =>
        [\A j \in Jobs : [Delivery(j)!Next]_(Delivery(j)!vars)]_vars
  BY DeliveryStep DEF NotGivenBack, Delivery!Next
<1> QED
  BY <1>1, <1>2, Invariance, PTL DEF Spec, RefinesDelivery
=============================================================================
