---------------------------- MODULE JobDelivery ----------------------------
(***************************************************************************)
(* What the queue promises about one job, with no clock, lease or other    *)
(* job in sight: it is handed out, again whenever it is given back, and    *)
(* whoever has it may settle it, however late.  At-least-once delivery, no *)
(* more: it is given back without asking who has it, and several may.  It  *)
(* fails only once its attempts are used up, but it may be queued again    *)
(* by somebody who saw attempts left that others have used since.          *)
(*                                                                         *)
(* JobQueue implements this for each of its jobs, and the jobs of          *)
(* RunLifecycle and Publishing, which have neither clock nor lease, do     *)
(* nothing else.                                                           *)
(***************************************************************************)
EXTENDS Naturals

CONSTANTS
    Workers,       \* those it may be handed to
    MaxAttempts    \* Job.max_attempts

VARIABLES
    status,        \* of the job
    attempts,      \* number of times it was handed out
    working,       \* those who have it and have not settled it
    retrying       \* those of them who have seen attempts left and will queue it again

vars == <<status, attempts, working, retrying>>

Init ==
    /\ status \in {"absent", "queued"}
    /\ attempts = 0
    /\ working = {}
    /\ retrying = {}

Enqueue ==
    /\ status = "absent"
    /\ status' = "queued"
    /\ UNCHANGED <<attempts, working, retrying>>

\* Somebody who does not have it gets it.
HandOut(w) ==
    /\ status = "queued"
    /\ w \notin working
    /\ status' = "running"
    /\ attempts' = attempts + 1
    /\ working' = working \cup {w}
    /\ UNCHANGED retrying

\* Its lease has run out, whether or not somebody is at work.
GiveBack ==
    /\ status = "running"
    /\ status' = "queued"
    /\ UNCHANGED <<attempts, working, retrying>>

\* Somebody who failed at it finds attempts left.
LookUp(w) ==
    /\ w \in working
    /\ attempts < MaxAttempts
    /\ retrying' = retrying \cup {w}
    /\ UNCHANGED <<status, attempts, working>>

\* One of those who have it is done, whatever became of the job meanwhile.
Settle(w) ==
    /\ w \in working
    /\ \/ status' = "succeeded"
       \/ status' = "queued" /\ w \in retrying
       \/ status' = "failed" /\ attempts >= MaxAttempts
    /\ working' = working \ {w}
    /\ retrying' = retrying \ {w}
    /\ UNCHANGED attempts

\* Some of those who have it die or leave it as it is, and nobody is told.
Abandon(gone) ==
    /\ working' = working \ gone
    /\ retrying' = retrying \ gone
    /\ UNCHANGED <<status, attempts>>

Next ==
    \/ Enqueue
    \/ \E w \in Workers : HandOut(w) \/ LookUp(w) \/ Settle(w)
    \/ GiveBack
    \/ \E gone \in SUBSET Workers : Abandon(gone)

Spec == Init /\ [][Next]_vars
=============================================================================
