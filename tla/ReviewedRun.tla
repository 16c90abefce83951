---------------------------- MODULE ReviewedRun ----------------------------
(***************************************************************************)
(* What the product promises about a run and the person who reviews it,    *)
(* with no workers, leases, workspaces or retries in sight: the agent      *)
(* moves the run along the transition table, stores a diff when it has one *)
(* to show, and stops at the gate; a person decides once, about the diff   *)
(* that is there; and only an approved diff is published.  RunLifecycle    *)
(* implements this up to the decision, RepairLoop in its middle, from the  *)
(* index to the gate, and Publishing from an approval on.                  *)
(***************************************************************************)
EXTENDS RunStates

CONSTANTS
    Diffs,      \* what can be shown for review
    Blocking,   \* those with a credential in them
    None        \* no diff, or no decision

VARIABLES
    state,      \* the run's state
    diff,       \* the latest diff
    approval,   \* the decision, with the diff it is about
    published   \* a pull request is on record

vars == <<state, diff, approval, published>>

Init ==
    /\ state = "CREATED"
    /\ diff = None
    /\ approval = None
    /\ published = FALSE

\* The agent moves on; what it has tested it shows.
Work ==
    /\ state \in WORKING_STATES
    /\ <<state, state'>> \in TransitionTable
    /\ IF state' = "VERIFYING" THEN diff' \in Diffs ELSE UNCHANGED diff
    /\ UNCHANGED <<approval, published>>

\* A person decides about the diff that is there, once.
Decide(decision) ==
    /\ state = "WAITING_FOR_APPROVAL"
    /\ approval = None
    /\ diff \in Diffs
    /\ approval' = [decision |-> decision, diff |-> diff]
    /\ UNCHANGED <<diff, published>>

Approve == diff \notin Blocking /\ Decide("approved") /\ UNCHANGED state

Reject == Decide("rejected") /\ state' = "FAILED"

RequestRevision == Decide("revision_requested") /\ state' = "PLANNING"

Approved == approval = [decision |-> "approved", diff |-> diff]

\* The pull request is opened and recorded: only of a diff that was approved as it is.
Publish ==
    /\ state = "WAITING_FOR_APPROVAL"
    /\ Approved
    /\ state' = "COMPLETED"
    /\ published' = TRUE
    /\ UNCHANGED <<diff, approval>>

\* The run fails, or its owner cancels it.
End ==
    /\ ~IsTerminal(state)
    /\ state' \in {"FAILED", "CANCELLED"}
    /\ UNCHANGED <<diff, approval, published>>

Next == Work \/ Approve \/ Reject \/ RequestRevision \/ Publish \/ End

Spec == Init /\ [][Next]_vars

\* The same run, observed from where its repository is cloned and indexed.
Prepared ==
    /\ state = "RETRIEVING_CONTEXT"
    /\ diff = None
    /\ approval = None
    /\ published = FALSE

PreparedSpec == Prepared /\ [][Next]_vars

\* The same run, observed from its approval on.
Handover ==
    /\ state = "WAITING_FOR_APPROVAL"
    /\ diff \in Diffs \ Blocking
    /\ Approved
    /\ published = FALSE

ApprovedSpec == Handover /\ [][Next]_vars
=============================================================================
