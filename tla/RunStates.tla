------------------------------ MODULE RunStates ------------------------------
(***************************************************************************)
(* The state machine of a run: the states, the transition table and the    *)
(* predicates over it, as `backend/app/agent/states.py` defines them.      *)
(***************************************************************************)

TERMINAL_STATES == {"COMPLETED", "FAILED", "CANCELLED"}

HUMAN_GATE_STATES == {"WAITING_FOR_PLAN_REVIEW", "WAITING_FOR_APPROVAL"}

\* States in which the agent, not a human and not nobody, moves the run.
WORKING_STATES ==
    {"CREATED", "CLONING_REPOSITORY", "ANALYZING_ISSUE",
     "EXPLORING_REPOSITORY", "INDEXING_REPOSITORY", "RETRIEVING_CONTEXT",
     "PLANNING", "IMPLEMENTING", "TESTING", "ANALYZING_FAILURE", "REVISING",
     "VERIFYING", "PR_CREATED"}

RunState == WORKING_STATES \cup HUMAN_GATE_STATES \cup TERMINAL_STATES

\* _TRANSITIONS, as the set of <<current, target>> pairs it lists.
TransitionTable ==
    {<<"CREATED", "CLONING_REPOSITORY">>,
     <<"CLONING_REPOSITORY", "ANALYZING_ISSUE">>,
     <<"ANALYZING_ISSUE", "EXPLORING_REPOSITORY">>,
     <<"EXPLORING_REPOSITORY", "INDEXING_REPOSITORY">>,
     <<"INDEXING_REPOSITORY", "RETRIEVING_CONTEXT">>,
     <<"RETRIEVING_CONTEXT", "PLANNING">>,
     <<"PLANNING", "WAITING_FOR_PLAN_REVIEW">>,
     <<"PLANNING", "IMPLEMENTING">>,
     <<"WAITING_FOR_PLAN_REVIEW", "IMPLEMENTING">>,
     <<"WAITING_FOR_PLAN_REVIEW", "PLANNING">>,
     <<"IMPLEMENTING", "TESTING">>,
     <<"TESTING", "VERIFYING">>,
     <<"TESTING", "ANALYZING_FAILURE">>,
     <<"ANALYZING_FAILURE", "RETRIEVING_CONTEXT">>,
     <<"ANALYZING_FAILURE", "REVISING">>,
     <<"REVISING", "TESTING">>,
     <<"VERIFYING", "WAITING_FOR_APPROVAL">>,
     <<"VERIFYING", "ANALYZING_FAILURE">>,
     <<"WAITING_FOR_APPROVAL", "PR_CREATED">>,
     <<"WAITING_FOR_APPROVAL", "PLANNING">>,
     <<"PR_CREATED", "COMPLETED">>}

\* FAILED and CANCELLED are reachable from every state that is not terminal.
AllowedTargets(current) ==
    {target \in RunState :
        /\ current \notin TERMINAL_STATES
        /\ \/ <<current, target>> \in TransitionTable
           \/ target \in {"FAILED", "CANCELLED"}}

CanTransition(current, target) == target \in AllowedTargets(current)

IsTerminal(state) == state \in TERMINAL_STATES

AwaitsHuman(state) == state \in HUMAN_GATE_STATES
==============================================================================
