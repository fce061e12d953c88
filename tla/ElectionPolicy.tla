--------------------------- MODULE ElectionPolicy ---------------------------
(***************************************************************************)
(* The pure rules every service consults: the election states, the table   *)
(* of allowed transitions, the states in which an action is not denied,    *)
(* and the voting window.  The services never tell the "requires ..."      *)
(* decisions apart except for a missing reason, so a decision is           *)
(* abstracted to "denied or not".                                          *)
(***************************************************************************)
EXTENDS Integers

PreStartStates == {"draft", "ready_for_review", "approved", "scheduled", "notice"}

ElectionState ==
  PreStartStates \cup
  {"open", "paused", "closed", "tallying", "pending_confirmation",
   "confirmed", "published", "archived", "invalidated"}

(***************************************************************************)
(* ALLOWED_ELECTION_TRANSITIONS: every state but the two terminal ones may *)
(* be invalidated, every pre-start state may be opened, the rest is the    *)
(* life cycle in order plus the pause loop.                                *)
(***************************************************************************)
AllowedTransitions ==
       {<<"draft", "ready_for_review">>, <<"ready_for_review", "draft">>,
        <<"ready_for_review", "approved">>, <<"approved", "scheduled">>,
        <<"scheduled", "notice">>, <<"open", "paused">>, <<"paused", "open">>,
        <<"open", "closed">>, <<"paused", "closed">>, <<"closed", "tallying">>,
        <<"tallying", "pending_confirmation">>,
        <<"pending_confirmation", "confirmed">>, <<"confirmed", "published">>}
  \cup (PreStartStates \X {"open"})
  \cup ((ElectionState \ {"archived", "invalidated"}) \X {"invalidated"})

CanTransition(from, to) == <<from, to>> \in AllowedTransitions

(***************************************************************************)
(* ELECTION_ACTION_POLICY, by action: the states that do not deny it.      *)
(***************************************************************************)
StatesAllowing ==
  [ editElectionInfo   |-> {"draft", "ready_for_review"},
    editQuestions      |-> {"draft", "ready_for_review"},
    editOptions        |-> {"draft", "ready_for_review"},
    editVoterRegistry  |-> {"draft", "ready_for_review"},
    sendInvitations    |-> {"approved", "scheduled", "notice", "open", "paused"},
    submitBallot       |-> {"open"},
    submitRevote       |-> {"open"},
    pauseElection      |-> {"open"},
    resumeElection     |-> {"paused"},
    closeElection      |-> {"open", "paused"},
    cancelElection     |-> PreStartStates,
    tallyResult        |-> {"closed"},
    confirmResult      |-> {"pending_confirmation"},
    publishResult      |-> {"confirmed"},
    requestCorrection  |-> {"published"},
    invalidateElection |-> {"open", "paused", "closed", "tallying",
                            "pending_confirmation", "confirmed", "published"},
    exportReport       |-> {"confirmed", "published", "archived", "invalidated"},
    viewAuditLog       |-> ElectionState ]

CanPerform(state, action) == state \in StatesAllowing[action]

IsVotingWindowOpen(state, endsAt, now) == state = "open" /\ now <= endsAt
=============================================================================
