---------------------------- MODULE ReviewStates ----------------------------
(***************************************************************************)
(* The legal states of a review session and the transitions between them:  *)
(* the tables of orchestration/state_machine.py.  transition_session, the  *)
(* recovery of a cross review and the decision-ledger verifier all consult *)
(* these tables.                                                           *)
(***************************************************************************)

NormalTransitions ==
    { <<"requested", "validated">>,
      <<"validated", "snapshotted">>,
      <<"snapshotted", "reviewer_a">>,
      <<"snapshotted", "awaiting_evidence">>,
      <<"reviewer_a", "baseline_recorded">>,
      <<"baseline_recorded", "reviewer_b">>,
      <<"baseline_recorded", "reviewer_adjudication">>,
      <<"reviewer_b", "comparing">>,
      <<"comparing", "cross_review">>,
      <<"comparing", "reviewer_adjudication">>,
      <<"cross_review", "reviewer_c_independent">>,
      <<"cross_review", "reviewer_adjudication">>,
      <<"reviewer_c_independent", "reviewer_c_judging">>,
      <<"reviewer_c_judging", "reviewer_adjudication">>,
      <<"reviewer_adjudication", "auto_resolved">>,
      <<"reviewer_adjudication", "caller_decision_required">>,
      <<"auto_resolved", "result_returned">>,
      <<"caller_decision_required", "result_returned">>,
      <<"result_returned", "feedback_pending">>,
      <<"feedback_pending", "evaluated">> }

FailureTransitions ==
    { <<"requested", "invalid_request">>,
      <<"validated", "invalid_request">>,
      <<"snapshotted", "stale_or_ineligible_evidence">>,
      <<"reviewer_a", "reviewer_a_failed">>,
      <<"reviewer_b", "reviewer_b_failed">>,
      <<"cross_review", "cross_review_failed">>,
      <<"reviewer_c_independent", "reviewer_c_failed">>,
      <<"reviewer_c_judging", "reviewer_c_failed">>,
      <<"auto_resolved", "result_delivery_failed">>,
      <<"caller_decision_required", "result_delivery_failed">> }

TerminalStates ==
    {"evaluated", "invalid_request", "stale_or_ineligible_evidence",
     "reviewer_a_failed", "reviewer_b_failed", "cross_review_failed",
     "reviewer_c_failed", "awaiting_evidence", "result_delivery_failed",
     "cancelled"}

WorkflowStates ==
    {"requested", "validated", "snapshotted", "reviewer_a",
     "baseline_recorded", "reviewer_b", "comparing", "cross_review",
     "reviewer_c_independent", "reviewer_c_judging", "reviewer_adjudication",
     "auto_resolved", "caller_decision_required", "result_returned",
     "feedback_pending"}

ReviewStateSet == WorkflowStates \cup TerminalStates

\* Mutant of ValidTransition: staying in a state counts as a transition.
ValidTransitionOrNone(source, target) ==
    /\ source \notin TerminalStates
    /\ \/ <<source, target>> \in NormalTransitions \cup FailureTransitions
       \/ target \in {source, "cancelled"}

\* allowed_targets / validate_transition.
ValidTransition(source, target) ==
    /\ source \notin TerminalStates
    /\ \/ <<source, target>> \in NormalTransitions \cup FailureTransitions
       \/ target = "cancelled"

\* validate_recovery_transition.
ValidRecovery(source, target) ==
    source = "cross_review_failed" /\ target = "cross_review"
=============================================================================
