---------------------------- MODULE AuditVerifier ----------------------------
(***************************************************************************)
(* The decision-ledger verifier: what AuditVerifier.verify_session demands *)
(* of the ledger of a session, recomputed from the stored outputs and from *)
(* the audit events, without trusting the recorded path.  The session has  *)
(* no feedback yet.                                                        *)
(***************************************************************************)
EXTENDS Orchestrator

\* _EXPECTED_STATE_PREFIXES.
ExpectedPrefix(path) ==
    <<"requested", "validated", "snapshotted", "reviewer_a", "baseline_recorded">>
      \o (CASE path = "a_only" -> << >>
            [] path = "ab_agreement" -> <<"reviewer_b", "comparing">>
            [] path = "cross_review_resolved" ->
                 <<"reviewer_b", "comparing", "cross_review">>
            [] path = "c_tie_broken" ->
                 <<"reviewer_b", "comparing", "cross_review",
                   "reviewer_c_independent", "reviewer_c_judging">>)
      \o <<"reviewer_adjudication">>

\* Every audited transition is legal, or an operator recovery.  The check that
\* result_recorded comes once and before the return is left to DecisionVerifies:
\* row and event of a result are one insert, and the row has to be there in
\* every state from the return on.
TraceIsLegal ==
    \A i \in 1 .. Len(trace) - 1 :
        \/ ValidTransition(trace[i], trace[i + 1])
        \/ ValidRecovery(trace[i], trace[i + 1])

\* The loop over the state trace: what is kept of its first n states.  A failed
\* cross review and the recovery that follows it are skipped together.
KeptStates(states) ==
    LET kept[n \in 0 .. Len(states)] ==
          IF n = 0 THEN << >>
          ELSE IF n > 1 /\ ValidRecovery(states[n - 1], states[n]) THEN kept[n - 2]
          ELSE Append(kept[n - 1], states[n])
    IN  kept

DecisionTrace == KeptStates(trace)[Len(trace)]

\* _EXPECTED_INVOCATIONS counts them; all of them have completed.
InvocationsVerify ==
    /\ Cardinality({k \in Keys : Exists(k)}) = Cardinality(InvocationsOf(result.path))
    /\ \A k \in Keys : Exists(k) => Completed(k)

\* _verify_a_only_expansion: the verifier's own rule for reviewer B, in which
\* the sample counts whenever no trigger has fired.
ExpansionRequired(r, a) == Triggered(r, a) \/ r.sampled

\* _verify_decision_route: the published path follows from the outputs.
RouteVerifies ==
    /\ result.path = "a_only" => ~ExpansionRequired(request, payload["a"])
    /\ result.path = "ab_agreement" => ~InitialRequires(request, payload)
    /\ result.path \in {"cross_review_resolved", "c_tie_broken"}
         => InitialRequires(request, payload)
    /\ result.path = "cross_review_resolved" => ~CrossRequires(payload)
    /\ result.path = "c_tie_broken" => CrossRequires(payload)
    /\ result.final = FinalAssessment(result.path, payload)

\* _verify_comparison_events: one event per round of the history, in order.
ComparisonsVerify ==
    /\ comparisons["independent"] = IF result.path = "a_only" THEN 0 ELSE 1
    /\ comparisons["cross_review"] =
         IF result.path \in {"cross_review_resolved", "c_tie_broken"} THEN 1 ELSE 0

\* verify_session, apart from the comparison events.
DecisionVerifies ==
    /\ result # NoDocument
    /\ TraceIsLegal
    /\ trace[Len(trace)] = state
    /\ DecisionTrace = ExpectedPrefix(result.path)
                         \o <<result.status, "result_returned">>
    /\ InvocationsVerify
    /\ RouteVerifies

VerifySession == DecisionVerifies /\ ComparisonsVerify

-----------------------------------------------------------------------------
(* Properties *)

\* Where the two rules for reviewer B part: the audit sample selects a session
\* that _should_invoke_b exempts from sampling because the request or the
\* recommendation is material, and the plan does not enable that trigger.
SampleDisputed ==
    /\ result.path = "a_only"
    /\ request.sampled
    /\ request.material \/ payload["a"] \in Material

\* When nobody else ran the session at the same time, however often its runner
\* was lost and started again, a returned review passes verify_session, unless
\* it is A's alone and the two rules for reviewer B disagree about it: then the
\* verifier refuses it, every time.
ReturnedReviewVerifies ==
    state = "result_returned" => (VerifySession <=> ~SampleDisputed)

\* With concurrent runners the trace, the invocations, the route and the
\* published assessment of a returned review still verify, with the same
\* exception and no other.
ReturnedDecisionVerifies ==
    state = "result_returned" => (DecisionVerifies <=> ~SampleDisputed)

\* "Every completed result has a verified decision ledger."  Two runners refute
\* it by a second comparison event, one runner by a disputed sample.
CompletedResultHasVerifiedLedger == state = "result_returned" => VerifySession

\* "provider or contract failure --> cross_review_failed": a cross review is
\* marked failed only after its provider failed or its output broke the
\* contract. Two runners refute it: the attempt numbers of the slower one are
\* refused, which _invoke handles as a failure.
OnlyProvidersFailCrossReviews ==
    [][\A k \in {"cross_a", "cross_b"} :
         status[k] = "pending" /\ status'[k] = "failed"
           => \E r \in Runners : /\ pc[r] = "fail" /\ key[r] = k
                                 /\ call[r].kind # "ok"]_vars

\* "Automatic reviews can resume from any legal partial state": a review that
\* is run again and again ends with its result or in a failed state.
EveryReviewSettles == <>Settled

\* "Automatic reviews can resume from any legal partial state": when a runner
\* was lost between record_result and the last transition, the next one
\* rebuilds the recorded document and can return it. The attempts of a late
\* second runner refute it.
RecordedResultCanBeReturned ==
    /\ state \in ResolvedStates
    /\ result # NoDocument
    /\ \A r \in Runners : pc[r] = "idle"
    => result.telemetry = attempt_count
=============================================================================
