---------------------------- MODULE PanelDecision ----------------------------
(***************************************************************************)
(* One review as the two task packs decide it, from the request to the     *)
(* status of the result: intake validation, normalization and validation   *)
(* of every reviewer output, comparison, merge, judgment and the contract  *)
(* check of the result.  Orchestrator has the same path with concurrent    *)
(* runners and crashes, and takes the decisions of a pack as constants;    *)
(* here the decisions are the packs' own and the path is sequential.       *)
(*                                                                         *)
(* Reviewers are free to answer anything of Drafts, the judge anything of  *)
(* Judgments.  The code that decides uses of the first round, once it has  *)
(* been compared, only whether a cross reviewer classified every claim of  *)
(* its peer, and of reviewer C's own assessment only its claims; the rest  *)
(* is dropped.  The plan asks for reviewer B on any materiality.           *)
(***************************************************************************)
EXTENDS ChimeraPack, CerberusPack

CONSTANTS
    Documents,       \* request documents that satisfy the JSON schema
    Drafts(_),       \* what a reviewer may answer to a document
    Resolutions(_),  \* what the judge may resolve a document with
    Judgments,       \* verdict, selected slot and coverage of a judgment
    AutoResolve      \* auto_resolve_enabled of the plan revision

VARIABLES
    request,         \* the document under review
    stage,           \* what the session does next, or how it ended
    pair,            \* slot -> its assessment of the current round
    claim_ids,       \* the claims of reviewer C's own assessment
    path,            \* how the final assessment was reached
    result           \* final assessment and status of the result
vars == <<request, stage, pair, claim_ids, path, result>>

Marketing == "marketing-ads/v1"

Ended == {"refused", "stale_or_ineligible_evidence", "failed", "result_refused", "returned"}
Reviewing == {"A", "B", "cross A", "cross B", "C"}
Stages == Ended \cup Reviewing \cup {"intake", "route", "compare", "cross compare", "judge"}
Paths == {"a_only", "ab_agreement", "cross_review_resolved", "c_tie_broken"}

\* The reviewer, and the stage after, of each reviewing stage.
SlotOf == [s \in Reviewing |->
    CASE s \in {"A", "cross A"} -> "A" [] s \in {"B", "cross B"} -> "B" [] s = "C" -> "C"]
AfterReview == [s \in Reviewing |->
    CASE s = "A" -> "route" [] s = "B" -> "compare" [] s = "cross A" -> "cross B"
      [] s = "cross B" -> "cross compare" [] s = "C" -> "judge"]

-----------------------------------------------------------------------------
(* The pack of a document, PackRegistry.for_document *)

IsMarketing(doc) == doc.task_pack_ref = Marketing

\* A document has the fields of its schema, an answer those of its model.
Outputs(doc, claims) ==
    IF IsMarketing(doc) THEN Assessments(claims) ELSE VentureAssessments(claims)

ASSUME PanelConstants ==
    /\ None \notin Int /\ None \notin Paths
    /\ \A doc \in Documents :
         /\ Drafts(doc) \cup Resolutions(doc) \subseteq Outputs(doc, Seq(SUBSET STRING))
         /\ IsMarketing(doc) =>
              /\ doc.tracking_health \in TrackingHealth
              /\ doc.optimization_eligible \in BOOLEAN
              /\ doc.primary_conversion \in STRING \cup {None}
    /\ \A j \in Judgments : j.selected \in {"A", "B", "none"}

Accepted(doc) ==
    IF IsMarketing(doc) THEN RequestAccepted(doc) ELSE SubmissionAccepted(doc)

Eligible(doc) ==
    IF IsMarketing(doc) THEN ReviewEligible(doc) ELSE SubmissionEligible(doc)

Normalize(doc, a) ==
    IF IsMarketing(doc) THEN NormalizeAssessment(doc, a) ELSE NormalizeVenture(a)

Valid(doc, a) ==
    IF IsMarketing(doc) THEN AssessmentValid(doc, a) ELSE VentureAssessmentValid(doc, a)

ValidJudgment(doc, j, resolution, ids) ==
    IF IsMarketing(doc) THEN JudgmentValid(doc, j, resolution, ids)
    ELSE VentureJudgmentValid(doc, j, resolution, ids)

RequiresReview(doc, l, r, failed_goal) ==
    IF IsMarketing(doc) THEN ComparisonRequiresCrossReview(l, r, failed_goal)
    ELSE VentureRequiresCrossReview(l, r)

Merged(doc, l, r) ==
    IF IsMarketing(doc) THEN MergedAssessment(l, r) ELSE MergedVenture(l, r)

\* materiality of the request and of a recommendation: every venture is material.
MaterialRequest(doc) == IsMarketing(doc) => RequestMaterial(doc)
MaterialRecommendation(doc, a) == IsMarketing(doc) => RecommendationMateriality(a)
Resolvable(doc, a) == IsMarketing(doc) /\ CanAutoResolve(a)

\* validate_result of the pack, on what the document has of the final assessment.
\* The correlation with the request, and that reviewer C's own assessment comes
\* before its judgment among the invocations, are not part of it.
ResultAccepted(doc, final, how, status) ==
    /\ final.category \in doc.allowed_recommendations
    /\ IF IsMarketing(doc)
       THEN /\ ActionTypes(final) \subseteq doc.allowed_actions
            /\ doc.optimization_eligible \/ final.category # "operational_change"
            /\ status = "auto_resolved" =>
                 /\ final.category \in {"observe", "collect_more_data"}
                 /\ final.actions = << >> /\ final.risk = "low"
                 /\ how # "c_tie_broken"
       ELSE status # "auto_resolved"

-----------------------------------------------------------------------------
(* Steps *)

\* assign_assessment_claim_ids: an identifier is the hash of the invocation and
\* the ordinal of the claim.
AssignClaimIds(invocation, draft) ==
    [draft EXCEPT !.claims =
        {[claim_id |-> <<invocation, i>>, references |-> draft.claims[i]] :
            i \in DOMAIN draft.claims}]

IdsOf(a) == {claim.claim_id : claim \in a.claims}

Init ==
    /\ request \in Documents
    /\ stage = "intake"
    /\ pair = [s \in {"A", "B"} |-> None]
    /\ claim_ids = {}
    /\ path = None
    /\ result = None

\* ReviewIntakeService.accept: an exception, an ineligible session, or a snapshot.
Intake ==
    /\ stage = "intake"
    /\ stage' = IF ~Accepted(request) THEN "refused"
                ELSE IF ~Eligible(request) THEN "stale_or_ineligible_evidence"
                ELSE "A"
    /\ UNCHANGED <<request, pair, claim_ids, path, result>>

\* _invoke of a reviewer that answers with a draft; a cross reviewer classifies
\* all claims of its peer or not.  An output that is not valid fails the review.
Review(draft, complete) ==
    LET slot == SlotOf[stage]
        a    == Normalize(request, AssignClaimIds(stage, draft))
        ok   == /\ Valid(request, a)
                /\ stage \in {"cross A", "cross B"} => complete
    IN  /\ stage \in Reviewing
        /\ stage' = IF ok THEN AfterReview[stage] ELSE "failed"
        /\ pair' = IF ok /\ slot # "C" THEN [pair EXCEPT ![slot] = a] ELSE pair
        /\ claim_ids' = IF ok /\ slot = "C" THEN IdsOf(a) ELSE claim_ids
        /\ UNCHANGED <<request, path, result>>

\* build_review_result, and the transition its status asks for.
Finish(how, final) ==
    LET status == IF /\ AutoResolve
                     /\ how \in {"a_only", "ab_agreement"}
                     /\ Resolvable(request, final)
                  THEN "auto_resolved" ELSE "caller_decision_required"
    IN  /\ path' = how
        /\ result' = [final |-> final, status |-> status]
        /\ stage' = IF ResultAccepted(request, final, how, status)
                    THEN "returned" ELSE "result_refused"

\* _should_invoke_b.
Route ==
    /\ stage = "route"
    /\ IF request.asks_b \/ MaterialRequest(request)
            \/ MaterialRecommendation(request, pair["A"])
       THEN stage' = "B" /\ UNCHANGED <<path, result>>
       ELSE Finish("a_only", pair["A"])
    /\ UNCHANGED <<request, pair, claim_ids>>

\* The comparison of round 1: agreement is merged, else both reviewers see the
\* claims of the other.
Compare ==
    /\ stage = "compare"
    /\ IF RequiresReview(request, pair["A"], pair["B"], request.failed_goal)
       THEN /\ stage' = "cross A"
            /\ pair' = [s \in {"A", "B"} |-> None]
            /\ UNCHANGED <<path, result>>
       ELSE /\ Finish("ab_agreement", Merged(request, pair["A"], pair["B"]))
            /\ UNCHANGED pair
    /\ UNCHANGED <<request, claim_ids>>

\* Round 2 is compared without the failed-goal trigger; what is still in
\* conflict goes to reviewer C.
CrossCompare ==
    /\ stage = "cross compare"
    /\ IF RequiresReview(request, pair["A"], pair["B"], FALSE)
       THEN stage' = "C" /\ UNCHANGED <<path, result>>
       ELSE Finish("cross_review_resolved", Merged(request, pair["A"], pair["B"]))
    /\ UNCHANGED <<request, pair, claim_ids>>

\* Reviewer C judges: the claims of its own assessment and of both cross-review
\* responses are there to classify.  It selects one or resolves by itself.
Judge(j, draft) ==
    LET resolution == Normalize(request, AssignClaimIds("judge", draft))
        available  == IdsOf(pair["A"]) \cup IdsOf(pair["B"]) \cup claim_ids
    IN  /\ stage = "judge"
        /\ IF ValidJudgment(request,
                            [verdict |-> j.verdict, selected |-> j.selected,
                             classified |-> IF j.complete THEN available ELSE claim_ids],
                            resolution, available)
           THEN Finish("c_tie_broken",
                       IF j.selected = "none" THEN resolution ELSE pair[j.selected])
           ELSE stage' = "failed" /\ UNCHANGED <<path, result>>
        /\ UNCHANGED <<request, pair, claim_ids>>

\* A review that has ended stays as it is.
Over == stage \in Ended /\ UNCHANGED vars

Next ==
    \/ Intake
    \/ /\ stage \in Reviewing
       /\ \E draft \in Drafts(request),
             complete \in IF stage \in {"cross A", "cross B"} THEN BOOLEAN ELSE {TRUE} :
             Review(draft, complete)
    \/ Route
    \/ Compare
    \/ CrossCompare
    \/ \E j \in Judgments :
         \E draft \in IF j.selected = "none" THEN Resolutions(request) ELSE {None} :
             Judge(j, draft)
    \/ Over

Spec == Init /\ [][Next]_vars

-----------------------------------------------------------------------------
(* Properties *)

Merges == {"ab_agreement", "cross_review_resolved"}

\* The assessment a review ends with satisfies every rule a reviewer's own
\* answer has to satisfy.  A merged assessment is never validated by the code
\* (compare_assessments and _merged_assessment hand it to the result as it is),
\* so this is up to the merge: its materiality, its change limit, the feedback
\* cap of the caller, the quality behind a viable verdict.
FinalIsValid == stage = "returned" => Valid(request, result.final)

NoStronger(a, m) ==
    /\ \A i \in DOMAIN m.actions :
         \E j \in DOMAIN a.actions :
             /\ KeyOf(a.actions[j]) = KeyOf(m.actions[i])
             /\ a.actions[j].magnitude # None =>
                  /\ m.actions[i].magnitude # None
                  /\ m.actions[i].magnitude <= a.actions[j].magnitude
             /\ m.actions[i].confidence <= a.actions[j].confidence
    /\ a.review_after_hours # None =>
         m.review_after_hours # None /\ m.review_after_hours <= a.review_after_hours

NoMoreFavourable(a, m) ==
    /\ CautionOrder[m.category] <= CautionOrder[a.category]
    /\ \A d \in ScoreDimensions \ {"risk_exposure"} : m.scores[d] <= a.scores[d]
    /\ m.scores["risk_exposure"] >= a.scores["risk_exposure"]
    /\ a.weaknesses \subseteq m.weaknesses

NoBolder(doc, a, m) ==
    /\ RiskOrder[m.risk] >= RiskOrder[a.risk]
    /\ QualityOrder[m.evidence_quality] <= QualityOrder[a.evidence_quality]
    /\ m.confidence <= a.confidence
    /\ a.material => m.material
    /\ a.claims \subseteq m.claims
    /\ a.missing_evidence \subseteq m.missing_evidence
    /\ IF IsMarketing(doc) THEN NoStronger(a, m) ELSE NoMoreFavourable(a, m)

\* Two reviewers who agree within tolerance are merged to the more cautious of
\* both on every axis (within_tolerance_merge of the marketing profile, the
\* docstring of the venture comparator), and the concerns of either are kept:
\* nothing in the result is bolder than what one of the two would have signed.
MergeIsCautious ==
    path \in Merges =>
        \A s \in {"A", "B"} : NoBolder(request, pair[s], result.final)

\* A review of unhealthy, partial or insufficient evidence never returns an
\* experiment, a change or an optimizing action, whichever of the reviewers and
\* the judge proposed it and whatever eligibility the caller declared
\* (_evaluate_eligibility, normalize_assessment and validate_assessment have to
\* work together for it).
IneligibleEvidenceNeverOptimizes ==
    /\ stage = "returned" /\ IsMarketing(request)
    /\ \/ request.tracking_health = "unhealthy"
       \/ request.is_partial
       \/ request.quality_label = "insufficient"
    => /\ result.final.category \notin {"experiment", "operational_change"}
       /\ ActionTypes(result.final) \subseteq MarketingAds.non_optimization

\* The result of a panel that completed passes the contract check of its pack.
\* build_review_result raises otherwise, after every reviewer has been paid for
\* and with the session in reviewer_adjudication: each later run would rebuild
\* the same document and raise again.
CompletedPanelReturns == stage # "result_refused"
=============================================================================
