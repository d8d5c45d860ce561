----------------------------- MODULE ReviewRoute -----------------------------
(***************************************************************************)
(* What a review session asks a task pack about the outputs of reviewers.  *)
(* An assessment is opaque; the pack's decisions on it are constants: is a *)
(* recommendation material, does a pair require cross review, what do two  *)
(* compatible assessments merge to, may the final one resolve by itself.   *)
(***************************************************************************)
CONSTANTS
    Assessments,         \* validated reviewer assessments
    NoPayload,           \* assessment_payload IS NULL
    Requests,            \* the requests under review, as routing facts
    Answers,             \* what the reviewer of each invocation may answer
    Material,            \* assessments with a material recommendation
    Conflicts,           \* pairs outside tolerance, hard-triggered or unmergeable
    Merge,               \* merged_assessment of a pair that agrees
    AutoResolvable,      \* can_auto_resolve
    AutoResolveEnabled   \* auto_resolve_enabled of the plan revision

\* Reviewer invocations of a session: (slot, stage, round).
Keys == {"a", "b", "cross_a", "cross_b", "c", "judge"}

\* A judgment selects the cross-review assessment of A or of B, or resolves
\* with an assessment of its own.
Judgments == {"A", "B"} \cup Assessments

PayloadsOf(k) == IF k = "judge" THEN Judgments ELSE Assessments

\* What a plan revision may let call for reviewer B (PanelExpansion).
ExpansionTriggers == {"failed_goal", "request_material", "recommendation_material"}

\* The facts that route a review: what set it off, whether the request is
\* material, whether the hash of the session is below the plan's sample rate,
\* and the triggers the plan revision of the session enables.
RequestFacts ==
    [kind : {"scheduled_a", "scheduled_b", "failed_goal", "manual"},
     material : BOOLEAN, sampled : BOOLEAN, enabled : SUBSET ExpansionTriggers]

ASSUME ReviewRouteConstants ==
    /\ Requests \subseteq RequestFacts
    /\ \A k \in Keys : Answers[k] \subseteq PayloadsOf(k)
    /\ NoPayload \notin Assessments \cup {"A", "B"}
    /\ {"A", "B"} \cap Assessments = {}
    /\ Material \subseteq Assessments
    /\ Conflicts \subseteq Assessments \X Assessments
    /\ Merge \in [Assessments \X Assessments -> Assessments]
    /\ AutoResolvable \subseteq Assessments
    /\ AutoResolveEnabled \in BOOLEAN

\* The triggers of reviewer B, the audit sample apart.
Triggered(request, a) ==
    \/ request.kind = "scheduled_b"
    \/ request.kind = "failed_goal" /\ "failed_goal" \in request.enabled
    \/ request.material /\ "request_material" \in request.enabled
    \/ a \in Material /\ "recommendation_material" \in request.enabled

\* _should_invoke_b: only what is not material at all is sampled.
ExpandsToB(request, a) ==
    \/ Triggered(request, a)
    \/ ~request.material /\ a \notin Material /\ request.sampled

\* compare(...).requires_cross_review.
RequiresCrossReview(left, right, failed_goal) ==
    failed_goal \/ <<left, right>> \in Conflicts

InitialRequires(request, output) ==
    RequiresCrossReview(output["a"], output["b"], request.kind = "failed_goal")

\* Round 2 is compared without the failed-goal trigger.
CrossRequires(output) ==
    RequiresCrossReview(output["cross_a"], output["cross_b"], FALSE)

JudgedFinal(output) ==
    IF output["judge"] = "A" THEN output["cross_a"]
    ELSE IF output["judge"] = "B" THEN output["cross_b"]
    ELSE output["judge"]

\* The final assessment of each decision path.
FinalAssessment(path, output) ==
    IF path = "a_only" THEN output["a"]
    ELSE IF path = "ab_agreement" THEN Merge[<<output["a"], output["b"]>>]
    ELSE IF path = "cross_review_resolved"
         THEN Merge[<<output["cross_a"], output["cross_b"]>>]
    ELSE JudgedFinal(output)

\* The status build_review_result gives a result.  Hard triggers do not reach
\* the two paths that may resolve by themselves.
ResultStatus(path, final) ==
    IF /\ AutoResolveEnabled
       /\ path \in {"a_only", "ab_agreement"}
       /\ final \in AutoResolvable
    THEN "auto_resolved"
    ELSE "caller_decision_required"
=============================================================================
