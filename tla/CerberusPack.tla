----------------------------- MODULE CerberusPack -----------------------------
(***************************************************************************)
(* The venture task pack: which submissions it accepts, what it makes of a *)
(* reviewer's output, and how it compares and merges two assessments.      *)
(*                                                                         *)
(* Texts are left out, except the length of the feedback, which is capped. *)
(* Distances are multiples of 1/VentureUnit, weights are hundredths.       *)
(***************************************************************************)
EXTENDS Integers, FiniteSets

\* default_config.
VentureConfig ==
    [allowed_verdicts |-> {"not_viable", "insufficient_information",
                           "needs_revision", "viable"},
     hard_triggers |-> {"verdict_polarity_conflict", "extreme_score_divergence"},
     tolerance |-> 25,
     extreme_score_gap |-> 3,
     min_total_words |-> 40,
     max_age |-> 24 * 90,
     max_feedback_words |-> 600]

ScoreDimensions == {"problem_clarity", "market_opportunity", "differentiation",
                    "feasibility", "team_capability", "risk_exposure"}

\* From the most to the least cautious verdict.
CautionOrder == [not_viable |-> 0, insufficient_information |-> 1,
                 needs_revision |-> 2, viable |-> 3]

VentureQualityOrder == [insufficient |-> 0, weak |-> 1, adequate |-> 2, strong |-> 3]
VentureRiskOrder == [low |-> 0, medium |-> 1, high |-> 2]

VentureUnit == 24

Least(order, x, y) == IF order[y] < order[x] THEN y ELSE x
Greatest(order, x, y) == IF order[x] < order[y] THEN y ELSE x
Lesser(x, y) == IF x < y THEN x ELSE y
Distance(x, y) == IF x < y THEN y - x ELSE x - y

-----------------------------------------------------------------------------
(* Requests *)

\* validate_binding, and evaluate_eligibility does not raise.
SubmissionAccepted(request) ==
    /\ request.allowed_recommendations \subseteq VentureConfig.allowed_verdicts
    /\ request.submitted_at <= request.due_at
    /\ request.total_words = request.evidence_words

\* A submission that is old, short or turned down at the gate is not reviewed.
SubmissionEligible(request) ==
    /\ request.due_at - request.submitted_at <= VentureConfig.max_age
    /\ request.total_words >= VentureConfig.min_total_words
    /\ ~request.gate_rejected

\* feedback_word_limit: a declared limit below 1 is none.
FeedbackWordLimit(request) ==
    IF request.max_feedback_words < 1 THEN VentureConfig.max_feedback_words
    ELSE Lesser(VentureConfig.max_feedback_words, request.max_feedback_words)

-----------------------------------------------------------------------------
(* Outputs *)

\* The model of an output, with its claims in the set given.
VentureAssessments(claims) ==
    [category : STRING, scores : [ScoreDimensions -> 1 .. 5],
     risk : DOMAIN VentureRiskOrder, evidence_quality : DOMAIN VentureQualityOrder,
     feedback : Nat, missing_evidence : SUBSET STRING, weaknesses : SUBSET STRING,
     strengths : SUBSET STRING, confidence : Int, claims : claims, material : BOOLEAN]

NormalizeVenture(a) == [a EXCEPT !.material = TRUE]

\* _validate_structured_claims.
VentureClaimsAreTraceable(request, a) ==
    /\ a.claims # {}
    /\ \A claim \in a.claims :
         claim.references # {} /\ claim.references \subseteq request.paths

\* validate_assessment.
VentureAssessmentValid(request, a) ==
    /\ VentureClaimsAreTraceable(request, a)
    /\ a.category \in VentureConfig.allowed_verdicts \cap request.allowed_recommendations
    /\ a.material
    /\ a.feedback <= FeedbackWordLimit(request)
    /\ a.category = "viable" => a.evidence_quality # "insufficient"
    /\ a.category = "insufficient_information" => a.missing_evidence # {}

\* validate_judgment: every claim is classified, once; without a winner the
\* resolution is a cautious one.
VentureJudgmentValid(request, j, resolution, claim_ids) ==
    /\ j.classified = claim_ids /\ claim_ids # {}
    /\ j.selected = "none" =>
         /\ VentureAssessmentValid(request, resolution)
         /\ j.verdict \in {"insufficient_evidence", "escalate"} =>
              resolution.category \in {"insufficient_information", "needs_revision"}

-----------------------------------------------------------------------------
(* compare_venture_assessments *)

ScoreGap(l, r, d) == Distance(l.scores[d], r.scores[d])

TotalGap(l, r) ==
      ScoreGap(l, r, "problem_clarity") + ScoreGap(l, r, "market_opportunity")
    + ScoreGap(l, r, "differentiation") + ScoreGap(l, r, "feasibility")
    + ScoreGap(l, r, "team_capability") + ScoreGap(l, r, "risk_exposure")

\* In hundredths of VentureUnit: verdict 0.4, scores 0.3, risk and quality 0.15.
VentureWeighted(l, r) ==
    (IF l.category = r.category THEN 0 ELSE 40 * VentureUnit)
      + 30 * TotalGap(l, r)
      + 15 * (VentureUnit \div 2)
           * Distance(VentureRiskOrder[l.risk], VentureRiskOrder[r.risk])
      + 15 * (VentureUnit \div 3)
           * Distance(VentureQualityOrder[l.evidence_quality],
                      VentureQualityOrder[r.evidence_quality])

VentureHardTriggers(l, r) ==
    { trigger \in VentureConfig.hard_triggers :
        CASE trigger = "verdict_polarity_conflict" ->
               {l.category, r.category} = {"viable", "not_viable"}
          [] trigger = "extreme_score_divergence" ->
               \E d \in ScoreDimensions : ScoreGap(l, r, d) >= VentureConfig.extreme_score_gap }

VentureMergeCompatible(l, r) == l.category = r.category

VentureRequiresCrossReview(l, r) ==
    \/ VentureHardTriggers(l, r) # {}
    \/ VentureWeighted(l, r) > VentureConfig.tolerance * VentureUnit
    \/ ~VentureMergeCompatible(l, r)

MergedScores(l, r) ==
    [d \in ScoreDimensions |->
        LET low == Lesser(l.scores[d], r.scores[d])
        IN  IF d = "risk_exposure" THEN l.scores[d] + r.scores[d] - low ELSE low]

\* Mutant of MergedVenture: both seats speak to the founder.
MergedVentureSpeakingTwice(l, r) ==
    [l EXCEPT !.claims = l.claims \cup r.claims,
              !.scores = MergedScores(l, r),
              !.strengths = l.strengths \cup r.strengths,
              !.weaknesses = l.weaknesses \cup r.weaknesses,
              !.feedback = l.feedback + r.feedback,
              !.material = TRUE,
              !.risk = Greatest(VentureRiskOrder, l.risk, r.risk),
              !.confidence = Lesser(l.confidence, r.confidence),
              !.evidence_quality =
                  Least(VentureQualityOrder, l.evidence_quality, r.evidence_quality),
              !.missing_evidence = l.missing_evidence \cup r.missing_evidence]

\* _merged_assessment: the seat with the more cautious verdict, A's on a tie,
\* carries its feedback.
MergedVenture(l, r) ==
    LET cautious == IF CautionOrder[l.category] <= CautionOrder[r.category] THEN l ELSE r
    IN  [l EXCEPT !.category = Least(CautionOrder, l.category, r.category),
                  !.claims = l.claims \cup r.claims,
                  !.scores = MergedScores(l, r),
                  !.strengths = l.strengths \cup r.strengths,
                  !.weaknesses = l.weaknesses \cup r.weaknesses,
                  !.feedback = cautious.feedback,
                  !.material = TRUE,
                  !.risk = Greatest(VentureRiskOrder, l.risk, r.risk),
                  !.confidence = Lesser(l.confidence, r.confidence),
                  !.evidence_quality =
                      Least(VentureQualityOrder, l.evidence_quality, r.evidence_quality),
                  !.missing_evidence = l.missing_evidence \cup r.missing_evidence]
=============================================================================
