----------------------------- MODULE ChimeraPack -----------------------------
(***************************************************************************)
(* The marketing task pack: which requests it accepts, what it makes of a  *)
(* reviewer's output, and how it compares and merges two assessments.      *)
(*                                                                         *)
(* Numbers of the code that are fractions are integers here: a distance of *)
(* 1.0 is Unit, weights and percentages are hundredths.  A division is     *)
(* exact when its denominator divides Unit times its numerator, which the  *)
(* inputs of the runs see to.  Texts are left out; lists in which only     *)
(* membership counts are sets.  Reviewers use the schema assessment-v2.    *)
(***************************************************************************)
EXTENDS Integers, Sequences, FiniteSets

CONSTANT None        \* a field that is null

Unit == 12

\* contracts/profiles/marketing-ads.v1.json.
Directions ==
    [pause_creative |-> "decrease", retain_creative |-> "hold",
     collect_more_data |-> "observe", diagnose_tracking |-> "diagnose",
     freeze_scope |-> "freeze", propose_experiment |-> "experiment",
     budget_increase |-> "increase", budget_decrease |-> "decrease",
     creative_rotation |-> "change", audience_change |-> "change"]

MarketingAds ==
    [allowed_action_types |-> DOMAIN Directions,
     non_optimization |-> {"collect_more_data", "diagnose_tracking", "freeze_scope"},
     opposites |-> {{"increase", "decrease"}},
     categories |-> {"observe", "collect_more_data", "experiment",
                     "operational_change", "freeze", "tracking_or_data_problem"},
     material_categories |-> {"experiment", "operational_change", "freeze"},
     material_actions |-> {"pause_creative", "freeze_scope", "propose_experiment",
                           "budget_increase", "budget_decrease",
                           "creative_rotation", "audience_change"},
     material_risks |-> {"medium", "high"},
     max_age |-> 24,
     tolerance |-> 25,
     hard_triggers |-> {"tracking_health_conflict",
                        "goal_or_primary_conversion_conflict",
                        "opposite_action_direction", "incompatible_target_scope",
                        "evidence_eligibility_conflict", "action_outside_ontology",
                        "failed_goal_movement"}]

QualityOrder == [insufficient |-> 0, weak |-> 1, adequate |-> 2, strong |-> 3]
RiskOrder == [low |-> 0, medium |-> 1, high |-> 2]
UrgencyOrder == [low |-> 0, normal |-> 1, high |-> 2]
ImpactOrder == [negative |-> 0, neutral |-> 1, uncertain |-> 2, positive |-> 3]

TrackingHealth == {"healthy", "degraded", "unhealthy"}

Gap(x, y) == IF x < y THEN y - x ELSE x - y
Larger(x, y) == IF x < y THEN y ELSE x
Smaller(x, y) == IF x < y THEN x ELSE y
Magnitude(x) == Larger(x, -x)

\* max and min of two names by their order; the first one on a tie.
HighestBy(order, x, y) == IF order[x] < order[y] THEN y ELSE x
LowestBy(order, x, y) == IF order[y] < order[x] THEN y ELSE x

Elements(seq) == {seq[i] : i \in DOMAIN seq}

-----------------------------------------------------------------------------
(* Requests *)

\* _validate_contract_binding.
ContractBound(request) ==
    /\ request.allowed_actions \subseteq MarketingAds.allowed_action_types
    /\ request.allowed_recommendations \subseteq MarketingAds.categories

\* _evaluate_eligibility: what makes the evidence unfit for optimization.
Reasons(request) ==
    (IF request.tracking_health = "unhealthy" THEN {"tracking_unhealthy"} ELSE {})
      \cup (IF request.is_partial THEN {"partial_evidence"} ELSE {})
      \cup (IF request.quality_label = "insufficient" THEN {"insufficient_evidence"} ELSE {})

\* Mutant of RequestAccepted: the declared eligibility is taken on trust.
RequestAcceptedOnTrust(request) ==
    /\ ContractBound(request)
    /\ request.period_start <= request.period_end
    /\ request.period_end <= request.observed_at
    /\ request.observed_at <= request.due_at

\* validate_request does not raise: the instants are in order and the declared
\* eligibility is the one that follows from the quality.
RequestAccepted(request) ==
    /\ ContractBound(request)
    /\ request.period_start <= request.period_end
    /\ request.period_end <= request.observed_at
    /\ request.observed_at <= request.due_at
    /\ request.optimization_eligible => Reasons(request) = {}

ReviewEligible(request) ==
    request.due_at - request.observed_at <= MarketingAds.max_age

\* A deviation of the cost per acquisition from its target, in hundredths.
RequestMaterial(request) ==
    /\ request.impressions >= request.min_impressions
    /\ request.spend >= request.min_spend
    /\ request.cpa # None /\ request.target_cpa \notin {None, 0}
    /\ Gap(request.cpa, request.target_cpa) * 100
         >= request.cpa_deviation_pct * request.target_cpa

-----------------------------------------------------------------------------
(* Outputs *)

\* The models of an output; what may be null is None.  A draft has a list of
\* claims, an assessment the set of them with their identifiers.
RecommendedActions ==
    [type : STRING, target_id : STRING, magnitude : Int \cup {None},
     urgency : DOMAIN UrgencyOrder, confidence : Int]

Assessments(claims) ==
    [category : STRING, actions : Seq(RecommendedActions), experiment : STRING \cup {None},
     risk : DOMAIN RiskOrder, evidence_quality : DOMAIN QualityOrder,
     expected_goal_impact : DOMAIN ImpactOrder \cup {None},
     missing_evidence : SUBSET STRING, review_after_hours : Int \cup {None},
     confidence : Int, claims : claims, material : BOOLEAN,
     tracking_health : TrackingHealth \cup {None}, optimization_eligible : BOOLEAN \cup {None},
     primary_conversion : STRING \cup {None}]

ActionTypes(a) == {x.type : x \in Elements(a.actions)}
Targets(a) == {x.target_id : x \in Elements(a.actions)}

\* recommendation_materiality.
RecommendationMateriality(a) ==
    \/ a.category \in MarketingAds.material_categories
    \/ a.risk \in MarketingAds.material_risks
    \/ ActionTypes(a) \cap MarketingAds.material_actions # {}

\* normalize_assessment: facts of the request replace what the model says.
NormalizeAssessment(request, a) ==
    [a EXCEPT !.tracking_health = request.tracking_health,
              !.optimization_eligible = request.optimization_eligible,
              !.primary_conversion = request.primary_conversion,
              !.material = RecommendationMateriality(a)]

\* _validate_structured_claims and validate_evidence_references.
ClaimsAreTraceable(request, a) ==
    /\ a.claims # {}
    /\ \A claim \in a.claims :
         claim.references # {} /\ claim.references \subseteq request.paths

\* Evidence unfit for optimization supports no experiment, change or
\* optimizing action.
IneligibleIsHarmless(request, a) ==
    ~request.optimization_eligible =>
        /\ a.category \notin {"experiment", "operational_change"}
        /\ ActionTypes(a) \subseteq MarketingAds.non_optimization

WithinChangeLimit(request, a) ==
    request.max_budget_change # None =>
        \A x \in Elements(a.actions) :
            x.type \in {"budget_increase", "budget_decrease"} /\ x.magnitude # None
              => x.magnitude <= request.max_budget_change

\* validate_assessment.
AssessmentValid(request, a) ==
    /\ ClaimsAreTraceable(request, a)
    /\ a.expected_goal_impact # None /\ a.tracking_health # None
    /\ a.primary_conversion # None
    /\ a.optimization_eligible = request.optimization_eligible
    /\ a.category \in MarketingAds.categories \cap request.allowed_recommendations
    /\ ActionTypes(a) \subseteq MarketingAds.allowed_action_types \cap request.allowed_actions
    /\ IneligibleIsHarmless(request, a)
    /\ a.category = "experiment" <=> a.experiment # None
    /\ WithinChangeLimit(request, a)
    /\ a.material = RecommendationMateriality(a)

\* validate_judgment: every claim is classified, once; without a winner the
\* resolution is a safe one.
JudgmentValid(request, j, resolution, claim_ids) ==
    /\ j.classified = claim_ids /\ claim_ids # {}
    /\ j.selected = "none" =>
         /\ AssessmentValid(request, resolution)
         /\ j.verdict \in {"insufficient_evidence", "escalate"} =>
              /\ resolution.category \in
                   {"collect_more_data", "freeze", "tracking_or_data_problem"}
              /\ ActionTypes(resolution) \subseteq MarketingAds.non_optimization

-----------------------------------------------------------------------------
(* compare_assessments *)

\* Later actions of a list hide earlier ones with the same key, as in a dict;
\* same is the set of their positions.
LastOf(actions, same) ==
    actions[CHOOSE i \in same : \A j \in same : j <= i]

KeyOf(x) == <<x.target_id, x.type>>
ActionKeys(a) == {KeyOf(x) : x \in Elements(a.actions)}
ByKey(a, k) == LastOf(a.actions, {i \in DOMAIN a.actions : KeyOf(a.actions[i]) = k})

SetDistance(l, r) ==
    IF l = r THEN 0
    ELSE IF l = {} \/ r = {} THEN Unit
    ELSE Unit - (Unit * Cardinality(l \cap r)) \div Cardinality(l \cup r)

\* Two optional numbers: half a unit when one is missing, else their relative
\* difference, at most one unit.
OptionalDistance(x, y) ==
    IF x = y THEN 0
    ELSE IF x = None \/ y = None THEN Unit \div 2
    ELSE Smaller((Unit * Gap(x, y)) \div Larger(Magnitude(x), Magnitude(y)), Unit)

ImpactDistance(l, r) ==
    LET x == l.expected_goal_impact
        y == r.expected_goal_impact
    IN  IF x = y THEN 0
        ELSE IF x = None \/ y = None THEN Unit \div 2
        ELSE (Unit * Gap(ImpactOrder[x], ImpactOrder[y])) \div 3

MagnitudeDistance(l, r) ==
    IF ActionKeys(l) # ActionKeys(r) THEN Unit
    ELSE LET distance(k) == OptionalDistance(ByKey(l, k).magnitude, ByKey(r, k).magnitude)
         IN  IF ActionKeys(l) = {} THEN 0
             ELSE CHOOSE d \in {distance(k) : k \in ActionKeys(l)} :
                    \A k \in ActionKeys(l) : distance(k) <= d

Urgency(a) ==
    LET orders == {UrgencyOrder[x.urgency] : x \in Elements(a.actions)}
    IN  IF orders = {} THEN UrgencyOrder["normal"]
        ELSE CHOOSE o \in orders : \A p \in orders : p <= o

TimingDistance(l, r) ==
    Larger((Unit * Gap(Urgency(l), Urgency(r))) \div 2,
           OptionalDistance(l.review_after_hours, r.review_after_hours))

RiskDistance(l, r) ==
    Larger((Unit * Gap(RiskOrder[l.risk], RiskOrder[r.risk])) \div 2,
           IF l.material = r.material THEN 0 ELSE Unit)

QualityDistance(l, r) ==
    (Unit * Gap(QualityOrder[l.evidence_quality], QualityOrder[r.evidence_quality])) \div 3

\* Directions follow from the types, so the triples differ as the keys do.
Distances(l, r) ==
    [disposition |-> IF l.category = r.category THEN 0 ELSE Unit,
     direction |-> SetDistance(ActionKeys(l), ActionKeys(r)),
     scope |-> SetDistance(Targets(l), Targets(r)),
     impact |-> ImpactDistance(l, r),
     quality |-> QualityDistance(l, r),
     magnitude |-> MagnitudeDistance(l, r),
     risk |-> RiskDistance(l, r),
     timing |-> TimingDistance(l, r)]

\* In hundredths of Unit.
Weighted(d) ==
    22 * d.disposition + 22 * d.direction + 14 * d.scope + 12 * d.impact
      + 10 * d.quality + 8 * d.magnitude + 7 * d.risk + 5 * d.timing

\* _opposite_direction: by target, the last action of each list counts.
OppositeDirection(l, r) ==
    \E t \in Targets(l) \cap Targets(r) :
        LET toward(a) == {i \in DOMAIN a.actions : a.actions[i].target_id = t}
            direction(a) == Directions[LastOf(a.actions, toward(a)).type]
        IN  {direction(l), direction(r)} \in MarketingAds.opposites

Differ(x, y) == x # None /\ y # None /\ x # y

\* _hard_triggers.
HardTriggers(l, r, failed_goal) ==
    { trigger \in MarketingAds.hard_triggers :
        CASE trigger = "tracking_health_conflict" ->
               Differ(l.tracking_health, r.tracking_health)
          [] trigger = "goal_or_primary_conversion_conflict" ->
               Differ(l.primary_conversion, r.primary_conversion)
          [] trigger = "opposite_action_direction" -> OppositeDirection(l, r)
          [] trigger = "incompatible_target_scope" ->
               Targets(l) # {} /\ Targets(r) # {} /\ Targets(l) \cap Targets(r) = {}
          [] trigger = "evidence_eligibility_conflict" ->
               Differ(l.optimization_eligible, r.optimization_eligible)
          [] trigger = "action_outside_ontology" ->
               ~(ActionTypes(l) \cup ActionTypes(r) \subseteq MarketingAds.allowed_action_types)
          [] trigger = "failed_goal_movement" -> failed_goal }

MergeCompatible(d) == d.disposition = 0 /\ d.direction = 0 /\ d.scope = 0

ComparisonRequiresCrossReview(l, r, failed_goal) ==
    \/ HardTriggers(l, r, failed_goal) # {}
    \/ Weighted(Distances(l, r)) > MarketingAds.tolerance * Unit
    \/ ~MergeCompatible(Distances(l, r))

-----------------------------------------------------------------------------
(* _merged_assessment *)

LeastPresent(x, y) == IF x = None THEN y ELSE IF y = None THEN x ELSE Smaller(x, y)

\* _more_conservative_action.
MoreConservativeAction(x, y) ==
    [x EXCEPT !.magnitude = LeastPresent(x.magnitude, y.magnitude),
              !.urgency = HighestBy(UrgencyOrder, x.urgency, y.urgency),
              !.confidence = Smaller(x.confidence, y.confidence)]

\* Mutant of MergedAssessment: the risk of the first reviewer.
MergedAtFirstRisk(l, r) ==
    [l EXCEPT !.claims = l.claims \cup r.claims,
              !.actions = [i \in DOMAIN l.actions |->
                  MoreConservativeAction(l.actions[i], ByKey(r, KeyOf(l.actions[i])))],
              !.material = l.material \/ r.material,
              !.confidence = Smaller(l.confidence, r.confidence),
              !.evidence_quality =
                  LowestBy(QualityOrder, l.evidence_quality, r.evidence_quality),
              !.missing_evidence = l.missing_evidence \cup r.missing_evidence,
              !.review_after_hours = LeastPresent(l.review_after_hours, r.review_after_hours)]

\* The order of the actions is presentation and left as it is.
MergedAssessment(l, r) ==
    [l EXCEPT !.claims = l.claims \cup r.claims,
              !.actions = [i \in DOMAIN l.actions |->
                  MoreConservativeAction(l.actions[i], ByKey(r, KeyOf(l.actions[i])))],
              !.material = l.material \/ r.material,
              !.risk = HighestBy(RiskOrder, l.risk, r.risk),
              !.confidence = Smaller(l.confidence, r.confidence),
              !.evidence_quality =
                  LowestBy(QualityOrder, l.evidence_quality, r.evidence_quality),
              !.missing_evidence = l.missing_evidence \cup r.missing_evidence,
              !.review_after_hours = LeastPresent(l.review_after_hours, r.review_after_hours)]

\* Mutant of CanAutoResolve: actions that are not material are let through.
CanAutoResolveWithActions(a) ==
    /\ a.category \in {"observe", "collect_more_data"}
    /\ ~a.material /\ a.risk = "low"

\* can_auto_resolve.
CanAutoResolve(a) ==
    /\ a.category \in {"observe", "collect_more_data"}
    /\ a.actions = << >> /\ ~a.material /\ a.risk = "low"
=============================================================================
