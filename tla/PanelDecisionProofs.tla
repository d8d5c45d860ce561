------------------------- MODULE PanelDecisionProofs -------------------------
(***************************************************************************)
(* Whatever two reviewers and a judge answer, a review ends with an        *)
(* assessment that satisfies the rules of its pack: the merge of two valid *)
(* assessments within tolerance is valid and no bolder than either, though *)
(* no code validates it, and the contract check of the result passes.      *)
(***************************************************************************)
EXTENDS PanelDecision, FiniteSetTheorems, WellFoundedInduction, TLAPS

\* Claims with their identifiers.
Claims == [claim_id : Stages \X Nat, references : SUBSET STRING]

-----------------------------------------------------------------------------
(* Actions by their key *)

\* Every set of natural numbers has a least one.
LEMMA LeastNumber ==
    ASSUME NEW T \in SUBSET Nat, T # {}
    PROVE  \E x \in T : \A y \in T : x <= y
<1> DEFINE R == OpToRel(<, Nat)
<1>1. IsWellFoundedOn(R, Nat)
  BY NatLessThanWellFounded
<1>2. \A x \in Nat, y \in Nat : y < x => <<y, x>> \in R
  BY DEF OpToRel
<1> HIDE DEF R
<1>3. PICK x \in T : \A y \in T : ~(<<y, x>> \in R)
  BY <1>1, WFMin
<1>4. \A y \in T : ~(y < x)
  BY <1>2, <1>3
<1>. QED
  BY <1>4

\* Of some positions of a list one is the last.
LEMMA LastPosition ==
    ASSUME NEW n \in Nat, NEW T \in SUBSET (1 .. n), T # {}
    PROVE  \E x \in T : \A y \in T : y <= x
<1> DEFINE U == {k \in Nat : \E x \in T : k = n - x}
<1>1. U \in SUBSET Nat /\ U # {}
  <2>1. PICK x \in T : TRUE
    OBVIOUS
  <2>2. n - x \in U
    BY <2>1
  <2>. QED
    BY <2>2
<1>2. PICK k \in U : \A y \in U : k <= y
  BY <1>1, LeastNumber
<1>3. PICK x \in T : k = n - x
  BY <1>2
<1>4. ASSUME NEW y \in T PROVE y <= x
  <2>1. n - y \in U
    BY <1>4
  <2>2. x \in Nat /\ y \in Nat /\ k <= n - y
    BY <1>2, <2>1
  <2>. QED
    BY <1>3, <2>2
<1>. QED
  BY <1>3, <1>4

\* The dict of _merged_assessment finds for a key an action with that key.
LEMMA ByKeyFinds ==
    ASSUME NEW a \in Assessments(SUBSET Claims), NEW k \in ActionKeys(a)
    PROVE  \E j \in DOMAIN a.actions :
             ByKey(a, k) = a.actions[j] /\ KeyOf(a.actions[j]) = k
<1> DEFINE T == {i \in DOMAIN a.actions : KeyOf(a.actions[i]) = k}
<1>1. a.actions \in Seq(RecommendedActions)
  BY DEF Assessments
<1>2. Len(a.actions) \in Nat /\ DOMAIN a.actions = 1 .. Len(a.actions)
  BY <1>1
<1>3. T \in SUBSET (1 .. Len(a.actions)) /\ T # {}
  BY <1>2 DEF ActionKeys, Elements
<1>4. \E x \in T : \A y \in T : y <= x
  <2> HIDE DEF T
  <2>. QED
    BY <1>2, <1>3, LastPosition
<1> DEFINE j == CHOOSE i \in T : \A y \in T : y <= i
<1>5. j \in T
  BY <1>4
<1>6. ByKey(a, k) = a.actions[j]
  BY DEF ByKey, LastOf
<1>. QED
  BY <1>5, <1>6

\* The keys of a list are finitely many.
LEMMA KeysFinite ==
    ASSUME NEW a \in Assessments(SUBSET Claims)
    PROVE  IsFiniteSet(ActionKeys(a))
<1>1. a.actions \in Seq(RecommendedActions)
  BY DEF Assessments
<1>2. Len(a.actions) \in Nat /\ DOMAIN a.actions = 1 .. Len(a.actions)
  BY <1>1
<1>3. IsFiniteSet(1 .. Len(a.actions))
  BY <1>2, FS_Interval
<1> DEFINE f == [i \in 1 .. Len(a.actions) |-> KeyOf(a.actions[i])]
<1>4. ActionKeys(a) = {f[i] : i \in 1 .. Len(a.actions)}
  BY <1>2 DEF ActionKeys, Elements
<1>5. f \in Surjection(1 .. Len(a.actions), ActionKeys(a))
  BY <1>4 DEF Surjection
<1>. QED
  BY <1>3, <1>5, FS_Surjection

\* _set_distance is zero only between equal sets, which is what lets
\* compare_assessments take a zero distance for the same actions.
LEMMA NoDistance ==
    ASSUME NEW l, NEW r, IsFiniteSet(l), IsFiniteSet(r), SetDistance(l, r) = 0
    PROVE  l = r
<1> SUFFICES ASSUME l # r, l # {}, r # {} PROVE FALSE
  BY DEF SetDistance, Unit
<1> DEFINE c == Cardinality(l \cap r)
           u == Cardinality(l \cup r)
<1>1. IsFiniteSet(l \cap r) /\ IsFiniteSet(l \cup r)
  BY FS_Intersection, FS_Union
<1>2. c \in Nat /\ u \in Nat
  BY <1>1, FS_CardinalityType
<1>3. c < u
  <2>1. l \cap r \in SUBSET (l \cup r) /\ l \cap r # l \cup r
    OBVIOUS
  <2>. QED
    BY <1>1, <1>2, <2>1, FS_Subset
<1>4. 12 - (12 * c) \div u = 0
  BY DEF SetDistance, Unit
<1>5. (12 * c) \div u < 12
  <2> HIDE DEF c, u
  <2>. QED
    BY <1>2, <1>3, SMTT(30)
<1> HIDE DEF c, u
<1>6. (12 * c) \div u \in Int
  BY <1>2, <1>3
<1>. QED
  BY <1>4, <1>5, <1>6

-----------------------------------------------------------------------------
(* The merge of the marketing pack *)

\* Two assessments that need no cross review recommend the same category and
\* the same types of action for the same targets.
LEMMA Agreement ==
    ASSUME NEW l \in Assessments(SUBSET Claims), NEW r \in Assessments(SUBSET Claims),
           NEW failed_goal, ~ComparisonRequiresCrossReview(l, r, failed_goal)
    PROVE  /\ l.category = r.category
           /\ ActionKeys(l) = ActionKeys(r)
           /\ ActionTypes(l) = ActionTypes(r)
<1>1. MergeCompatible(Distances(l, r))
  BY DEF ComparisonRequiresCrossReview
<1>2. /\ (IF l.category = r.category THEN 0 ELSE Unit) = 0
      /\ SetDistance(ActionKeys(l), ActionKeys(r)) = 0
  BY <1>1 DEF MergeCompatible, Distances
<1>3. l.category = r.category
  BY <1>2 DEF Unit
<1>4. ActionKeys(l) = ActionKeys(r)
  BY <1>2, KeysFinite, NoDistance
<1>5. ASSUME NEW a \in {l, r}, NEW b \in {l, r}, ActionKeys(a) \subseteq ActionKeys(b)
      PROVE  ActionTypes(a) \subseteq ActionTypes(b)
  <2>1. ASSUME NEW x \in Elements(a.actions)
        PROVE  \E y \in Elements(b.actions) : y.type = x.type
    <3>1. KeyOf(x) \in ActionKeys(b)
      BY <1>5 DEF ActionKeys
    <3>2. PICK y \in Elements(b.actions) : KeyOf(y) = KeyOf(x)
      BY <3>1 DEF ActionKeys
    <3>. QED
      BY <3>2 DEF KeyOf
  <2>. QED
    BY <2>1 DEF ActionTypes
<1>6. ActionTypes(l) \subseteq ActionTypes(r)
  BY <1>4, <1>5
<1>7. ActionTypes(r) \subseteq ActionTypes(l)
  BY <1>4, <1>5
<1>. QED
  BY <1>3, <1>4, <1>6, <1>7

\* What _more_conservative_action makes of x and y, in properties: z has their
\* key, the smaller magnitude and the smaller confidence.
Tempered(x, y, z) ==
    /\ x \in RecommendedActions /\ y \in RecommendedActions /\ z \in RecommendedActions
    /\ KeyOf(y) = KeyOf(x) /\ KeyOf(z) = KeyOf(x)
    /\ y.type = x.type /\ z.type = x.type
    /\ z.magnitude = LeastPresent(x.magnitude, y.magnitude)
    /\ z.confidence = Smaller(x.confidence, y.confidence)

\* An action of the merge comes from an action of either reviewer.
LEMMA MergedAction ==
    ASSUME NEW l \in Assessments(SUBSET Claims), NEW r \in Assessments(SUBSET Claims),
           ActionKeys(l) = ActionKeys(r)
    PROVE  \A i \in DOMAIN l.actions : \E j \in DOMAIN r.actions :
             Tempered(l.actions[i], r.actions[j], MergedAssessment(l, r).actions[i])
<1> SUFFICES ASSUME NEW i \in DOMAIN l.actions
             PROVE  \E j \in DOMAIN r.actions :
               Tempered(l.actions[i], r.actions[j], MergedAssessment(l, r).actions[i])
  OBVIOUS
<1> DEFINE x == l.actions[i]
           z == MergedAssessment(l, r).actions[i]
<1>1. l.actions \in Seq(RecommendedActions) /\ r.actions \in Seq(RecommendedActions)
  BY DEF Assessments
<1>2. x \in RecommendedActions
  BY <1>1
<1>3. KeyOf(x) \in ActionKeys(r)
  BY DEF ActionKeys, Elements
<1>4. PICK j \in DOMAIN r.actions :
        ByKey(r, KeyOf(x)) = r.actions[j] /\ KeyOf(r.actions[j]) = KeyOf(x)
  BY <1>3, ByKeyFinds
<1> DEFINE y == r.actions[j]
<1>5. y \in RecommendedActions
  BY <1>1
<1>6. z = MoreConservativeAction(x, y) /\ KeyOf(y) = KeyOf(x)
  <2>1. MergedAssessment(l, r).actions = [k \in DOMAIN l.actions |->
           MoreConservativeAction(l.actions[k], ByKey(r, KeyOf(l.actions[k])))]
    BY DEF MergedAssessment, Assessments
  <2>. QED
    BY <1>4, <2>1
<1> HIDE DEF x, y, z
<1>7. y.type = x.type
  BY <1>6 DEF KeyOf
<1>8. /\ z.type = x.type /\ z.target_id = x.target_id
      /\ z.magnitude = LeastPresent(x.magnitude, y.magnitude)
      /\ z.urgency = HighestBy(UrgencyOrder, x.urgency, y.urgency)
      /\ z.confidence = Smaller(x.confidence, y.confidence)
  BY <1>2, <1>6 DEF MoreConservativeAction, RecommendedActions
<1>9. z \in RecommendedActions
  <2>1. LeastPresent(x.magnitude, y.magnitude) \in Int \cup {None}
    BY <1>2, <1>5 DEF RecommendedActions, LeastPresent, Smaller
  <2>2. HighestBy(UrgencyOrder, x.urgency, y.urgency) \in DOMAIN UrgencyOrder
    BY <1>2, <1>5 DEF RecommendedActions, HighestBy
  <2>3. Smaller(x.confidence, y.confidence) \in Int
    BY <1>2, <1>5 DEF RecommendedActions, Smaller
  <2>. QED
    BY <1>2, <1>6, <2>1, <2>2, <2>3 DEF MoreConservativeAction, RecommendedActions
<1>10. KeyOf(z) = KeyOf(x)
  BY <1>8 DEF KeyOf
<1>11. Tempered(x, y, z)
  BY <1>2, <1>5, <1>6, <1>7, <1>8, <1>9, <1>10 DEF Tempered
<1>. QED
  BY <1>11 DEF x, y, z

\* compare_assessments: the merge of two valid assessments within tolerance is
\* an assessment and valid, though no code validates it.
LEMMA MarketingMergeValid ==
    ASSUME NEW doc,
           NEW l \in Assessments(SUBSET Claims), NEW r \in Assessments(SUBSET Claims),
           AssessmentValid(doc, l), AssessmentValid(doc, r),
           NEW failed_goal, ~ComparisonRequiresCrossReview(l, r, failed_goal)
    PROVE  /\ MergedAssessment(l, r) \in Assessments(SUBSET Claims)
           /\ AssessmentValid(doc, MergedAssessment(l, r))
<1> DEFINE m == MergedAssessment(l, r)
<1>1. /\ l.category = r.category
      /\ ActionKeys(l) = ActionKeys(r)
      /\ ActionTypes(l) = ActionTypes(r)
  BY Agreement
<1>2. /\ m.category = l.category
      /\ m.experiment = l.experiment
      /\ m.expected_goal_impact = l.expected_goal_impact
      /\ m.tracking_health = l.tracking_health
      /\ m.optimization_eligible = l.optimization_eligible
      /\ m.primary_conversion = l.primary_conversion
      /\ m.claims = l.claims \cup r.claims
      /\ m.actions = [i \in DOMAIN l.actions |->
             MoreConservativeAction(l.actions[i], ByKey(r, KeyOf(l.actions[i])))]
      /\ m.material = (l.material \/ r.material)
      /\ m.risk = HighestBy(RiskOrder, l.risk, r.risk)
  BY DEF MergedAssessment, Assessments
<1>3. l.actions \in Seq(RecommendedActions) /\ r.actions \in Seq(RecommendedActions)
  BY DEF Assessments
<1>4. DOMAIN m.actions = DOMAIN l.actions
  BY <1>2
<1>5. \A i \in DOMAIN m.actions : \E j \in DOMAIN r.actions :
        Tempered(l.actions[i], r.actions[j], m.actions[i])
  BY <1>1, <1>4, MergedAction
<1>6. m \in Assessments(SUBSET Claims)
  <2>1. m.actions \in Seq(RecommendedActions)
    <3>1. Len(l.actions) \in Nat /\ DOMAIN l.actions = 1 .. Len(l.actions)
      BY <1>3
    <3>2. m.actions \in [1 .. Len(l.actions) -> RecommendedActions]
      <4>1. \A i \in DOMAIN m.actions : m.actions[i] \in RecommendedActions
        BY <1>5 DEF Tempered
      <4>. QED
        BY <1>2, <1>4, <3>1, <4>1
    <3>. QED
      BY <3>1, <3>2
  <2> DEFINE claims == l.claims \cup r.claims
             actions == [i \in DOMAIN l.actions |->
                MoreConservativeAction(l.actions[i], ByKey(r, KeyOf(l.actions[i])))]
             material == l.material \/ r.material
             risk == HighestBy(RiskOrder, l.risk, r.risk)
             confidence == Smaller(l.confidence, r.confidence)
             quality == LowestBy(QualityOrder, l.evidence_quality, r.evidence_quality)
             missing == l.missing_evidence \cup r.missing_evidence
             hours == LeastPresent(l.review_after_hours, r.review_after_hours)
  <2>2. risk \in DOMAIN RiskOrder /\ quality \in DOMAIN QualityOrder
    BY DEF Assessments, HighestBy, LowestBy
  <2>3. confidence \in Int /\ hours \in Int \cup {None}
    BY DEF Assessments, LeastPresent, Smaller
  <2>4. claims \in SUBSET Claims /\ missing \in SUBSET STRING
    BY DEF Assessments
  <2>5. material \in BOOLEAN
    OBVIOUS
  <2>6. actions \in Seq(RecommendedActions)
    <3>1. m.actions = actions
      BY <1>2
    <3>. QED
      BY <2>1, <3>1
  <2>7. m = [l EXCEPT !.claims = claims, !.actions = actions, !.material = material,
                      !.risk = risk, !.confidence = confidence,
                      !.evidence_quality = quality, !.missing_evidence = missing,
                      !.review_after_hours = hours]
    BY DEF MergedAssessment
  <2> DEFINE n == [l EXCEPT !.claims = claims, !.actions = actions, !.material = material,
                            !.risk = risk]
  <2> HIDE DEF m, claims, actions, material, risk, confidence, quality, missing, hours
  <2>8. n \in Assessments(SUBSET Claims)
    BY <2>2, <2>4, <2>5, <2>6 DEF Assessments
  <2>9. m = [n EXCEPT !.confidence = confidence, !.evidence_quality = quality,
                      !.missing_evidence = missing, !.review_after_hours = hours]
    BY <2>7
  <2> HIDE DEF n
  <2>. QED
    BY <2>2, <2>3, <2>4, <2>8, <2>9 DEF Assessments
<1> HIDE DEF m
<1>7. ActionTypes(m) = ActionTypes(l)
  <2>1. \A i \in DOMAIN m.actions : m.actions[i].type = l.actions[i].type
    BY <1>5 DEF Tempered
  <2>. QED
    BY <1>4, <2>1 DEF ActionTypes, Elements
<1>8. ClaimsAreTraceable(doc, m)
  BY <1>2 DEF AssessmentValid, ClaimsAreTraceable
<1>9. IneligibleIsHarmless(doc, m)
  BY <1>2, <1>7 DEF AssessmentValid, IneligibleIsHarmless
<1>10. WithinChangeLimit(doc, m)
  <2> SUFFICES ASSUME doc.max_budget_change # None,
                      NEW i \in DOMAIN m.actions,
                      m.actions[i].type \in {"budget_increase", "budget_decrease"},
                      m.actions[i].magnitude # None
               PROVE  m.actions[i].magnitude <= doc.max_budget_change
    BY DEF WithinChangeLimit, Elements
  <2>1. PICK j \in DOMAIN r.actions :
               /\ m.actions[i].type = l.actions[i].type
               /\ m.actions[i].type = r.actions[j].type
               /\ m.actions[i].magnitude
                    = LeastPresent(l.actions[i].magnitude, r.actions[j].magnitude)
    BY <1>5 DEF Tempered
  <2>2. l.actions[i].magnitude # None => l.actions[i].magnitude <= doc.max_budget_change
    BY <1>4, <2>1 DEF AssessmentValid, WithinChangeLimit, Elements
  <2>3. r.actions[j].magnitude # None => r.actions[j].magnitude <= doc.max_budget_change
    BY <2>1 DEF AssessmentValid, WithinChangeLimit, Elements
  <2>4. \/ m.actions[i].magnitude = l.actions[i].magnitude
        \/ m.actions[i].magnitude = r.actions[j].magnitude
    BY <2>1 DEF LeastPresent, Smaller
  <2>. QED
    BY <2>2, <2>3, <2>4
<1>11. m.material = RecommendationMateriality(m)
  <2>1. /\ l.material = RecommendationMateriality(l)
        /\ r.material = RecommendationMateriality(r)
    BY DEF AssessmentValid
  <2>2. /\ l.risk \in {"low", "medium", "high"}
        /\ r.risk \in {"low", "medium", "high"}
    BY DEF Assessments, RiskOrder
  <2>3. m.risk \in {"medium", "high"}
          <=> l.risk \in {"medium", "high"} \/ r.risk \in {"medium", "high"}
    BY <1>2, <2>2 DEF HighestBy, RiskOrder
  <2>4. MarketingAds.material_risks = {"medium", "high"}
    BY DEF MarketingAds
  <2>5. RecommendationMateriality(m)
          <=> RecommendationMateriality(l) \/ RecommendationMateriality(r)
    BY <1>1, <1>2, <1>7, <2>3, <2>4 DEF RecommendationMateriality
  <2>6. RecommendationMateriality(m) \in BOOLEAN
    BY DEF RecommendationMateriality
  <2>. QED
    BY <1>2, <2>1, <2>5, <2>6
<1>12. AssessmentValid(doc, m)
  <2>1. /\ m.expected_goal_impact # None /\ m.tracking_health # None
        /\ m.primary_conversion # None
        /\ m.optimization_eligible = doc.optimization_eligible
        /\ m.category \in MarketingAds.categories \cap doc.allowed_recommendations
        /\ ActionTypes(m) \subseteq MarketingAds.allowed_action_types \cap doc.allowed_actions
        /\ m.category = "experiment" <=> m.experiment # None
    BY <1>2, <1>7 DEF AssessmentValid
  <2>. QED
    BY <1>8, <1>9, <1>10, <1>11, <2>1 DEF AssessmentValid
<1>. QED
  BY <1>6, <1>12 DEF m

\* The smaller of two optional numbers is a number when one of them is.
LEMMA LeastIsLess ==
    ASSUME NEW x \in Int \cup {None}, NEW y \in Int \cup {None}
    PROVE  /\ x # None => LeastPresent(x, y) # None /\ LeastPresent(x, y) <= x
           /\ y # None => LeastPresent(x, y) # None /\ LeastPresent(x, y) <= y
<1>1. None \notin Int
  BY PanelConstants
<1>. QED
  BY <1>1 DEF LeastPresent, Smaller

\* _merged_assessment: nothing in the merge is bolder than in either of the two.
LEMMA MarketingMergeCautious ==
    ASSUME NEW doc, IsMarketing(doc),
           NEW l \in Assessments(SUBSET Claims), NEW r \in Assessments(SUBSET Claims),
           ActionKeys(l) = ActionKeys(r)
    PROVE  /\ NoBolder(doc, l, MergedAssessment(l, r))
           /\ NoBolder(doc, r, MergedAssessment(l, r))
<1> DEFINE m == MergedAssessment(l, r)
<1>1. /\ m.claims = l.claims \cup r.claims
      /\ m.material <=> l.material \/ r.material
      /\ m.risk = HighestBy(RiskOrder, l.risk, r.risk)
      /\ m.confidence = Smaller(l.confidence, r.confidence)
      /\ m.evidence_quality = LowestBy(QualityOrder, l.evidence_quality, r.evidence_quality)
      /\ m.missing_evidence = l.missing_evidence \cup r.missing_evidence
      /\ m.review_after_hours = LeastPresent(l.review_after_hours, r.review_after_hours)
      /\ DOMAIN m.actions = DOMAIN l.actions
  BY DEF MergedAssessment, Assessments
<1>2. \A i \in DOMAIN l.actions : \E j \in DOMAIN r.actions :
        Tempered(l.actions[i], r.actions[j], m.actions[i])
  BY MergedAction
<1> HIDE DEF m
<1>3. /\ l.confidence \in Int /\ r.confidence \in Int
      /\ l.risk \in {"low", "medium", "high"} /\ r.risk \in {"low", "medium", "high"}
      /\ l.evidence_quality \in {"insufficient", "weak", "adequate", "strong"}
      /\ r.evidence_quality \in {"insufficient", "weak", "adequate", "strong"}
      /\ l.review_after_hours \in Int \cup {None} /\ r.review_after_hours \in Int \cup {None}
  BY DEF Assessments, RiskOrder, QualityOrder
<1>4. /\ RiskOrder[m.risk] >= RiskOrder[l.risk]
      /\ RiskOrder[m.risk] >= RiskOrder[r.risk]
  BY <1>1, <1>3 DEF HighestBy, RiskOrder
<1>5. /\ QualityOrder[m.evidence_quality] <= QualityOrder[l.evidence_quality]
      /\ QualityOrder[m.evidence_quality] <= QualityOrder[r.evidence_quality]
  BY <1>1, <1>3 DEF LowestBy, QualityOrder
<1>6. m.confidence <= l.confidence /\ m.confidence <= r.confidence
  BY <1>1, <1>3 DEF Smaller
<1>7. ASSUME NEW i \in DOMAIN m.actions
      PROVE  /\ \E j \in DOMAIN l.actions :
                  /\ KeyOf(l.actions[j]) = KeyOf(m.actions[i])
                  /\ l.actions[j].magnitude # None =>
                       /\ m.actions[i].magnitude # None
                       /\ m.actions[i].magnitude <= l.actions[j].magnitude
                  /\ m.actions[i].confidence <= l.actions[j].confidence
             /\ \E j \in DOMAIN r.actions :
                  /\ KeyOf(r.actions[j]) = KeyOf(m.actions[i])
                  /\ r.actions[j].magnitude # None =>
                       /\ m.actions[i].magnitude # None
                       /\ m.actions[i].magnitude <= r.actions[j].magnitude
                  /\ m.actions[i].confidence <= r.actions[j].confidence
  <2>1. i \in DOMAIN l.actions
    BY <1>1
  <2>2. PICK j \in DOMAIN r.actions : Tempered(l.actions[i], r.actions[j], m.actions[i])
    BY <1>2, <2>1
  <2> DEFINE x == l.actions[i]
             y == r.actions[j]
             z == m.actions[i]
  <2>3. Tempered(x, y, z)
    BY <2>2
  <2> HIDE DEF x, y, z
  <2>4. /\ x.magnitude \in Int \cup {None} /\ y.magnitude \in Int \cup {None}
        /\ x.confidence \in Int /\ y.confidence \in Int
        /\ z.confidence = Smaller(x.confidence, y.confidence)
        /\ z.magnitude = LeastPresent(x.magnitude, y.magnitude)
        /\ KeyOf(x) = KeyOf(z) /\ KeyOf(y) = KeyOf(z)
    BY <2>3 DEF Tempered, RecommendedActions
  <2>5. z.confidence <= x.confidence /\ z.confidence <= y.confidence
    BY <2>4 DEF Smaller
  <2>6. /\ x.magnitude # None => z.magnitude # None /\ z.magnitude <= x.magnitude
        /\ y.magnitude # None => z.magnitude # None /\ z.magnitude <= y.magnitude
    BY <2>4, LeastIsLess
  <2>. QED
    BY <2>1, <2>4, <2>5, <2>6 DEF x, y, z
<1>8. /\ l.review_after_hours # None =>
           m.review_after_hours # None /\ m.review_after_hours <= l.review_after_hours
      /\ r.review_after_hours # None =>
           m.review_after_hours # None /\ m.review_after_hours <= r.review_after_hours
  BY <1>1, <1>3, LeastIsLess
<1>9. NoStronger(l, m) /\ NoStronger(r, m)
  BY <1>7, <1>8 DEF NoStronger
<1>10. NoBolder(doc, l, m)
  BY <1>1, <1>4, <1>5, <1>6, <1>9 DEF NoBolder
<1>11. NoBolder(doc, r, m)
  BY <1>1, <1>4, <1>5, <1>6, <1>9 DEF NoBolder
<1>. QED
  BY <1>10, <1>11 DEF m

-----------------------------------------------------------------------------
(* The merge of the venture pack *)

\* compare_venture_assessments: the merge of two valid assessments within
\* tolerance is an assessment, valid, and no more favourable than either.
LEMMA VentureMerge ==
    ASSUME NEW doc, ~IsMarketing(doc),
           NEW l \in VentureAssessments(SUBSET Claims),
           NEW r \in VentureAssessments(SUBSET Claims),
           VentureAssessmentValid(doc, l), VentureAssessmentValid(doc, r),
           ~VentureRequiresCrossReview(l, r)
    PROVE  /\ MergedVenture(l, r) \in VentureAssessments(SUBSET Claims)
           /\ VentureAssessmentValid(doc, MergedVenture(l, r))
           /\ NoBolder(doc, l, MergedVenture(l, r))
           /\ NoBolder(doc, r, MergedVenture(l, r))
<1> DEFINE m == MergedVenture(l, r)
<1>1. l.category = r.category
  BY DEF VentureRequiresCrossReview, VentureMergeCompatible
<1>2. /\ l.category \in {"not_viable", "insufficient_information",
                         "needs_revision", "viable"}
      /\ l.risk \in {"low", "medium", "high"} /\ r.risk \in {"low", "medium", "high"}
      /\ l.evidence_quality \in {"insufficient", "weak", "adequate", "strong"}
      /\ r.evidence_quality \in {"insufficient", "weak", "adequate", "strong"}
      /\ l.scores \in [ScoreDimensions -> 1 .. 5] /\ r.scores \in [ScoreDimensions -> 1 .. 5]
      /\ l.confidence \in Int /\ r.confidence \in Int
      /\ l.feedback \in Nat /\ r.feedback \in Nat
      /\ l.missing_evidence \in SUBSET STRING /\ r.missing_evidence \in SUBSET STRING
      /\ l.weaknesses \in SUBSET STRING /\ r.weaknesses \in SUBSET STRING
      /\ l.strengths \in SUBSET STRING /\ r.strengths \in SUBSET STRING
      /\ l.claims \in SUBSET Claims /\ r.claims \in SUBSET Claims
  BY DEF VentureAssessments, VentureAssessmentValid, VentureConfig, VentureRiskOrder,
         VentureQualityOrder
<1>3. Least(CautionOrder, l.category, r.category) = l.category
  BY <1>1 DEF Least
<1>4. CautionOrder[l.category] <= CautionOrder[r.category]
  BY <1>1, <1>2 DEF CautionOrder
<1> DEFINE scores == MergedScores(l, r)
           risk == Greatest(VentureRiskOrder, l.risk, r.risk)
           quality == Least(VentureQualityOrder, l.evidence_quality, r.evidence_quality)
           confidence == Lesser(l.confidence, r.confidence)
<1>5. m = [l EXCEPT !.category = l.category, !.claims = l.claims \cup r.claims,
                    !.scores = scores, !.strengths = l.strengths \cup r.strengths,
                    !.weaknesses = l.weaknesses \cup r.weaknesses,
                    !.feedback = l.feedback, !.material = TRUE, !.risk = risk,
                    !.confidence = confidence, !.evidence_quality = quality,
                    !.missing_evidence = l.missing_evidence \cup r.missing_evidence]
  BY <1>3, <1>4 DEF MergedVenture
<1>6. /\ scores \in [ScoreDimensions -> 1 .. 5]
      /\ \A d \in ScoreDimensions \ {"risk_exposure"} :
           scores[d] <= l.scores[d] /\ scores[d] <= r.scores[d]
      /\ scores["risk_exposure"] >= l.scores["risk_exposure"]
      /\ scores["risk_exposure"] >= r.scores["risk_exposure"]
  <2>1. "risk_exposure" \in ScoreDimensions
    BY DEF ScoreDimensions
  <2>. QED
    BY <1>2, <2>1 DEF MergedScores, Lesser
<1>7. /\ risk \in DOMAIN VentureRiskOrder
      /\ RiskOrder[risk] >= RiskOrder[l.risk] /\ RiskOrder[risk] >= RiskOrder[r.risk]
  BY <1>2 DEF Greatest, VentureRiskOrder, RiskOrder
<1>8. /\ quality \in DOMAIN VentureQualityOrder
      /\ QualityOrder[quality] <= QualityOrder[l.evidence_quality]
      /\ QualityOrder[quality] <= QualityOrder[r.evidence_quality]
      /\ quality = l.evidence_quality \/ quality = r.evidence_quality
  BY <1>2 DEF Least, VentureQualityOrder, QualityOrder
<1>9. confidence \in Int /\ confidence <= l.confidence /\ confidence <= r.confidence
  BY <1>2 DEF Lesser
<1> HIDE DEF m, scores, risk, quality, confidence
<1>10. m \in VentureAssessments(SUBSET Claims)
  BY <1>2, <1>5, <1>6, <1>7, <1>8, <1>9 DEF VentureAssessments
<1>11. /\ m.category = l.category /\ m.claims = l.claims \cup r.claims
       /\ m.scores = scores /\ m.weaknesses = l.weaknesses \cup r.weaknesses
       /\ m.feedback = l.feedback /\ m.material = TRUE /\ m.risk = risk
       /\ m.confidence = confidence /\ m.evidence_quality = quality
       /\ m.missing_evidence = l.missing_evidence \cup r.missing_evidence
  BY <1>5 DEF VentureAssessments
<1>12. VentureAssessmentValid(doc, m)
  <2>1. VentureClaimsAreTraceable(doc, m)
    BY <1>11 DEF VentureAssessmentValid, VentureClaimsAreTraceable
  <2>2. m.category = "viable" => m.evidence_quality # "insufficient"
    BY <1>1, <1>8, <1>11 DEF VentureAssessmentValid
  <2>3. m.category = "insufficient_information" => m.missing_evidence # {}
    BY <1>11 DEF VentureAssessmentValid
  <2>. QED
    BY <1>11, <2>1, <2>2, <2>3 DEF VentureAssessmentValid
<1>13. NoMoreFavourable(l, m) /\ NoMoreFavourable(r, m)
  <2>1. /\ CautionOrder[m.category] <= CautionOrder[l.category]
        /\ CautionOrder[m.category] <= CautionOrder[r.category]
    BY <1>1, <1>2, <1>11 DEF CautionOrder
  <2>. QED
    BY <1>6, <1>11, <2>1 DEF NoMoreFavourable
<1>14. NoBolder(doc, l, m) /\ NoBolder(doc, r, m)
  BY <1>7, <1>8, <1>9, <1>11, <1>13 DEF NoBolder
<1>. QED
  BY <1>10, <1>12, <1>14 DEF m

-----------------------------------------------------------------------------
(* Both packs *)

\* An assessment of the document's pack that its rules accept.
Sound(doc, a) == a \in Outputs(doc, SUBSET Claims) /\ Valid(doc, a)

\* What compare of a pack merges is sound, and bolder than neither of the two.
LEMMA MergeIsSound ==
    ASSUME NEW doc, NEW l, NEW r, Sound(doc, l), Sound(doc, r),
           NEW failed_goal, ~RequiresReview(doc, l, r, failed_goal)
    PROVE  /\ Sound(doc, Merged(doc, l, r))
           /\ NoBolder(doc, l, Merged(doc, l, r))
           /\ NoBolder(doc, r, Merged(doc, l, r))
<1>1. CASE IsMarketing(doc)
  <2>1. /\ l \in Assessments(SUBSET Claims) /\ r \in Assessments(SUBSET Claims)
        /\ AssessmentValid(doc, l) /\ AssessmentValid(doc, r)
        /\ ~ComparisonRequiresCrossReview(l, r, failed_goal)
    BY <1>1 DEF Sound, Outputs, Valid, RequiresReview
  <2>2. ActionKeys(l) = ActionKeys(r)
    BY <2>1, Agreement
  <2>3. /\ MergedAssessment(l, r) \in Assessments(SUBSET Claims)
        /\ AssessmentValid(doc, MergedAssessment(l, r))
    BY <2>1, MarketingMergeValid
  <2>4. /\ NoBolder(doc, l, MergedAssessment(l, r))
        /\ NoBolder(doc, r, MergedAssessment(l, r))
    BY <1>1, <2>1, <2>2, MarketingMergeCautious
  <2>. QED
    BY <1>1, <2>3, <2>4 DEF Sound, Outputs, Valid, Merged
<1>2. CASE ~IsMarketing(doc)
  <2>1. /\ l \in VentureAssessments(SUBSET Claims) /\ r \in VentureAssessments(SUBSET Claims)
        /\ VentureAssessmentValid(doc, l) /\ VentureAssessmentValid(doc, r)
        /\ ~VentureRequiresCrossReview(l, r)
    BY <1>2 DEF Sound, Outputs, Valid, RequiresReview
  <2>2. /\ MergedVenture(l, r) \in VentureAssessments(SUBSET Claims)
        /\ VentureAssessmentValid(doc, MergedVenture(l, r))
        /\ NoBolder(doc, l, MergedVenture(l, r))
        /\ NoBolder(doc, r, MergedVenture(l, r))
    BY <1>2, <2>1, VentureMerge
  <2>. QED
    BY <1>2, <2>2 DEF Sound, Outputs, Valid, Merged
<1>. QED
  BY <1>1, <1>2

\* assign_assessment_claim_ids and normalize_assessment make an assessment of
\* an answer.
LEMMA NormalizedType ==
    ASSUME NEW doc \in Documents, NEW invocation \in Stages,
           NEW draft \in Outputs(doc, Seq(SUBSET STRING))
    PROVE  Normalize(doc, AssignClaimIds(invocation, draft)) \in Outputs(doc, SUBSET Claims)
<1> DEFINE claims == {[claim_id |-> <<invocation, i>>, references |-> draft.claims[i]] :
                        i \in DOMAIN draft.claims}
<1>1. draft.claims \in Seq(SUBSET STRING)
  BY DEF Outputs, Assessments, VentureAssessments
<1>2. claims \in SUBSET Claims
  BY <1>1 DEF Claims
<1>3. AssignClaimIds(invocation, draft) = [draft EXCEPT !.claims = claims]
  BY DEF AssignClaimIds
<1> DEFINE a == [draft EXCEPT !.claims = claims]
<1> HIDE DEF claims
<1>4. CASE IsMarketing(doc)
  <2>1. a \in Assessments(SUBSET Claims)
    BY <1>2, <1>4 DEF Outputs, Assessments
  <2> DEFINE material == RecommendationMateriality(a)
  <2>2. material \in BOOLEAN
    BY DEF RecommendationMateriality
  <2>3. /\ doc.tracking_health \in TrackingHealth
        /\ doc.optimization_eligible \in BOOLEAN
        /\ doc.primary_conversion \in STRING \cup {None}
    BY <1>4, PanelConstants, Zenon
  <2>4. Normalize(doc, a) =
          [a EXCEPT !.tracking_health = doc.tracking_health,
                    !.optimization_eligible = doc.optimization_eligible,
                    !.primary_conversion = doc.primary_conversion,
                    !.material = material]
    BY <1>4 DEF Normalize, NormalizeAssessment
  <2> HIDE DEF a, material
  <2>5. Normalize(doc, a) \in Assessments(SUBSET Claims)
    BY <2>1, <2>2, <2>3, <2>4 DEF Assessments
  <2>. QED
    BY <1>3, <1>4, <2>5 DEF Outputs, a
<1>5. CASE ~IsMarketing(doc)
  <2>1. a \in VentureAssessments(SUBSET Claims)
    BY <1>2, <1>5 DEF Outputs, VentureAssessments
  <2>2. Normalize(doc, a) = [a EXCEPT !.material = TRUE]
    BY <1>5 DEF Normalize, NormalizeVenture
  <2> HIDE DEF a
  <2>3. Normalize(doc, a) \in VentureAssessments(SUBSET Claims)
    BY <2>1, <2>2 DEF VentureAssessments
  <2>. QED
    BY <1>3, <1>5, <2>3 DEF Outputs, a
<1>. QED
  BY <1>4, <1>5

\* build_review_result: a sound assessment passes the contract check, with the
\* status it is given.
LEMMA FinishReturns ==
    ASSUME NEW how, NEW final, Sound(request, final), Finish(how, final)
    PROVE  stage' = "returned" /\ path' = how /\ result'.final = final
<1> DEFINE auto == /\ AutoResolve
                   /\ how \in {"a_only", "ab_agreement"}
                   /\ Resolvable(request, final)
           status == IF auto THEN "auto_resolved" ELSE "caller_decision_required"
<1>1. /\ path' = how
      /\ result' = [final |-> final, status |-> status]
      /\ stage' = IF ResultAccepted(request, final, how, status)
                  THEN "returned" ELSE "result_refused"
  BY DEF Finish
<1>2. status = "auto_resolved" => how \in {"a_only", "ab_agreement"} /\ Resolvable(request, final)
  OBVIOUS
<1> HIDE DEF status
<1>3. ResultAccepted(request, final, how, status)
  <2>1. CASE IsMarketing(request)
    <3>1. AssessmentValid(request, final)
      BY <2>1 DEF Sound, Valid
    <3>2. /\ final.category \in request.allowed_recommendations
          /\ ActionTypes(final) \subseteq request.allowed_actions
          /\ request.optimization_eligible \/ final.category # "operational_change"
      BY <3>1 DEF AssessmentValid, IneligibleIsHarmless
    <3>3. status = "auto_resolved" =>
            /\ final.category \in {"observe", "collect_more_data"}
            /\ final.actions = << >> /\ final.risk = "low"
            /\ how # "c_tie_broken"
      BY <1>2 DEF Resolvable, CanAutoResolve
    <3>. QED
      BY <2>1, <3>2, <3>3 DEF ResultAccepted
  <2>2. CASE ~IsMarketing(request)
    <3>1. final.category \in request.allowed_recommendations
      BY <2>2 DEF Sound, Valid, VentureAssessmentValid
    <3>2. status # "auto_resolved"
      BY <1>2, <2>2 DEF Resolvable
    <3>. QED
      BY <2>2, <3>1, <3>2 DEF ResultAccepted
  <2>. QED
    BY <2>1, <2>2
<1>. QED
  BY <1>1, <1>3

-----------------------------------------------------------------------------
(* The inductive invariant *)

\* Where the session has the assessment of a reviewer's current round.
Holds == [A |-> {"route", "B", "compare", "cross B", "cross compare", "C", "judge"},
          B |-> {"compare", "cross compare", "C", "judge"}]

\* What the session has of a round is sound: outputs are validated as they
\* arrive.
Rounds ==
    /\ DOMAIN pair = {"A", "B"}
    /\ stage \in Holds.A => Sound(request, pair["A"])
    /\ stage \in Holds.B => Sound(request, pair["B"])

\* No review gets past intake that the pack does not accept.
Admitted == stage \notin {"intake", "refused"} => Accepted(request)

\* A result is sound, and merged ones are cautious.
Concluded ==
    /\ stage # "result_refused"
    /\ stage = "returned" => Sound(request, result.final)
    /\ path \in Merges =>
         /\ stage = "returned"
         /\ \A s \in {"A", "B"} : NoBolder(request, pair[s], result.final)

PInv ==
    /\ request \in Documents
    /\ stage \in Stages
    /\ Rounds
    /\ Admitted
    /\ Concluded

\* Init and intake.
LEMMA PanelInit == Init => PInv
<1> SUFFICES ASSUME Init PROVE PInv
  OBVIOUS
<1>1. None \notin Merges
  BY PanelConstants DEF Merges, Paths
<1>2. Rounds /\ Admitted
  BY DEF Init, Rounds, Holds, Admitted
<1>3. Concluded
  BY <1>1 DEF Init, Concluded
<1>. QED
  BY <1>2, <1>3 DEF Init, PInv, Stages

\* _invoke keeps an output only when it is valid.
LEMMA ReviewStep ==
    ASSUME PInv, NEW draft \in Drafts(request), NEW complete, Review(draft, complete)
    PROVE  PInv'
<1> DEFINE slot == SlotOf[stage]
           a == Normalize(request, AssignClaimIds(stage, draft))
           ok == Valid(request, a) /\ (stage \in {"cross A", "cross B"} => complete)
<1>1. /\ stage \in Reviewing
      /\ stage' = IF ok THEN AfterReview[stage] ELSE "failed"
      /\ pair' = IF ok /\ slot # "C" THEN [pair EXCEPT ![slot] = a] ELSE pair
      /\ request' = request /\ path' = path /\ result' = result
  BY DEF Review
<1>2. stage \in {"A", "B", "cross A", "cross B", "C"}
  BY <1>1 DEF Reviewing
<1>3. /\ request \in Documents /\ DOMAIN pair = {"A", "B"}
      /\ stage \in Holds.A => Sound(request, pair["A"])
      /\ stage \in Holds.B => Sound(request, pair["B"])
      /\ Accepted(request)
      /\ path \notin Merges
  BY <1>2 DEF PInv, Rounds, Admitted, Concluded
<1>4. a \in Outputs(request, SUBSET Claims)
  <2>1. draft \in Outputs(request, Seq(SUBSET STRING))
    BY <1>3, PanelConstants
  <2>2. stage \in Stages
    BY DEF PInv
  <2>. QED
    BY <1>3, <2>1, <2>2, NormalizedType
<1>5. ok => Sound(request, a)
  BY <1>4 DEF Sound
<1>6. AfterReview[stage] = (CASE stage = "A" -> "route" [] stage = "B" -> "compare"
                              [] stage = "cross A" -> "cross B"
                              [] stage = "cross B" -> "cross compare"
                              [] stage = "C" -> "judge")
  BY <1>1 DEF AfterReview
<1>7. slot = (CASE stage \in {"A", "cross A"} -> "A" [] stage \in {"B", "cross B"} -> "B"
                [] stage = "C" -> "C")
  BY <1>1 DEF SlotOf
<1> HIDE DEF slot, a, ok
<1>8. Rounds'
  <2>1. CASE ~ok
    <3>1. stage' = "failed" /\ pair' = pair
      BY <1>1, <2>1
    <3>. QED
      BY <1>1, <1>3, <3>1 DEF Rounds, Holds
  <2>2. CASE ok /\ stage \in {"A", "cross A"}
    <3>1. stage' \in {"route", "cross B"} /\ pair' = [pair EXCEPT !["A"] = a]
      BY <1>1, <1>6, <1>7, <2>2
    <3>2. pair'["A"] = a /\ DOMAIN pair' = {"A", "B"}
      BY <1>3, <3>1
    <3>. QED
      BY <1>1, <1>5, <2>2, <3>1, <3>2 DEF Rounds, Holds
  <2>3. CASE ok /\ stage \in {"B", "cross B"}
    <3>1. stage' \in {"compare", "cross compare"} /\ pair' = [pair EXCEPT !["B"] = a]
      BY <1>1, <1>6, <1>7, <2>3
    <3>2. pair'["B"] = a /\ pair'["A"] = pair["A"] /\ DOMAIN pair' = {"A", "B"}
      BY <1>3, <3>1
    <3>3. Sound(request, pair["A"])
      BY <1>3, <2>3 DEF Holds
    <3>. QED
      BY <1>1, <1>5, <2>3, <3>2, <3>3 DEF Rounds
  <2>4. CASE ok /\ stage = "C"
    <3>1. pair' = pair
      BY <1>1, <1>7, <2>4
    <3>2. Sound(request, pair["A"]) /\ Sound(request, pair["B"])
      BY <1>3, <2>4 DEF Holds
    <3>. QED
      BY <1>1, <1>3, <3>1, <3>2 DEF Rounds
  <2>. QED
    BY <1>2, <2>1, <2>2, <2>3, <2>4
<1>9. stage' \in {"route", "compare", "cross B", "cross compare", "judge", "failed"}
  BY <1>1, <1>2, <1>6
<1>10. stage' \in Stages
  BY <1>9 DEF Stages, Ended, Reviewing
<1>11. Admitted' /\ Concluded'
  BY <1>1, <1>3, <1>9 DEF Admitted, Concluded
<1>. QED
  BY <1>1, <1>3, <1>8, <1>10, <1>11 DEF PInv

\* A review that ends with a sound assessment returns it.
LEMMA FinishStep ==
    ASSUME PInv, stage \notin {"intake", "refused"},
           NEW how, NEW final, Sound(request, final), Finish(how, final),
           UNCHANGED <<request, pair>>,
           how \in Merges => \A s \in {"A", "B"} : NoBolder(request, pair[s], final)
    PROVE  PInv'
<1>1. stage' = "returned" /\ path' = how /\ result'.final = final
  BY FinishReturns
<1>2. Rounds'
  BY <1>1 DEF PInv, Rounds, Holds
<1>3. Admitted'
  BY <1>1 DEF PInv, Admitted
<1>4. Concluded'
  BY <1>1 DEF Concluded
<1>. QED
  BY <1>1, <1>2, <1>3, <1>4 DEF PInv, Stages, Ended

\* Every step of a review keeps the invariant.
LEMMA PanelStep == PInv /\ [Next]_vars => PInv'
<1> SUFFICES ASSUME PInv, [Next]_vars PROVE PInv'
  OBVIOUS
<1>1. CASE Intake
  <2>1. /\ stage = "intake"
        /\ stage' \in {"refused", "stale_or_ineligible_evidence", "A"}
        /\ stage' # "refused" => Accepted(request)
        /\ request' = request /\ pair' = pair /\ path' = path /\ result' = result
    BY <1>1 DEF Intake
  <2>2. path \notin Merges /\ DOMAIN pair = {"A", "B"} /\ request \in Documents
    BY <2>1 DEF PInv, Concluded, Rounds
  <2>3. Rounds'
    BY <2>1, <2>2 DEF Rounds, Holds
  <2>4. Admitted' /\ Concluded'
    BY <2>1, <2>2 DEF Admitted, Concluded
  <2>. QED
    BY <2>1, <2>2, <2>3, <2>4 DEF PInv, Stages, Ended, Reviewing
<1>2. ASSUME NEW draft \in Drafts(request), NEW complete, Review(draft, complete)
      PROVE  PInv'
  BY <1>2, ReviewStep
<1>3. CASE Route
  <2>1. stage = "route" /\ UNCHANGED <<request, pair>>
    BY <1>3 DEF Route
  <2>2. Sound(request, pair["A"])
    BY <2>1 DEF PInv, Rounds, Holds
  <2>3. CASE stage' = "B" /\ UNCHANGED <<path, result>>
    <3>1. path \notin Merges /\ DOMAIN pair = {"A", "B"} /\ Accepted(request)
      BY <2>1 DEF PInv, Concluded, Rounds, Admitted
    <3>2. Rounds'
      BY <2>1, <2>2, <2>3, <3>1 DEF Rounds, Holds
    <3>3. Admitted' /\ Concluded'
      BY <2>1, <2>3, <3>1 DEF Admitted, Concluded
    <3>. QED
      BY <2>1, <2>3, <3>2, <3>3 DEF PInv, Stages, Reviewing
  <2>4. CASE Finish("a_only", pair["A"])
    <3>1. "a_only" \notin Merges
      BY DEF Merges
    <3>. QED
      BY <2>1, <2>2, <2>4, <3>1, FinishStep
  <2>. QED
    BY <1>3, <2>3, <2>4 DEF Route
<1>4. CASE Compare
  <2>1. stage = "compare" /\ request' = request
    BY <1>4 DEF Compare
  <2>2. Sound(request, pair["A"]) /\ Sound(request, pair["B"])
    BY <2>1 DEF PInv, Rounds, Holds
  <2>3. CASE RequiresReview(request, pair["A"], pair["B"], request.failed_goal)
    <3>1. /\ stage' = "cross A" /\ DOMAIN pair' = {"A", "B"}
          /\ path' = path /\ result' = result
      BY <1>4, <2>3 DEF Compare
    <3>2. path \notin Merges /\ Accepted(request)
      BY <2>1 DEF PInv, Concluded, Admitted
    <3>3. Rounds'
      BY <3>1 DEF Rounds, Holds
    <3>4. Admitted' /\ Concluded'
      BY <2>1, <3>1, <3>2 DEF Admitted, Concluded
    <3>. QED
      BY <2>1, <3>1, <3>3, <3>4 DEF PInv, Stages, Reviewing
  <2>4. CASE ~RequiresReview(request, pair["A"], pair["B"], request.failed_goal)
    <3> DEFINE m == Merged(request, pair["A"], pair["B"])
    <3>1. Finish("ab_agreement", m) /\ pair' = pair
      BY <1>4, <2>4 DEF Compare
    <3>2. /\ Sound(request, m)
          /\ NoBolder(request, pair["A"], m) /\ NoBolder(request, pair["B"], m)
      BY <2>2, <2>4, MergeIsSound
    <3> HIDE DEF m
    <3>. QED
      BY <2>1, <3>1, <3>2, FinishStep
  <2>. QED
    BY <2>3, <2>4
<1>5. CASE CrossCompare
  <2>1. stage = "cross compare" /\ UNCHANGED <<request, pair>>
    BY <1>5 DEF CrossCompare
  <2>2. Sound(request, pair["A"]) /\ Sound(request, pair["B"])
    BY <2>1 DEF PInv, Rounds, Holds
  <2>3. CASE RequiresReview(request, pair["A"], pair["B"], FALSE)
    <3>1. stage' = "C" /\ path' = path /\ result' = result
      BY <1>5, <2>3 DEF CrossCompare
    <3>2. path \notin Merges /\ DOMAIN pair = {"A", "B"} /\ Accepted(request)
      BY <2>1 DEF PInv, Concluded, Rounds, Admitted
    <3>3. Rounds'
      BY <2>1, <2>2, <3>1, <3>2 DEF Rounds, Holds
    <3>4. Admitted' /\ Concluded'
      BY <2>1, <3>1, <3>2 DEF Admitted, Concluded
    <3>. QED
      BY <2>1, <3>1, <3>3, <3>4 DEF PInv, Stages, Reviewing
  <2>4. CASE ~RequiresReview(request, pair["A"], pair["B"], FALSE)
    <3> DEFINE m == Merged(request, pair["A"], pair["B"])
    <3>1. Finish("cross_review_resolved", m)
      BY <1>5, <2>4 DEF CrossCompare
    <3>2. /\ Sound(request, m)
          /\ NoBolder(request, pair["A"], m) /\ NoBolder(request, pair["B"], m)
      BY <2>2, <2>4, MergeIsSound
    <3> HIDE DEF m
    <3>. QED
      BY <2>1, <3>1, <3>2, FinishStep
  <2>. QED
    BY <2>3, <2>4
<1>6. ASSUME NEW j \in Judgments,
             NEW draft \in IF j.selected = "none" THEN Resolutions(request) ELSE {None},
             Judge(j, draft)
      PROVE  PInv'
  <2> DEFINE resolution == Normalize(request, AssignClaimIds("judge", draft))
             available == IdsOf(pair["A"]) \cup IdsOf(pair["B"]) \cup claim_ids
             judgment == [verdict |-> j.verdict, selected |-> j.selected,
                          classified |-> IF j.complete THEN available ELSE claim_ids]
             final == IF j.selected = "none" THEN resolution ELSE pair[j.selected]
  <2>1. stage = "judge" /\ UNCHANGED <<request, pair>>
    BY <1>6 DEF Judge
  <2>2. /\ Sound(request, pair["A"]) /\ Sound(request, pair["B"])
        /\ request \in Documents /\ DOMAIN pair = {"A", "B"} /\ Accepted(request)
        /\ path \notin Merges
    BY <2>1 DEF PInv, Rounds, Holds, Admitted, Concluded
  <2>3. CASE ~ValidJudgment(request, judgment, resolution, available)
    <3>1. stage' = "failed" /\ path' = path /\ result' = result
      BY <1>6, <2>3 DEF Judge
    <3>2. Rounds'
      BY <2>1, <2>2, <3>1 DEF Rounds, Holds
    <3>3. Admitted' /\ Concluded'
      BY <2>1, <2>2, <3>1 DEF Admitted, Concluded
    <3>. QED
      BY <2>1, <2>2, <3>1, <3>2, <3>3 DEF PInv, Stages, Ended
  <2>4. CASE ValidJudgment(request, judgment, resolution, available)
    <3>1. Finish("c_tie_broken", final)
      BY <1>6, <2>4 DEF Judge
    <3>2. Sound(request, final)
      <4>1. CASE j.selected = "none"
        <5>1. draft \in Outputs(request, Seq(SUBSET STRING))
          BY <1>6, <2>2, <4>1, PanelConstants
        <5>2. "judge" \in Stages
          BY DEF Stages
        <5>3. resolution \in Outputs(request, SUBSET Claims)
          BY <2>2, <5>1, <5>2, NormalizedType
        <5>4. judgment.selected = "none"
          BY <4>1
        <5> HIDE DEF judgment, available, resolution
        <5>5. Valid(request, resolution)
          BY <2>4, <5>4 DEF ValidJudgment, Valid, JudgmentValid, VentureJudgmentValid
        <5>. QED
          BY <4>1, <5>3, <5>5 DEF Sound
      <4>2. CASE j.selected # "none"
        <5>1. j.selected \in {"A", "B"}
          BY <1>6, <4>2, PanelConstants
        <5>. QED
          BY <2>2, <4>2, <5>1
      <4>. QED
        BY <4>1, <4>2
    <3>3. "c_tie_broken" \notin Merges
      BY DEF Merges
    <3> HIDE DEF final
    <3>. QED
      BY <2>1, <3>1, <3>2, <3>3, FinishStep
  <2>. QED
    BY <2>3, <2>4
<1>7. CASE UNCHANGED vars
  <2>1. /\ request' = request /\ stage' = stage /\ pair' = pair
        /\ path' = path /\ result' = result
    BY <1>7 DEF vars
  <2>2. Rounds'
    BY <2>1 DEF PInv, Rounds
  <2>3. Admitted'
    BY <2>1 DEF PInv, Admitted
  <2>4. Concluded'
    BY <2>1 DEF PInv, Concluded
  <2>. QED
    BY <2>1, <2>2, <2>3, <2>4 DEF PInv
<1>. QED
  BY <1>1, <1>2, <1>3, <1>4, <1>5, <1>6, <1>7 DEF Next, Over

-----------------------------------------------------------------------------
(* What a review ends with *)

\* The invariant, for any documents, answers, judgments and plan.
THEOREM PanelInvariant == Spec => []PInv
  BY PanelInit, PanelStep, PTL DEF Spec

\* The assessment a review returns satisfies the rules a reviewer's own answer
\* has to satisfy: _merged_assessment of either pack needs no validation.
THEOREM FinalAlwaysValid == Spec => []FinalIsValid
<1>1. PInv => FinalIsValid
  BY DEF PInv, Concluded, Sound, FinalIsValid
<1>. QED
  BY <1>1, PanelInvariant, PTL

\* _merged_assessment keeps the more cautious of both on every axis.
THEOREM MergeAlwaysCautious == Spec => []MergeIsCautious
<1>1. PInv => MergeIsCautious
  BY DEF PInv, Concluded, MergeIsCautious
<1>. QED
  BY <1>1, PanelInvariant, PTL

\* validate_request, normalize_assessment and validate_assessment together keep
\* experiments, changes and optimizing actions away from unfit evidence.
THEOREM UnfitEvidenceNeverOptimizes == Spec => []IneligibleEvidenceNeverOptimizes
<1>1. PInv => IneligibleEvidenceNeverOptimizes
  <2> SUFFICES ASSUME PInv, stage = "returned", IsMarketing(request),
                      \/ request.tracking_health = "unhealthy"
                      \/ request.is_partial
                      \/ request.quality_label = "insufficient"
               PROVE  /\ result.final.category \notin {"experiment", "operational_change"}
                      /\ ActionTypes(result.final) \subseteq MarketingAds.non_optimization
    BY DEF IneligibleEvidenceNeverOptimizes
  <2>1. RequestAccepted(request)
    BY DEF PInv, Admitted, Accepted
  <2>2. Reasons(request) # {}
    BY DEF Reasons
  <2>3. ~request.optimization_eligible
    BY <2>1, <2>2 DEF RequestAccepted
  <2>4. AssessmentValid(request, result.final)
    BY DEF PInv, Concluded, Sound, Valid
  <2>. QED
    BY <2>3, <2>4 DEF AssessmentValid, IneligibleIsHarmless
<1>. QED
  BY <1>1, PanelInvariant, PTL

\* build_review_result never raises on the contract check of the result.
THEOREM PanelAlwaysReturns == Spec => []CompletedPanelReturns
<1>1. PInv => CompletedPanelReturns
  BY DEF PInv, Concluded, CompletedPanelReturns
<1>. QED
  BY <1>1, PanelInvariant, PTL
=============================================================================
