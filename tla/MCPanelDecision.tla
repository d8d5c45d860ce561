--------------------------- MODULE MCPanelDecision ---------------------------
(* Documents and answers of PanelDecision for model checking: magnitudes and *)
(* hours are chosen so that every distance is a multiple of 1/Unit.          *)
EXTENDS PanelDecision

Facts == {"sections.goal", "sections.evidence"}

MarketingBase ==
    [task_pack_ref |-> Marketing, asks_b |-> FALSE, failed_goal |-> FALSE,
     allowed_actions |-> {"retain_creative", "collect_more_data", "diagnose_tracking",
                          "budget_increase", "budget_decrease", "propose_experiment"},
     allowed_recommendations |-> MarketingAds.categories \ {"freeze"},
     tracking_health |-> "healthy", is_partial |-> FALSE, quality_label |-> "adequate",
     optimization_eligible |-> TRUE, primary_conversion |-> "purchase",
     period_start |-> 0, period_end |-> 10, observed_at |-> 12, due_at |-> 24,
     impressions |-> 100, spend |-> 50, min_impressions |-> 100, min_spend |-> 50,
     cpa |-> 12, target_cpa |-> 10, cpa_deviation_pct |-> 25,
     max_budget_change |-> 20, paths |-> Facts]

\* Reviewed, with and without reviewer B, on fit and on unfit evidence.
MarketingReviewed ==
    {MarketingBase,
     [MarketingBase EXCEPT !.asks_b = TRUE],
     [MarketingBase EXCEPT !.asks_b = TRUE, !.failed_goal = TRUE, !.max_budget_change = None],
     [MarketingBase EXCEPT !.cpa = 13, !.is_partial = TRUE, !.optimization_eligible = FALSE],
     [MarketingBase EXCEPT !.cpa = None, !.tracking_health = "unhealthy",
                           !.optimization_eligible = FALSE]}

\* Turned down at intake, each for a reason of its own, or at its very bound.
MarketingOther ==
    {[MarketingBase EXCEPT !.tracking_health = "unhealthy"],
     [MarketingBase EXCEPT !.is_partial = TRUE],
     [MarketingBase EXCEPT !.quality_label = "insufficient"],
     [MarketingBase EXCEPT !.period_end = 13],
     [MarketingBase EXCEPT !.due_at = 11],
     [MarketingBase EXCEPT !.due_at = 37],
     [MarketingBase EXCEPT !.allowed_actions = @ \cup {"launch_campaign"}]}

VentureBase ==
    [task_pack_ref |-> "venture-submission/v1", asks_b |-> FALSE, failed_goal |-> FALSE,
     allowed_recommendations |-> VentureConfig.allowed_verdicts,
     submitted_at |-> 0, due_at |-> 24, total_words |-> 40, evidence_words |-> 40,
     gate_rejected |-> FALSE, max_feedback_words |-> 0, paths |-> Facts]

VentureDocuments ==
    {[VentureBase EXCEPT !.max_feedback_words = n] : n \in {0, 100, 700}}
      \cup {[VentureBase EXCEPT !.total_words = 39],
            [VentureBase EXCEPT !.total_words = 39, !.evidence_words = 39],
            [VentureBase EXCEPT !.gate_rejected = TRUE],
            [VentureBase EXCEPT !.due_at = 2161]}

MCDocuments == MarketingReviewed \cup MarketingOther \cup VentureDocuments

-----------------------------------------------------------------------------
Act(type, target, magnitude, urgency) ==
    [type |-> type, target_id |-> target, magnitude |-> magnitude,
     urgency |-> urgency, confidence |-> 80]

Shape(category, actions, experiment) ==
    [category |-> category, actions |-> actions, experiment |-> experiment]

\* Raising and lowering one target, in either order, is what a list may hide.
Shapes ==
    {Shape("observe", << >>, None),
     Shape("observe", <<Act("retain_creative", "c1", None, "low")>>, None),
     Shape("collect_more_data", << >>, None),
     Shape("tracking_or_data_problem", <<Act("diagnose_tracking", "c1", None, "high")>>, None),
     Shape("operational_change", <<Act("budget_increase", "c1", 10, "normal")>>, None),
     Shape("operational_change", <<Act("budget_increase", "c1", 20, "high")>>, None),
     Shape("operational_change", <<Act("budget_increase", "c1", None, "normal")>>, None),
     Shape("operational_change", <<Act("budget_decrease", "c1", 30, "normal")>>, None),
     Shape("operational_change", <<Act("budget_increase", "c1", 10, "normal"),
                                   Act("budget_decrease", "c1", 20, "normal")>>, None),
     Shape("operational_change", <<Act("budget_decrease", "c1", 20, "normal"),
                                   Act("budget_increase", "c1", 20, "low")>>, None),
     Shape("experiment", <<Act("propose_experiment", "c2", None, "normal")>>, "defined"),
     Shape("experiment", << >>, None),
     Shape("freeze", << >>, None)}

\* Of the facts of the request a reviewer says what it likes.
Draft(shape, risk, quality, impact, missing, hours, confidence, claims) ==
    [category |-> shape.category, actions |-> shape.actions, experiment |-> shape.experiment,
     risk |-> risk, evidence_quality |-> quality, expected_goal_impact |-> impact,
     missing_evidence |-> missing, review_after_hours |-> hours, confidence |-> confidence,
     claims |-> claims, material |-> FALSE, tracking_health |-> "healthy",
     optimization_eligible |-> TRUE, primary_conversion |-> None]

MarketingDrafts ==
    UNION {{Draft(shape, "low", "strong", "positive", {}, 24, 90, <<{"sections.goal"}>>),
            Draft(shape, "low", "adequate", "positive", {"ltv"}, 12, 80, <<Facts, Facts>>),
            Draft(shape, "medium", "weak", "neutral", {"volume"}, None, 60, <<Facts>>)}
             : shape \in Shapes}
      \cup {Draft(Shape("observe", << >>, None), "low", "strong", "positive", {}, 24, 90, claims)
              : claims \in {<< >>, <<{}>>, <<{"sections.unknown"}>>}}
      \cup {Draft(Shape("observe", << >>, None), "low", "strong", None, {}, 24, 90, <<Facts>>)}

Scores(n, risk) ==
    [d \in ScoreDimensions |-> CASE d = "risk_exposure" -> risk
                                 [] d = "feasibility" -> n [] OTHER -> 3]

\* missing and weaknesses name what the quality lacks.
VentureDraft(category, scores, risk, quality, feedback, concern) ==
    [category |-> category, scores |-> scores, risk |-> risk, evidence_quality |-> quality,
     feedback |-> feedback, missing_evidence |-> concern, weaknesses |-> concern,
     strengths |-> {}, confidence |-> 50 + feedback \div 10, material |-> FALSE,
     claims |-> <<Facts>>]

VentureDrafts ==
    {VentureDraft(category, scores, risk, quality, text[1], text[2]) :
        category \in VentureConfig.allowed_verdicts,
        scores \in {Scores(2, 4), Scores(3, 2), Scores(5, 3)},
        risk \in {"low", "high"},
        quality \in {"insufficient", "adequate"},
        text \in {<<100, {}>>, <<400, {"team"}>>}}

MCDrafts(doc) ==
    IF doc.task_pack_ref = Marketing THEN MarketingDrafts ELSE VentureDrafts

MCResolutions(doc) ==
    IF doc.task_pack_ref = Marketing
    THEN {d \in MarketingDrafts : d.evidence_quality = "adequate"}
    ELSE {d \in VentureDrafts : d.risk = "low" /\ d.scores = Scores(3, 2)}

MCJudgments ==
    [verdict : {"select_a"}, selected : {"A"}, complete : BOOLEAN]
      \cup [verdict : {"select_b"}, selected : {"B"}, complete : {TRUE}]
      \cup [verdict : {"synthesize", "escalate"}, selected : {"none"}, complete : {TRUE}]
=============================================================================
