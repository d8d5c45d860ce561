--------------------------- MODULE MCOrchestrator ---------------------------
EXTENDS AuditVerifier, TLC

CONSTANTS keep, raise, trim

\* `keep' is not material and conflicts with both material assessments;
\* `raise' and `trim' agree and merge to the more conservative `trim'.
MCConflicts ==
    {p \in Assessments \X Assessments : p[1] # p[2] /\ keep \in {p[1], p[2]}}

MCMerge ==
    [p \in Assessments \X Assessments |-> IF p[1] = p[2] \/ keep \in {p[1], p[2]} THEN p[1] ELSE trim]

\* A scheduled review that nothing but A's own recommendation expands.
Routine ==
    [kind |-> "scheduled_a", material |-> FALSE, sampled |-> FALSE,
     enabled |-> ExpansionTriggers]

\* A sampled session whose request is material to a plan that does not mind.
Disputed == [Routine EXCEPT !.kind = "manual", !.material = TRUE, !.sampled = TRUE,
                            !.enabled = {}]

\* Each trigger alone, enabled and not, with and without the sample.
AllRequests ==
    {Routine, Disputed,
     [Routine EXCEPT !.kind = "scheduled_b"],
     [Routine EXCEPT !.kind = "failed_goal"],
     [Routine EXCEPT !.kind = "failed_goal", !.enabled = @ \ {"failed_goal"}],
     [Routine EXCEPT !.material = TRUE],
     [Routine EXCEPT !.material = TRUE, !.sampled = TRUE, !.enabled = @ \ {"request_material"}],
     [Routine EXCEPT !.sampled = TRUE],
     [Routine EXCEPT !.sampled = TRUE, !.enabled = @ \ {"recommendation_material"}]}

\* Every answer.
AllAnswers == [k \in Keys |-> PayloadsOf(k)]

\* The requests and answers that reach every route with few combinations:
\* each decision point can go either way and each reviewer whose second
\* report could be refused has two answers.
FewRequests == {Routine, Disputed}
RoutineRequests == {Routine}
FewAnswers ==
    [k \in Keys |-> CASE k \in {"a", "b", "cross_b"} -> {keep, raise}
                      [] k = "cross_a" -> {raise}
                      [] k = "c" -> {keep}
                      [] k = "judge" -> {"A", keep}]

RunnerSymmetry == Permutations(Runners)
=============================================================================
