---------------------------- MODULE Orchestrator ----------------------------
(***************************************************************************)
(* One automatic review: ReviewOrchestrator.run on one session whose       *)
(* request has been validated and snapshotted.                             *)
(*                                                                         *)
(* Several runners may be inside run() for the same session at once: the   *)
(* worker that holds the work item, a worker whose lease ran out while a   *)
(* provider was slow, and API calls.  They share nothing but the ledger.   *)
(* A step of a runner is one ledger transaction or one provider call;      *)
(* methods that look a row up and insert it when it is missing are two     *)
(* steps, because read-committed transactions of two runners interleave    *)
(* there.  Reads of completed outputs are merged with the step that uses   *)
(* them: a completed output never changes (RecordsAreImmutable).           *)
(* A runner may be lost between any two steps, and may be started again    *)
(* at any time (retry of the work item, another API call).                 *)
(***************************************************************************)
EXTENDS Naturals, Sequences, FiniteSets, ReviewStates, ReviewRoute

CONSTANTS
    Runners,         \* concurrent calls of run() on the session
    CallAttempts,    \* attempts one provider call may report (0: fixtures)
    MaxCrashes,      \* bound: runners lost inside run()
    MaxRecoveries    \* bound: operator recoveries of the cross review

ASSUME OrchestratorConstants ==
    /\ CallAttempts \subseteq Nat
    /\ MaxCrashes \in Nat
    /\ MaxRecoveries \in Nat

VARIABLES
    request,         \* routing facts of the request snapshot; never change
    state, trace,    \* current_state, and the targets of its audit events
    \* columns of reviewer_invocations, one function per column
    status, payload, attempt_count,
    comparisons,     \* number of comparison_completed events per stage
    result,          \* review_results: the immutable document
    \* local state of the runners
    pc, key, target, first, call, seen, document,
    crashes, recoveries

ledgerVars == <<request, state, trace, status, payload, attempt_count,
                comparisons, result>>
runnerVars == <<pc, key, target, first, call, seen, document>>
envVars == <<crashes, recoveries>>
vars == <<ledgerVars, runnerVars, envVars>>

-----------------------------------------------------------------------------
(* Values *)

Stages == {"independent", "cross_review"}

\* A comparison is made when the second output of its stage is there.
StageOf(k) == IF k = "cross_b" THEN "cross_review" ELSE "independent"

Paths == {"a_only", "ab_agreement", "cross_review_resolved", "c_tie_broken"}

ResolvedStates == {"auto_resolved", "caller_decision_required"}
FinishingStates == {"reviewer_adjudication"} \cup ResolvedStates

\* Mutant of ResumableStates: one state of the loop is forgotten.
ResumableStatesIncomplete ==
    {"snapshotted", "reviewer_a", "baseline_recorded", "reviewer_b",
     "cross_review", "reviewer_c_independent", "reviewer_c_judging",
     "result_returned"} \cup FinishingStates

ResumableStates ==
    {"snapshotted", "reviewer_a", "baseline_recorded", "reviewer_b",
     "comparing", "cross_review", "reviewer_c_independent",
     "reviewer_c_judging", "result_returned"} \cup FinishingStates

FailedStates == {"reviewer_a_failed", "reviewer_b_failed",
                 "cross_review_failed", "reviewer_c_failed"}

None == "none"

NoCall == [kind |-> None, output |-> NoPayload, attempts |-> 0]

NoDocument == [path |-> None, final |-> NoPayload, status |-> None,
               reviewers |-> {}, telemetry |-> [k \in Keys |-> 0]]

\* What runtime.review can do: return an output that passes the contract, an
\* output that breaks it, give up with its attempts, or raise without any
\* (unknown provider, refused by the attempt guard).
Calls(k) ==
    [kind : {"ok"}, output : Answers[k], attempts : CallAttempts]
      \cup [kind : {"invalid"}, output : {NoPayload}, attempts : CallAttempts]
      \cup [kind : {"exhausted"}, output : {NoPayload},
            attempts : CallAttempts \ {0}]
      \cup [kind : {"refused"}, output : {NoPayload}, attempts : {0}]

Documents ==
    [path : Paths \cup {None}, final : Assessments \cup {NoPayload},
     status : ResolvedStates \cup {None, "draft"},
     reviewers : SUBSET Keys, telemetry : [Keys -> Nat]]

RunnerSteps ==
    {"idle", "load", "transition", "record", "insert", "review", "attempts",
     "fail", "complete", "compare", "append", "derive", "adjudicate",
     "build", "result", "insert_result"}

TypeOK ==
    /\ request \in Requests
    /\ state \in ReviewStateSet
    /\ trace \in Seq(ReviewStateSet)
    /\ status \in [Keys -> {"absent", "pending", "completed", "failed"}]
    /\ payload \in [Keys -> Judgments \cup {NoPayload}]
    /\ attempt_count \in [Keys -> Nat]
    /\ comparisons \in [Stages -> Nat]
    /\ result \in Documents
    /\ pc \in [Runners -> RunnerSteps]
    /\ key \in [Runners -> Keys \cup {None}]
    /\ target \in [Runners -> ReviewStateSet \cup {None}]
    /\ first \in [Runners -> Nat]
    /\ call \in [Runners -> [kind : {"ok", "invalid", "exhausted", "refused", None},
                             output : Judgments \cup {NoPayload},
                             attempts : Nat]]
    /\ seen \in [Runners -> ReviewStateSet \cup {None}]
    /\ document \in [Runners -> Documents]
    /\ crashes \in Nat
    /\ recoveries \in Nat

Init ==
    /\ request \in Requests
    /\ state = "snapshotted"
    /\ trace = <<"requested", "validated", "snapshotted">>
    /\ status = [k \in Keys |-> "absent"]
    /\ payload = [k \in Keys |-> NoPayload]
    /\ attempt_count = [k \in Keys |-> 0]
    /\ comparisons = [s \in Stages |-> 0]
    /\ result = NoDocument
    /\ pc = [r \in Runners |-> "idle"]
    /\ key = [r \in Runners |-> None]
    /\ target = [r \in Runners |-> None]
    /\ first = [r \in Runners |-> 0]
    /\ call = [r \in Runners |-> NoCall]
    /\ seen = [r \in Runners |-> None]
    /\ document = [r \in Runners |-> NoDocument]
    /\ crashes = 0
    /\ recoveries = 0

-----------------------------------------------------------------------------
(* Moves of a runner between steps *)

\* run() returns, raises or its process is lost: the locals are gone.
EndRun(r) ==
    /\ pc' = [pc EXCEPT ![r] = "idle"]
    /\ key' = [key EXCEPT ![r] = None]
    /\ target' = [target EXCEPT ![r] = None]
    /\ first' = [first EXCEPT ![r] = 0]
    /\ call' = [call EXCEPT ![r] = NoCall]
    /\ seen' = [seen EXCEPT ![r] = None]
    /\ document' = [document EXCEPT ![r] = NoDocument]

GoTo(r, step) ==
    /\ pc' = [pc EXCEPT ![r] = step]
    /\ UNCHANGED <<key, target, first, call, seen, document>>

\* The next iteration of the loop in run() starts without locals.
NextIteration(r) ==
    /\ pc' = [pc EXCEPT ![r] = "load"]
    /\ key' = [key EXCEPT ![r] = None]
    /\ target' = [target EXCEPT ![r] = None]
    /\ UNCHANGED <<first, call, seen, document>>

\* _transition(session_id, t) comes next.
ToTransition(r, t) ==
    /\ pc' = [pc EXCEPT ![r] = "transition"]
    /\ target' = [target EXCEPT ![r] = t]
    /\ key' = [key EXCEPT ![r] = None]
    /\ first' = [first EXCEPT ![r] = 0]
    /\ call' = [call EXCEPT ![r] = NoCall]
    /\ UNCHANGED <<seen, document>>

\* The step `step' for invocation k comes next.
ToKey(r, step, k) ==
    /\ pc' = [pc EXCEPT ![r] = step]
    /\ key' = [key EXCEPT ![r] = k]
    /\ first' = [first EXCEPT ![r] = 0]
    /\ call' = [call EXCEPT ![r] = NoCall]
    /\ UNCHANGED <<target, seen, document>>

\* Mutant of AfterInvoke: the round-2 comparison is not recorded.
AfterInvokeUnrecorded(r, k) ==
    \/ k = "a" /\ ToTransition(r, "baseline_recorded")
    \/ k = "b" /\ ToTransition(r, "comparing")
    \/ k = "cross_a" /\ ToKey(r, "record", "cross_b")
    \/ k = "c" /\ ToTransition(r, "reviewer_c_judging")
    \/ k \in {"cross_b", "judge"} /\ ToKey(r, "derive", None)

\* What run() does with the output of invocation k.
AfterInvoke(r, k) ==
    \/ k = "a" /\ ToTransition(r, "baseline_recorded")
    \/ k = "b" /\ ToTransition(r, "comparing")
    \/ k = "cross_a" /\ ToKey(r, "record", "cross_b")
    \/ k = "cross_b" /\ ToKey(r, "compare", "cross_b")
    \/ k = "c" /\ ToTransition(r, "reviewer_c_judging")
    \/ k = "judge" /\ ToKey(r, "derive", None)

\* What run() does once the comparison that closes invocation k is recorded.
AfterComparison(r, k) ==
    LET required == IF k = "cross_b" THEN CrossRequires(payload)
                                     ELSE InitialRequires(request, payload)
    IN  \/ ~required /\ ToKey(r, "derive", None)
        \/ required /\ k = "b" /\ ToTransition(r, "cross_review")
        \/ required /\ k = "cross_b" /\ ToTransition(r, "reviewer_c_independent")

-----------------------------------------------------------------------------
(* The loop of run() *)

\* A worker or an API request calls run().
Begin(r) ==
    /\ pc[r] = "idle"
    /\ GoTo(r, "load")
    /\ UNCHANGED <<ledgerVars, envVars>>

Completed(k) == status[k] = "completed"
Exists(k) == status[k] # "absent"

\* The completed outputs each state of run() reads before it acts.
ReadsOf(s) ==
    CASE s = "baseline_recorded" -> {"a"}
      [] s \in {"comparing", "cross_review"} -> {"a", "b"}
      [] s = "reviewer_c_judging" -> {"a", "b", "cross_a", "cross_b", "c"}
      [] OTHER -> {}

CanResume ==
    /\ state \in ResumableStates
    /\ \A k \in ReadsOf(state) : Completed(k)
    /\ state = "result_returned" => result # NoDocument

\* One iteration: load the session and branch on its state.
Resume(r) ==
    /\ pc[r] = "load"
    /\ CanResume
    /\ \/ state = "result_returned" /\ EndRun(r)
       \/ state = "snapshotted" /\ ToTransition(r, "reviewer_a")
       \/ state = "reviewer_a" /\ ToKey(r, "record", "a")
       \/ /\ state = "baseline_recorded"
          /\ IF ExpandsToB(request, payload["a"])
             THEN ToTransition(r, "reviewer_b")
             ELSE GoTo(r, "derive")
       \/ state = "reviewer_b" /\ ToKey(r, "record", "b")
       \/ state = "comparing" /\ ToKey(r, "compare", "b")
       \/ state = "cross_review" /\ ToKey(r, "record", "cross_a")
       \/ state = "reviewer_c_independent" /\ ToKey(r, "record", "c")
       \/ state = "reviewer_c_judging" /\ ToKey(r, "record", "judge")
       \/ state \in FinishingStates /\ GoTo(r, "derive")
    /\ UNCHANGED <<ledgerVars, envVars>>

ResumeRefused(r) ==
    /\ pc[r] = "load"
    /\ ~CanResume
    /\ EndRun(r)
    /\ UNCHANGED <<ledgerVars, envVars>>

\* What follows a transition made by this runner depends on its target only.
AfterTransition(r, t) ==
    \/ t \in FailedStates \cup {"result_returned"} /\ EndRun(r)
    \/ /\ t = "reviewer_adjudication"
       /\ pc' = [pc EXCEPT ![r] = "build"]
       /\ target' = [target EXCEPT ![r] = None]
       /\ seen' = [seen EXCEPT ![r] = t]
       /\ UNCHANGED <<key, first, call, document>>
    \/ /\ t \in ResolvedStates
       /\ pc' = [pc EXCEPT ![r] = "result"]
       /\ target' = [target EXCEPT ![r] = None]
       /\ UNCHANGED <<key, first, call, seen, document>>
    \/ /\ t \notin FailedStates \cup FinishingStates \cup {"result_returned"}
       /\ NextIteration(r)

\* transition_session.
Transition(r) ==
    /\ pc[r] = "transition"
    /\ ValidTransition(state, target[r])
    /\ state' = target[r]
    /\ trace' = Append(trace, target[r])
    /\ AfterTransition(r, target[r])
    /\ UNCHANGED <<request, status, payload, attempt_count, comparisons,
                   result, envVars>>

TransitionRefused(r) ==
    /\ pc[r] = "transition"
    /\ ~ValidTransition(state, target[r])
    /\ EndRun(r)
    /\ UNCHANGED <<ledgerVars, envVars>>

-----------------------------------------------------------------------------
(* _invoke *)

\* Mutant of ToReview: attempts are numbered one too high.
ToReviewOffByOne(r, count) ==
    /\ pc' = [pc EXCEPT ![r] = "review"]
    /\ first' = [first EXCEPT ![r] = count + 2]
    /\ UNCHANGED <<key, target, call, seen, document>>

\* The runner holds a pending invocation and will number its attempts from
\* attempt_count + 1.
ToReview(r, count) ==
    /\ pc' = [pc EXCEPT ![r] = "review"]
    /\ first' = [first EXCEPT ![r] = count + 1]
    /\ UNCHANGED <<key, target, call, seen, document>>

\* record_invocation: look the invocation up.
RecordInvocation(r) ==
    /\ pc[r] = "record"
    /\ LET k == key[r] IN
         \/ status[k] = "absent" /\ GoTo(r, "insert")
         \/ status[k] = "completed" /\ AfterInvoke(r, k)
         \/ status[k] = "pending" /\ ToReview(r, attempt_count[k])
         \/ status[k] = "failed" /\ EndRun(r)
    /\ UNCHANGED <<ledgerVars, envVars>>

\* record_invocation: insert it; another runner's row is an integrity error.
InsertInvocation(r) ==
    /\ pc[r] = "insert"
    /\ status[key[r]] = "absent"
    /\ status' = [status EXCEPT ![key[r]] = "pending"]
    /\ ToReview(r, 0)
    /\ UNCHANGED <<request, state, trace, payload, attempt_count,
                   comparisons, result, envVars>>

InsertInvocationRefused(r) ==
    /\ pc[r] = "insert"
    /\ status[key[r]] # "absent"
    /\ EndRun(r)
    /\ UNCHANGED <<ledgerVars, envVars>>

\* runtime.review, outside any transaction.
Review(r) ==
    /\ pc[r] = "review"
    /\ \E c \in Calls(key[r]) :
         /\ call' = [call EXCEPT ![r] = c]
         /\ pc' = [pc EXCEPT ![r] = IF c.kind = "refused" THEN "fail" ELSE "attempts"]
    /\ UNCHANGED <<ledgerVars, key, target, first, seen, document, envVars>>

\* The attempts of this call carry numbers that are already taken.
AttemptsCollide(r) ==
    call[r].attempts > 0 /\ first[r] <= attempt_count[key[r]]

\* record_provider_attempts.
RecordAttempts(r) ==
    /\ pc[r] = "attempts"
    /\ ~AttemptsCollide(r)
    /\ attempt_count' = [attempt_count EXCEPT ![key[r]] = @ + call[r].attempts]
    /\ GoTo(r, IF call[r].kind = "ok" THEN "complete" ELSE "fail")
    /\ UNCHANGED <<request, state, trace, status, payload, comparisons,
                   result, envVars>>

\* The conflict is caught like a provider failure, unless it is raised while
\* an exhausted call is being handled: then it escapes.
RecordAttemptsRefused(r) ==
    /\ pc[r] = "attempts"
    /\ AttemptsCollide(r)
    /\ IF call[r].kind = "exhausted" THEN EndRun(r) ELSE GoTo(r, "fail")
    /\ UNCHANGED <<ledgerVars, envVars>>

FailureState(k) ==
    IF k \in {"cross_a", "cross_b"} THEN "cross_review_failed"
    ELSE IF k = "a" THEN "reviewer_a_failed"
    ELSE IF k = "b" THEN "reviewer_b_failed"
    ELSE "reviewer_c_failed"

\* Mutant of FailInvocation: the invocation is not marked.
FailInvocationUnmarked(r) ==
    /\ pc[r] = "fail"
    /\ status[key[r]] = "pending"
    /\ ToTransition(r, FailureState(key[r]))
    /\ UNCHANGED <<ledgerVars, envVars>>

\* fail_invocation; the failed state follows in a transaction of its own.
FailInvocation(r) ==
    /\ pc[r] = "fail"
    /\ status[key[r]] = "pending"
    /\ status' = [status EXCEPT ![key[r]] = "failed"]
    /\ ToTransition(r, FailureState(key[r]))
    /\ UNCHANGED <<request, state, trace, payload, attempt_count,
                   comparisons, result, envVars>>

FailInvocationRefused(r) ==
    /\ pc[r] = "fail"
    /\ status[key[r]] # "pending"
    /\ EndRun(r)
    /\ UNCHANGED <<ledgerVars, envVars>>

\* Mutant of CanComplete: a late report completes an invocation that has failed.
CanCompleteFailed(r) ==
    \/ status[key[r]] \in {"pending", "failed"}
    \/ payload[key[r]] = call[r].output

\* Mutant of CanComplete: a late report replaces the recorded output.
CanCompleteAgain(r) == status[key[r]] \in {"pending", "completed"}

\* complete_invocation accepts a second report only if it is the same.
CanComplete(r) ==
    \/ status[key[r]] = "pending"
    \/ Completed(key[r]) /\ payload[key[r]] = call[r].output

CompleteInvocation(r) ==
    /\ pc[r] = "complete"
    /\ CanComplete(r)
    /\ status' = [status EXCEPT ![key[r]] = "completed"]
    /\ payload' = [payload EXCEPT ![key[r]] = call[r].output]
    /\ AfterInvoke(r, key[r])
    /\ UNCHANGED <<request, state, trace, attempt_count, comparisons, result,
                   envVars>>

CompleteInvocationRefused(r) ==
    /\ pc[r] = "complete"
    /\ ~CanComplete(r)
    /\ EndRun(r)
    /\ UNCHANGED <<ledgerVars, envVars>>

-----------------------------------------------------------------------------
(* _record_comparison *)

\* Mutant of RecordComparison: the event is appended without looking it up.
RecordComparisonBlindly(r) ==
    /\ pc[r] = "compare"
    /\ GoTo(r, "append")
    /\ UNCHANGED <<ledgerVars, envVars>>

\* record_comparison: look the event up.  Its payload is a function of the
\* immutable outputs, so an event found is always the same.
RecordComparison(r) ==
    /\ pc[r] = "compare"
    /\ IF comparisons[StageOf(key[r])] > 0
       THEN AfterComparison(r, key[r])
       ELSE GoTo(r, "append")
    /\ UNCHANGED <<ledgerVars, envVars>>

\* record_comparison: append the event.  The stream row serialises writers,
\* but no constraint keeps a second event of the stage out.
AppendComparison(r) ==
    /\ pc[r] = "append"
    /\ comparisons' = [comparisons EXCEPT ![StageOf(key[r])] = @ + 1]
    /\ AfterComparison(r, key[r])
    /\ UNCHANGED <<request, state, trace, status, payload, attempt_count,
                   result, envVars>>

-----------------------------------------------------------------------------
(* _finish_resumably *)

\* _derive_outcome reads the path off the invocations that exist.
DerivedPath ==
    IF ~Exists("b") THEN "a_only"
    ELSE IF ~Exists("cross_a") /\ ~Exists("cross_b") THEN "ab_agreement"
    ELSE IF ~Exists("judge") THEN "cross_review_resolved"
    ELSE "c_tie_broken"

InvocationsOf(path) ==
    CASE path = "a_only" -> {"a"}
      [] path = "ab_agreement" -> {"a", "b"}
      [] path = "cross_review_resolved" -> {"a", "b", "cross_a", "cross_b"}
      [] path = "c_tie_broken" -> Keys
      [] OTHER -> {}

\* The outputs _derive_outcome needs; it never asks for C's own assessment.
Derivable ==
    /\ \A k \in InvocationsOf(DerivedPath) \ {"c"} : Completed(k)
    /\ DerivedPath = "ab_agreement" => ~InitialRequires(request, payload)
    /\ DerivedPath = "cross_review_resolved" => ~CrossRequires(payload)
    /\ DerivedPath = "c_tie_broken" => CrossRequires(payload)

\* _derive_outcome records the comparisons it recomputes where they are missing.
ComparisonsDerived ==
    [s \in Stages |->
       IF /\ comparisons[s] = 0
          /\ \A k \in (IF s = "independent" THEN {"a", "b"}
                       ELSE {"a", "b", "cross_a", "cross_b"}) : Completed(k)
       THEN 1 ELSE comparisons[s]]

Derive(r) ==
    /\ pc[r] = "derive"
    /\ comparisons' = ComparisonsDerived
    /\ IF Derivable
       THEN /\ pc' = [pc EXCEPT ![r] = "adjudicate"]
            /\ document' = [document EXCEPT ![r] =
                 [NoDocument EXCEPT !.path = DerivedPath, !.status = "draft",
                    !.final = FinalAssessment(DerivedPath, payload)]]
            /\ UNCHANGED <<key, target, first, call, seen>>
       ELSE EndRun(r)
    /\ UNCHANGED <<request, state, trace, status, payload, attempt_count,
                   result, envVars>>

\* The state is read again: adjudicate, unless that was already done.
Adjudicate(r) ==
    /\ pc[r] = "adjudicate"
    /\ IF state \in FinishingStates
       THEN /\ pc' = [pc EXCEPT ![r] = "build"]
            /\ seen' = [seen EXCEPT ![r] = state]
            /\ UNCHANGED <<key, target, first, call, document>>
       ELSE ToTransition(r, "reviewer_adjudication")
    /\ UNCHANGED <<ledgerVars, envVars>>

\* Mutant of BuiltDocument: every path may resolve by itself.
BuiltDocumentEveryPath(r) ==
    LET d == document[r] IN
        [d EXCEPT !.status = ResultStatus("a_only", d.final),
                  !.reviewers = {k \in Keys : Exists(k)},
                  !.telemetry = attempt_count]

\* build_review_result: the document also carries the telemetry of every
\* invocation, which a late runner can still change.
BuiltDocument(r) ==
    LET d == document[r] IN
        [d EXCEPT !.status = ResultStatus(d.path, d.final),
                  !.reviewers = {k \in Keys : Exists(k)},
                  !.telemetry = attempt_count]

\* Mutant of Build: the session always waits for the caller.
BuildForCaller(r) ==
    /\ pc[r] = "build"
    /\ LET d == BuiltDocument(r) IN
         IF seen[r] = "reviewer_adjudication"
         THEN /\ pc' = [pc EXCEPT ![r] = "transition"]
              /\ target' = [target EXCEPT ![r] = "caller_decision_required"]
              /\ document' = [document EXCEPT ![r] = d]
              /\ UNCHANGED <<key, first, call, seen>>
         ELSE EndRun(r)
    /\ UNCHANGED <<ledgerVars, envVars>>

\* A resolution state already in the ledger must be the one of the document.
Build(r) ==
    /\ pc[r] = "build"
    /\ LET d == BuiltDocument(r) IN
         IF seen[r] \in {"reviewer_adjudication", d.status}
         THEN /\ IF seen[r] = d.status
                 THEN /\ pc' = [pc EXCEPT ![r] = "result"]
                      /\ UNCHANGED target
                 ELSE /\ pc' = [pc EXCEPT ![r] = "transition"]
                      /\ target' = [target EXCEPT ![r] = d.status]
              /\ document' = [document EXCEPT ![r] = d]
              /\ UNCHANGED <<key, first, call, seen>>
         ELSE EndRun(r)
    /\ UNCHANGED <<ledgerVars, envVars>>

\* record_result: look the result up; a different document is a conflict.
RecordResult(r) ==
    /\ pc[r] = "result"
    /\ \/ result = NoDocument /\ GoTo(r, "insert_result")
       \/ result = document[r] /\ ToTransition(r, "result_returned")
       \/ result \notin {NoDocument, document[r]} /\ EndRun(r)
    /\ UNCHANGED <<ledgerVars, envVars>>

\* record_result: insert it, once per session.
InsertResult(r) ==
    /\ pc[r] = "insert_result"
    /\ result = NoDocument
    /\ result' = document[r]
    /\ ToTransition(r, "result_returned")
    /\ UNCHANGED <<request, state, trace, status, payload, attempt_count,
                   comparisons, envVars>>

InsertResultRefused(r) ==
    /\ pc[r] = "insert_result"
    /\ result # NoDocument
    /\ EndRun(r)
    /\ UNCHANGED <<ledgerVars, envVars>>

-----------------------------------------------------------------------------
(* The operator and the environment *)

FailedCrossReviews == {k \in {"cross_a", "cross_b"} : status[k] = "failed"}

\* Mutant of RecoverCrossReview: both cross reviews are reopened.
RecoverWholeCrossReview ==
    /\ recoveries < MaxRecoveries
    /\ ValidRecovery(state, "cross_review")
    /\ Cardinality(FailedCrossReviews) = 1
    /\ status' = [k \in Keys |->
                    IF k \in {"cross_a", "cross_b"} /\ Exists(k)
                    THEN "pending" ELSE status[k]]
    /\ state' = "cross_review"
    /\ trace' = Append(trace, "cross_review")
    /\ recoveries' = recoveries + 1
    /\ UNCHANGED <<request, payload, attempt_count, comparisons, result,
                   runnerVars, crashes>>

\* recover_cross_review.
RecoverCrossReview ==
    /\ recoveries < MaxRecoveries
    /\ ValidRecovery(state, "cross_review")
    /\ Cardinality(FailedCrossReviews) = 1
    /\ status' = [k \in Keys |->
                    IF k \in FailedCrossReviews THEN "pending" ELSE status[k]]
    /\ state' = "cross_review"
    /\ trace' = Append(trace, "cross_review")
    /\ recoveries' = recoveries + 1
    /\ UNCHANGED <<request, payload, attempt_count, comparisons, result,
                   runnerVars, crashes>>

\* The process of a runner is lost between two steps.
Crash(r) ==
    /\ crashes < MaxCrashes
    /\ pc[r] # "idle"
    /\ EndRun(r)
    /\ crashes' = crashes + 1
    /\ UNCHANGED <<ledgerVars, recoveries>>

\* A step of run() that a live process takes by itself.
Step(r) ==
    \/ Resume(r) \/ ResumeRefused(r)
    \/ Transition(r) \/ TransitionRefused(r)
    \/ RecordInvocation(r)
    \/ InsertInvocation(r) \/ InsertInvocationRefused(r)
    \/ Review(r)
    \/ RecordAttempts(r) \/ RecordAttemptsRefused(r)
    \/ FailInvocation(r) \/ FailInvocationRefused(r)
    \/ CompleteInvocation(r) \/ CompleteInvocationRefused(r)
    \/ RecordComparison(r) \/ AppendComparison(r)
    \/ Derive(r)
    \/ Adjudicate(r)
    \/ Build(r)
    \/ RecordResult(r)
    \/ InsertResult(r) \/ InsertResultRefused(r)

Next ==
    \/ \E r \in Runners : Begin(r) \/ Step(r) \/ Crash(r)
    \/ RecoverCrossReview

Spec == Init /\ [][Next]_vars

\* A live runner finishes what it started and work is started again until the
\* session settles; crashes and operators are not fair.
Fairness ==
    \A r \in Runners : WF_vars(Step(r)) /\ WF_vars(Begin(r))

LiveSpec == Spec /\ Fairness

-----------------------------------------------------------------------------
(* Properties *)

\* Write-once records: a completed invocation keeps its output for ever, also
\* against late runners and operator recovery, and so does the result.
RecordsAreImmutable ==
    [][/\ \A k \in Keys : Completed(k) => /\ status'[k] = "completed"
                                         /\ payload'[k] = payload[k]
       /\ result # NoDocument => result' = result]_vars

\* A reviewer is only ever assigned when the outputs recorded before call for
\* it, and every output the decision to assign it rests on is complete: no
\* interleaving of runners, one of which may have got another answer from an
\* earlier reviewer, buys an opinion the route does not need.
AssignedOnlyWhenCalledFor ==
    /\ Exists("b") => Completed("a") /\ ExpandsToB(request, payload["a"])
    /\ Exists("cross_a") => Completed("b") /\ InitialRequires(request, payload)
    /\ Exists("cross_b") => Completed("cross_a")
    /\ Exists("c") => Completed("cross_b") /\ CrossRequires(payload)
    /\ Exists("judge") => Completed("c")

\* A failed cross review can always be recovered by recover_cross_review,
\* which insists on exactly one failed invocation.
CrossReviewRecoverable ==
    state = "cross_review_failed" => Cardinality(FailedCrossReviews) = 1

\* _derive_outcome finds what it needs whenever it is reached: none of its
\* "missing assessment" or "cross review is required" errors can be raised,
\* and the comparisons it rests on are already in the ledger.
DerivationSucceeds ==
    \A r \in Runners : pc[r] = "derive" => Derivable /\ comparisons = ComparisonsDerived

\* Whatever runner resumes a resolved session rebuilds the status that is
\* already in the ledger: "persisted resolution state disagrees with the
\* reconstructed result" is never raised.
ResolutionReproducible ==
    \A r \in Runners :
        pc[r] = "build" => seen[r] \in {"reviewer_adjudication", BuiltDocument(r).status}

\* Attempts of an invocation are numbered 1, 2, ... without a gap, across
\* runners, crashes and recoveries: a call never numbers its attempts beyond
\* the next free one.
AttemptNumbersHaveNoGap ==
    \A r \in Runners :
        pc[r] \in {"review", "attempts"} => first[r] <= attempt_count[key[r]] + 1

\* The session implements the contract of a review.
Contract ==
    INSTANCE ReviewContract WITH
        opinions <- payload,
        phase <- IF state = "result_returned" THEN "returned"
                 ELSE IF state \in FailedStates THEN "failed" ELSE "open",
        decision <- [path |-> result.path, final |-> result.final,
                     status |-> result.status]

\* Runners, crashes and recoveries together show a caller nothing but a step
\* of ReviewContract: every opinion once and in order, one decision, which is
\* the function of the opinions the contract states, and a failure only while
\* an opinion is missing.
ImplementsContract == Contract!Spec

Settled == state \in FailedStates \cup {"result_returned"}

\* A runner was lost after fail_invocation and before the failed state.
Stranded == ~Settled /\ \E k \in Keys : status[k] = "failed"

\* A review that is run again and again ends with its result or in a failed
\* state; the only other end is the stranded session.
ReviewSettles == <>[](Settled \/ Stranded)
=============================================================================
