--------------------------- MODULE OrchestratorProofs ---------------------------
(***************************************************************************)
(* One automatic review keeps its promises for any number of runners,      *)
(* crashes and recoveries, any assessments and any answers.                *)
(*                                                                         *)
(* The argument: the route is a function of the outputs recorded so far,   *)
(* and a recorded output never changes.  So whatever a runner concluded    *)
(* before it was overtaken is still true when it acts (CalledFor, Ready,   *)
(* Finished and Knows are stable), and all runners conclude the same.      *)
(***************************************************************************)
EXTENDS Orchestrator, FiniteSetTheorems, TLAPS

\* The outputs before invocation k are there and call for it.
CalledFor(k) ==
    /\ k # "a" => Completed("a") /\ ExpandsToB(request, payload["a"])
    /\ k \notin {"a", "b"} => Completed("b") /\ InitialRequires(request, payload)
    /\ k \notin {"a", "b", "cross_a"} => Completed("cross_a")
    /\ k \in {"c", "judge"} => Completed("cross_b") /\ CrossRequires(payload)
    /\ k = "judge" => Completed("c")

\* ... and the comparisons that decided so are recorded.
Ready(k) ==
    /\ CalledFor(k)
    /\ k \notin {"a", "b"} => comparisons["independent"] > 0
    /\ k \in {"c", "judge"} => comparisons["cross_review"] > 0

\* No opinion is missing any more.
Decided == \A k \in Keys : CalledFor(k) => Completed(k)

\* ... and every comparison made is recorded.
Finished ==
    /\ Decided
    /\ Completed("b") => comparisons["independent"] > 0
    /\ Completed("cross_b") => comparisons["cross_review"] > 0

TheFinal == FinalAssessment(DerivedPath, payload)
TheStatus == ResultStatus(DerivedPath, TheFinal)

\* What it takes to be in state t, or to be on the way to it.
Knows(t) ==
    /\ t = "baseline_recorded" => Completed("a")
    /\ t = "reviewer_b" => Ready("b")
    /\ t = "comparing" => Completed("b")
    /\ t = "cross_review" => Ready("cross_a")
    /\ t = "reviewer_c_independent" => Ready("c")
    /\ t = "reviewer_c_judging" => Ready("judge")
    /\ t \in FinishingStates \cup {"result_returned"} => Finished
    /\ t \in ResolvedStates => t = TheStatus
    /\ t = "result_returned" => result # NoDocument

\* The states run() moves a session to.
Targets ==
    {"reviewer_a", "baseline_recorded", "reviewer_b", "comparing", "cross_review",
     "reviewer_c_independent", "reviewer_c_judging", "result_returned"}
      \cup FinishingStates \cup FailedStates

\* A row of the ledger: it was called for, and it has an output exactly when it
\* is completed.
RowOK(k) ==
    /\ Exists(k) => Ready(k)
    /\ Completed(k) => payload[k] \in PayloadsOf(k)
    /\ ~Completed(k) => payload[k] = NoPayload

Rows == \A k \in Keys : RowOK(k)

StateOK == state \in Targets \cup {"snapshotted"} /\ Knows(state)

ResultOK ==
    result # NoDocument => /\ Finished
                           /\ result.path = DerivedPath
                           /\ result.final = TheFinal
                           /\ result.status = TheStatus

Invoking == {"record", "insert", "review", "attempts", "fail", "complete"}
Holding == {"review", "attempts", "fail", "complete"}
Finishing == {"derive", "adjudicate", "build", "result", "insert_result"}

\* The runner carries the outcome it derived.
Carries(r) ==
    \/ pc[r] \in {"adjudicate", "build", "result", "insert_result"}
    \/ pc[r] = "transition" /\ target[r] \in FinishingStates

\* The runner carries the document it built.
CarriesBuilt(r) ==
    \/ pc[r] \in {"result", "insert_result"}
    \/ pc[r] = "transition" /\ target[r] \in ResolvedStates

\* What a runner knows where it is.
RunnerOK(r) ==
    /\ pc[r] \in Invoking => key[r] \in Keys /\ Ready(key[r])
    /\ pc[r] \in Holding => Exists(key[r])
    /\ pc[r] \in {"review", "attempts"} => first[r] <= attempt_count[key[r]] + 1
    /\ pc[r] = "attempts" => call[r] \in Calls(key[r])
    /\ pc[r] = "complete" => call[r].output \in Answers[key[r]]
    /\ pc[r] \in {"compare", "append"} => key[r] \in {"b", "cross_b"} /\ Completed(key[r])
    /\ pc[r] = "transition" => target[r] \in Targets /\ Knows(target[r])
    /\ pc[r] \in Finishing => Finished
    /\ Carries(r) => document[r].path = DerivedPath /\ document[r].final = TheFinal
    /\ CarriesBuilt(r) => document[r].status = TheStatus
    /\ pc[r] = "build" => seen[r] \in {"reviewer_adjudication", TheStatus}

RunnersOK == \A r \in Runners : RunnerOK(r)

\* A runner has marked an invocation as failed and not yet the session.
Failing(r) == pc[r] = "transition" /\ target[r] \in FailedStates

FailureOf(t) == \E k \in Keys : status[k] = "failed" /\ FailureState(k) = t

\* One failure at a time, and each is one of an invocation.
Failures ==
    /\ \A r \in Runners : Failing(r) => /\ state \notin FailedStates
                                        /\ FailureOf(target[r])
                                        /\ \A s \in Runners : Failing(s) => s = r
    /\ state \in FailedStates => FailureOf(state)

IInv == TypeOK /\ Rows /\ StateOK /\ ResultOK /\ RunnersOK /\ Failures

-----------------------------------------------------------------------------
\* An invocation that is not completed is the last one: two of them are the same.
LEMMA Frontier ==
    ASSUME Rows, NEW j \in Keys, NEW k \in Keys,
           Exists(j), Exists(k), ~Completed(j), ~Completed(k)
    PROVE  j = k
  BY DEF Rows, RowOK, Ready, CalledFor, Keys

\* When no opinion is missing every invocation is completed.
LEMMA DecidedRows ==
    ASSUME Rows, Decided, NEW k \in Keys
    PROVE  Exists(k) <=> Completed(k)
  BY DEF Rows, RowOK, Ready, Decided, Exists, Completed

\* The initial state satisfies the inductive invariant.
LEMMA InitIInv == Init => IInv
<1> SUFFICES ASSUME Init PROVE IInv
  OBVIOUS
<1>1. NoDocument \in Documents
  BY DEF NoDocument, Documents
<1>2. NoCall \in [kind : {"ok", "invalid", "exhausted", "refused", None},
                  output : Judgments \cup {NoPayload}, attempts : Nat]
  BY DEF NoCall
<1>3. TypeOK
  <2>1. trace \in Seq(ReviewStateSet)
    BY DEF Init, ReviewStateSet, WorkflowStates
  <2>2. state \in ReviewStateSet
    BY DEF Init, ReviewStateSet, WorkflowStates
  <2>3. pc \in [Runners -> RunnerSteps]
    BY DEF Init, RunnerSteps
  <2>. QED
    BY <1>1, <1>2, <2>1, <2>2, <2>3 DEF Init, TypeOK
<1>4. Rows
  BY DEF Init, Rows, RowOK, Exists, Completed
<1>5. StateOK
  BY DEF Init, StateOK, Knows, FinishingStates, ResolvedStates
<1>6. ResultOK
  BY DEF Init, ResultOK
<1>7. RunnersOK
  BY DEF Init, RunnersOK, RunnerOK, Invoking, Holding, Finishing, Carries, CarriesBuilt
<1>8. Failures
  BY DEF Init, Failures, Failing, FailedStates
<1>. QED
  BY <1>3, <1>4, <1>5, <1>6, <1>7, <1>8 DEF IInv

-----------------------------------------------------------------------------
\* A step of a runner that leaves the ledger alone.
Quiet(r) ==
    \/ Begin(r)
    \/ Resume(r) \/ ResumeRefused(r)
    \/ TransitionRefused(r)
    \/ RecordInvocation(r)
    \/ InsertInvocationRefused(r)
    \/ Review(r)
    \/ RecordAttemptsRefused(r)
    \/ FailInvocationRefused(r)
    \/ CompleteInvocationRefused(r)
    \/ RecordComparison(r)
    \/ Adjudicate(r)
    \/ Build(r)
    \/ RecordResult(r)
    \/ InsertResultRefused(r)
    \/ Crash(r)

\* A step of a runner that writes it.
Writes(r) ==
    \/ Transition(r)
    \/ InsertInvocation(r)
    \/ RecordAttempts(r)
    \/ FailInvocation(r)
    \/ CompleteInvocation(r)
    \/ AppendComparison(r)
    \/ Derive(r)
    \/ InsertResult(r)

\* Every step is one of a runner or the operator's.
LEMMA NextCases ==
    Next => (\E r \in Runners : Quiet(r) \/ Writes(r)) \/ RecoverCrossReview
  BY DEF Next, Step, Quiet, Writes

\* A quiet step changes no row.
LEMMA QuietFrame ==
    ASSUME NEW r \in Runners, Quiet(r)
    PROVE  UNCHANGED ledgerVars
  BY DEF Quiet, Begin, Resume, ResumeRefused, TransitionRefused, RecordInvocation,
         InsertInvocationRefused, Review, RecordAttemptsRefused, FailInvocationRefused,
         CompleteInvocationRefused, RecordComparison, Adjudicate, Build, RecordResult,
         InsertResultRefused, Crash, ledgerVars
-----------------------------------------------------------------------------
\* What a step may do to the rows: a completed output, a result and the request
\* stay, an invocation stays, comparisons and attempts are only added.
Grows ==
    /\ request' = request
    /\ \A k \in Keys : /\ Completed(k) => Completed(k)' /\ payload'[k] = payload[k]
                       /\ Exists(k) => Exists(k)'
    /\ \A s \in Stages : comparisons[s] > 0 => comparisons'[s] > 0
    /\ result # NoDocument => result' = result
    /\ Decided => status' = status /\ payload' = payload

\* Every step, also one of a runner that was overtaken, only adds to the ledger.
LEMMA GrowsStep == IInv /\ [Next]_vars => Grows
<1> SUFFICES ASSUME IInv, [Next]_vars PROVE Grows
  OBVIOUS
<1>0. TypeOK /\ Rows /\ RunnersOK
  BY DEF IInv
<1>1. CASE UNCHANGED <<request, status, payload, comparisons, result>>
  BY <1>1 DEF Grows, Completed, Exists
<1>2. ASSUME NEW r \in Runners, Quiet(r) \/ Writes(r)
      PROVE  Grows
  <2>0. RunnerOK(r)
    BY <1>0 DEF RunnersOK
  <2>1. CASE Quiet(r)
    BY <1>1, <2>1, QuietFrame DEF ledgerVars
  <2>2. CASE Transition(r) \/ RecordAttempts(r)
    BY <1>1, <2>2 DEF Transition, RecordAttempts
  <2>3. CASE InsertInvocation(r) \/ FailInvocation(r)
    <3>1. /\ key[r] \in Keys /\ ~Completed(key[r])
          /\ status'[key[r]] # "absent"
          /\ \A k \in Keys : k # key[r] => status'[k] = status[k]
          /\ UNCHANGED <<request, payload, comparisons, result>>
      BY <1>0, <2>0, <2>3 DEF InsertInvocation, FailInvocation, TypeOK, Completed, RunnerOK, Invoking
    <3>2. ~Decided
      BY <2>0, <2>3, <3>1 DEF RunnerOK, Invoking, Ready, Decided, InsertInvocation, FailInvocation
    <3>. QED
      BY <3>1, <3>2 DEF Grows, Completed, Exists
  <2>4. CASE CompleteInvocation(r)
    <3>1. /\ key[r] \in Keys /\ status'[key[r]] = "completed"
          /\ \A k \in Keys : k # key[r] => status'[k] = status[k] /\ payload'[k] = payload[k]
          /\ Completed(key[r]) => payload'[key[r]] = payload[key[r]]
          /\ UNCHANGED <<request, comparisons, result>>
      BY <1>0, <2>0, <2>4 DEF CompleteInvocation, CanComplete, TypeOK, Completed, RunnerOK, Invoking
    <3>2. Decided => Completed(key[r])
      BY <2>0, <2>4, <3>1 DEF RunnerOK, Invoking, Ready, Decided, CompleteInvocation
    <3>3. Completed(key[r]) => status' = status /\ payload' = payload
      BY <1>0, <2>4, <3>1 DEF CompleteInvocation, TypeOK, Completed
    <3>. QED
      BY <3>1, <3>2, <3>3 DEF Grows, Completed, Exists
  <2>5. CASE AppendComparison(r)
    <3>1. \A s \in Stages : comparisons[s] > 0 => comparisons'[s] > 0
      BY <1>0, <2>5 DEF AppendComparison, TypeOK
    <3>. QED
      BY <2>5, <3>1 DEF AppendComparison, Grows, Completed, Exists
  <2>6. CASE Derive(r)
    <3>1. \A s \in Stages : comparisons[s] > 0 => comparisons'[s] > 0
      BY <1>0, <2>6 DEF Derive, ComparisonsDerived, TypeOK
    <3>. QED
      BY <2>6, <3>1 DEF Derive, Grows, Completed, Exists
  <2>7. CASE InsertResult(r)
    BY <2>7 DEF InsertResult, Grows, Completed, Exists
  <2>. QED
    BY <1>2, <2>1, <2>2, <2>3, <2>4, <2>5, <2>6, <2>7 DEF Writes
<1>3. CASE RecoverCrossReview
  <2>1. /\ \A k \in Keys : status[k] # "failed" => status'[k] = status[k]
        /\ \A k \in Keys : status[k] = "failed" => status'[k] # "absent"
        /\ UNCHANGED <<request, payload, comparisons, result>>
    BY <1>3 DEF RecoverCrossReview, FailedCrossReviews
  <2>2. ~Decided
    <3>1. \E k \in Keys : status[k] = "failed"
      BY <1>3 DEF RecoverCrossReview, ValidRecovery, IInv, Failures, FailedStates, FailureOf
    <3>. QED
      BY <1>0, <3>1, DecidedRows DEF Exists, Completed
  <2>. QED
    BY <2>1, <2>2 DEF Grows, Completed, Exists
<1>4. CASE UNCHANGED vars
  BY <1>1, <1>4 DEF vars, ledgerVars
<1>. QED
  BY <1>2, <1>3, <1>4, NextCases

\* What a runner concluded from the ledger stays true, whatever the others do.
LEMMA Stable ==
    ASSUME IInv, Grows
    PROVE  /\ \A k \in Keys : CalledFor(k) => CalledFor(k)'
           /\ \A k \in Keys : Ready(k) => Ready(k)'
           /\ Decided => Decided' /\ DerivedPath' = DerivedPath /\ TheFinal' = TheFinal
                           /\ TheStatus' = TheStatus
           /\ Finished => Finished'
           /\ \A t : Knows(t) => Knows(t)'
<1>1. \A k \in Keys : CalledFor(k) => CalledFor(k)'
  BY DEF Grows, CalledFor, Keys, InitialRequires, CrossRequires
<1>2. \A k \in Keys : Ready(k) => Ready(k)'
  BY <1>1 DEF Grows, Ready, Stages
<1>3. ASSUME Decided
      PROVE  Decided' /\ DerivedPath' = DerivedPath /\ TheFinal' = TheFinal /\ TheStatus' = TheStatus
  <2>1. UNCHANGED <<request, status, payload>>
    BY <1>3 DEF Grows
  <2>. QED
    BY <1>3, <2>1 DEF Decided, CalledFor, Completed, DerivedPath, Exists, TheFinal, TheStatus
<1>4. Finished => Finished'
  BY <1>3 DEF Finished, Grows, Stages, Completed
<1>5. ASSUME NEW t, Knows(t) PROVE Knows(t)'
  <2>1. {"a", "b", "cross_a", "c", "judge"} \subseteq Keys
    BY DEF Keys
  <2>. QED
    BY <1>2, <1>3, <1>4, <1>5, <2>1 DEF Knows, Grows, Finished, FinishingStates
<1>. QED
  BY <1>1, <1>2, <1>3, <1>4, <1>5
-----------------------------------------------------------------------------
CallRecords == [kind : {"ok", "invalid", "exhausted", "refused", None},
                output : Judgments \cup {NoPayload}, attempts : Nat]

\* The types of the runners' variables.
RunnerTypes ==
    /\ pc \in [Runners -> RunnerSteps]
    /\ key \in [Runners -> Keys \cup {None}]
    /\ target \in [Runners -> ReviewStateSet \cup {None}]
    /\ first \in [Runners -> Nat]
    /\ call \in [Runners -> CallRecords]
    /\ seen \in [Runners -> ReviewStateSet \cup {None}]
    /\ document \in [Runners -> Documents]

\* The types of the ledger.
LedgerTypes ==
    /\ request \in Requests
    /\ state \in ReviewStateSet
    /\ trace \in Seq(ReviewStateSet)
    /\ status \in [Keys -> {"absent", "pending", "completed", "failed"}]
    /\ payload \in [Keys -> Judgments \cup {NoPayload}]
    /\ attempt_count \in [Keys -> Nat]
    /\ comparisons \in [Stages -> Nat]
    /\ result \in Documents
    /\ crashes \in Nat
    /\ recoveries \in Nat

\* The type invariant, by who owns the variable.
LEMMA TypeParts == TypeOK <=> RunnerTypes /\ LedgerTypes
  BY DEF TypeOK, RunnerTypes, LedgerTypes, CallRecords

\* _derive_outcome succeeds whenever no opinion is missing.
LEMMA FinishedDerives ==
    ASSUME IInv, Finished
    PROVE  Derivable /\ comparisons = ComparisonsDerived
<1>1. Derivable
  BY DecidedRows DEF IInv, Finished, Derivable, Decided, CalledFor, DerivedPath, InvocationsOf, Keys,
     Rows, RowOK, Ready
<1>2. comparisons = ComparisonsDerived
  <2>1. comparisons \in [Stages -> Nat]
    BY TypeParts DEF IInv, LedgerTypes
  <2>2. comparisons["independent"] = 0 => ~Completed("b")
    BY DEF Finished
  <2>3. comparisons["cross_review"] = 0 => ~Completed("cross_b")
    BY DEF Finished
  <2>. QED
    BY <2>1, <2>2, <2>3 DEF ComparisonsDerived, Stages
<1>. QED
  BY <1>1, <1>2

\* A derived outcome is an assessment with a path and a status.
LEMMA OutcomeTypes ==
    ASSUME IInv, Finished
    PROVE  /\ DerivedPath \in Paths /\ TheFinal \in Assessments /\ TheStatus \in ResolvedStates
<1>1. DerivedPath \in Paths
  BY DEF DerivedPath, Paths
<1>2. TheStatus \in ResolvedStates
  BY DEF TheStatus, ResultStatus, ResolvedStates
<1>3. \A k \in Keys : Completed(k) => payload[k] \in PayloadsOf(k)
  BY DEF IInv, Rows, RowOK
<1>4. Derivable
  BY FinishedDerives
<1>5. TheFinal \in Assessments
  <2>1. CASE DerivedPath = "a_only"
    BY <1>3, <1>4, <2>1 DEF Derivable, InvocationsOf, TheFinal, FinalAssessment, PayloadsOf, Keys
  <2>2. CASE DerivedPath = "ab_agreement"
    <3>1. payload["a"] \in Assessments /\ payload["b"] \in Assessments
      BY <1>3, <1>4, <2>2 DEF Derivable, InvocationsOf, PayloadsOf, Keys
    <3>. QED
      BY <2>2, <3>1, ReviewRouteConstants DEF TheFinal, FinalAssessment
  <2>3. CASE DerivedPath = "cross_review_resolved"
    <3>1. payload["cross_a"] \in Assessments /\ payload["cross_b"] \in Assessments
      BY <1>3, <1>4, <2>3 DEF Derivable, InvocationsOf, PayloadsOf, Keys
    <3>. QED
      BY <2>3, <3>1, ReviewRouteConstants DEF TheFinal, FinalAssessment
  <2>4. CASE DerivedPath = "c_tie_broken"
    <3>1. /\ payload["cross_a"] \in Assessments /\ payload["cross_b"] \in Assessments
          /\ payload["judge"] \in Judgments
      BY <1>3, <1>4, <2>4 DEF Derivable, InvocationsOf, PayloadsOf, Keys
    <3>. QED
      BY <2>4, <3>1 DEF TheFinal, FinalAssessment, JudgedFinal, Judgments
  <2>. QED
    BY <1>1, <2>1, <2>2, <2>3, <2>4 DEF Paths
<1>. QED
  BY <1>1, <1>2, <1>5

\* The moves of a runner keep the types.
LEMMA MoveTypes ==
    ASSUME RunnerTypes, NEW r \in Runners
    PROVE  /\ EndRun(r) => RunnerTypes'
           /\ NextIteration(r) => RunnerTypes'
           /\ \A step \in RunnerSteps : GoTo(r, step) => RunnerTypes'
           /\ \A t \in ReviewStateSet : ToTransition(r, t) => RunnerTypes'
           /\ \A step \in RunnerSteps, k \in Keys \cup {None} : ToKey(r, step, k) => RunnerTypes'
           /\ \A n \in Nat : ToReview(r, n) => RunnerTypes'
<1>1. NoDocument \in Documents /\ NoCall \in CallRecords
  BY DEF NoDocument, Documents, NoCall, CallRecords
<1>2. {"idle", "load", "transition", "review"} \subseteq RunnerSteps
  BY DEF RunnerSteps
<1>3. EndRun(r) => RunnerTypes'
  BY <1>1, <1>2 DEF EndRun, RunnerTypes
<1>4. NextIteration(r) => RunnerTypes'
  BY <1>2 DEF NextIteration, RunnerTypes
<1>5. \A step \in RunnerSteps : GoTo(r, step) => RunnerTypes'
  BY DEF GoTo, RunnerTypes
<1>6. \A t \in ReviewStateSet : ToTransition(r, t) => RunnerTypes'
  BY <1>1, <1>2 DEF ToTransition, RunnerTypes
<1>7. \A step \in RunnerSteps, k \in Keys \cup {None} : ToKey(r, step, k) => RunnerTypes'
  BY <1>1 DEF ToKey, RunnerTypes
<1>8. \A n \in Nat : ToReview(r, n) => RunnerTypes'
  BY <1>2 DEF ToReview, RunnerTypes
<1>. QED
  BY <1>3, <1>4, <1>5, <1>6, <1>7, <1>8

\* What follows an output, a comparison or a transition keeps them too.
LEMMA AfterTypes ==
    ASSUME RunnerTypes, NEW r \in Runners, NEW k
    PROVE  /\ AfterInvoke(r, k) => RunnerTypes'
           /\ AfterComparison(r, k) => RunnerTypes'
           /\ AfterTransition(r, k) => RunnerTypes'
<1>1. /\ {"baseline_recorded", "comparing", "reviewer_c_judging", "cross_review",
          "reviewer_c_independent", "reviewer_adjudication"} \subseteq ReviewStateSet
      /\ {"record", "compare", "derive", "build", "result"} \subseteq RunnerSteps
      /\ {"cross_b", None} \subseteq Keys \cup {None}
  BY DEF ReviewStateSet, WorkflowStates, RunnerSteps, Keys
<1>2. AfterInvoke(r, k) => RunnerTypes'
  BY <1>1, MoveTypes DEF AfterInvoke
<1>3. AfterComparison(r, k) => RunnerTypes'
  BY <1>1, MoveTypes DEF AfterComparison
<1>4. ASSUME AfterTransition(r, k) PROVE RunnerTypes'
  <2>1. CASE EndRun(r) \/ NextIteration(r)
    BY <2>1, MoveTypes
  <2>2. CASE /\ k = "reviewer_adjudication"
             /\ pc' = [pc EXCEPT ![r] = "build"]
             /\ target' = [target EXCEPT ![r] = None]
             /\ seen' = [seen EXCEPT ![r] = k]
             /\ UNCHANGED <<key, first, call, document>>
    BY <1>1, <2>2 DEF RunnerTypes
  <2>3. CASE /\ pc' = [pc EXCEPT ![r] = "result"]
             /\ target' = [target EXCEPT ![r] = None]
             /\ UNCHANGED <<key, first, call, seen, document>>
    BY <1>1, <2>3 DEF RunnerTypes
  <2>. QED
    BY <1>4, <2>1, <2>2, <2>3 DEF AfterTransition
<1>. QED
  BY <1>2, <1>3, <1>4
\* The document that Build makes.
LEMMA BuiltTypes ==
    ASSUME IInv, NEW r \in Runners, pc[r] = "build"
    PROVE  /\ BuiltDocument(r) \in Documents
           /\ BuiltDocument(r).path = DerivedPath
           /\ BuiltDocument(r).final = TheFinal
           /\ BuiltDocument(r).status = TheStatus
<1>1. /\ document[r] \in Documents /\ attempt_count \in [Keys -> Nat]
  BY TypeParts DEF IInv, RunnerTypes, LedgerTypes
<1>2. /\ document[r].path = DerivedPath /\ document[r].final = TheFinal /\ Finished
  BY DEF IInv, RunnersOK, RunnerOK, Carries, Finishing
<1>3. TheStatus \in ResolvedStates
  BY <1>2, OutcomeTypes
<1>. QED
  BY <1>1, <1>2, <1>3 DEF BuiltDocument, Documents, TheStatus

\* The state of a failed invocation is a failed state.
LEMMA FailureStates ==
    ASSUME NEW k \in Keys
    PROVE  FailureState(k) \in FailedStates /\ FailureState(k) \in ReviewStateSet
  BY DEF FailureState, FailedStates, ReviewStateSet, TerminalStates

\* A quiet step of a runner keeps the types of its variables.
LEMMA QuietTypes ==
    ASSUME IInv, NEW r \in Runners, Quiet(r)
    PROVE  RunnerTypes'
<1>0. RunnerTypes /\ LedgerTypes /\ RunnerOK(r)
  BY TypeParts DEF IInv, RunnersOK
<1> USE <1>0
<1>a. RunnerSteps = {"idle", "load", "transition", "record", "insert", "review", "attempts",
                     "fail", "complete", "compare", "append", "derive", "adjudicate",
                     "build", "result", "insert_result"}
  BY DEF RunnerSteps
<1>b. {"reviewer_a", "reviewer_b", "reviewer_adjudication", "result_returned"} \subseteq ReviewStateSet
  BY DEF ReviewStateSet, WorkflowStates
<1>1. CASE Begin(r)
  BY <1>1, <1>a, MoveTypes DEF Begin
<1>2. CASE Resume(r)
  <2>1. CASE \E k \in Keys : ToKey(r, "record", k) \/ ToKey(r, "compare", k)
    BY <1>a, <2>1, MoveTypes
  <2>2. CASE EndRun(r) \/ ToTransition(r, "reviewer_a") \/ ToTransition(r, "reviewer_b") \/ GoTo(r, "derive")
    BY <1>a, <1>b, <2>2, MoveTypes
  <2>. QED
    BY <1>2, <2>1, <2>2 DEF Resume, Keys
<1>3. CASE ResumeRefused(r) \/ TransitionRefused(r) \/ InsertInvocationRefused(r)
           \/ FailInvocationRefused(r) \/ CompleteInvocationRefused(r) \/ InsertResultRefused(r)
           \/ Crash(r)
  BY <1>3, MoveTypes DEF ResumeRefused, TransitionRefused, InsertInvocationRefused,
     FailInvocationRefused, CompleteInvocationRefused, InsertResultRefused, Crash
<1>4. CASE RecordInvocation(r)
  <2>1. attempt_count[key[r]] \in Nat
    BY <1>4 DEF RecordInvocation, RunnerOK, Invoking, LedgerTypes
  <2>. QED
    BY <1>4, <1>a, <2>1, MoveTypes, AfterTypes DEF RecordInvocation
<1>5. CASE Review(r)
  <2>1. key[r] \in Keys
    BY <1>5 DEF Review, RunnerOK, Invoking
  <2>2. Answers[key[r]] \subseteq Judgments
    BY <2>1, ReviewRouteConstants DEF PayloadsOf, Judgments
  <2>3. Calls(key[r]) \subseteq CallRecords
    <3>1. CallAttempts \subseteq Nat
      BY OrchestratorConstants
    <3>2. [kind : {"ok"}, output : Answers[key[r]], attempts : CallAttempts] \subseteq CallRecords
      BY <2>2, <3>1 DEF CallRecords
    <3>3. [kind : {"invalid"}, output : {NoPayload}, attempts : CallAttempts] \subseteq CallRecords
      BY <3>1 DEF CallRecords
    <3>4. [kind : {"exhausted"}, output : {NoPayload}, attempts : CallAttempts \ {0}] \subseteq CallRecords
      BY <3>1 DEF CallRecords
    <3>5. [kind : {"refused"}, output : {NoPayload}, attempts : {0}] \subseteq CallRecords
      BY DEF CallRecords
    <3>. QED
      BY <3>2, <3>3, <3>4, <3>5 DEF Calls
  <2>. QED
    BY <1>5, <1>a, <2>3 DEF Review, RunnerTypes
<1>6. CASE RecordAttemptsRefused(r)
  BY <1>6, <1>a, MoveTypes DEF RecordAttemptsRefused
<1>7. CASE RecordComparison(r)
  BY <1>7, <1>a, MoveTypes, AfterTypes DEF RecordComparison
<1>8. CASE Adjudicate(r)
  <2>1. CASE state \in FinishingStates
    <3>1. state \in ReviewStateSet
      BY DEF LedgerTypes
    <3>2. pc' = [pc EXCEPT ![r] = "build"] /\ seen' = [seen EXCEPT ![r] = state]
          /\ UNCHANGED <<key, target, first, call, document>>
      BY <1>8, <2>1 DEF Adjudicate
    <3>. QED
      BY <1>a, <3>1, <3>2 DEF RunnerTypes
  <2>2. CASE state \notin FinishingStates
    BY <1>8, <1>b, <2>2, MoveTypes DEF Adjudicate
  <2>. QED
    BY <2>1, <2>2
<1>9. CASE Build(r)
  <2>1. BuiltDocument(r) \in Documents /\ BuiltDocument(r).status \in ReviewStateSet
    <3>1. Finished
      BY <1>9 DEF Build, RunnerOK, Finishing
    <3>2. ResolvedStates \subseteq ReviewStateSet
      BY DEF ResolvedStates, ReviewStateSet, WorkflowStates
    <3>. QED
      BY <1>9, <3>1, <3>2, BuiltTypes, OutcomeTypes DEF Build
  <2>2. CASE EndRun(r)
    BY <2>2, MoveTypes
  <2>3. CASE ~EndRun(r)
    BY <1>9, <1>a, <2>1, <2>3 DEF Build, RunnerTypes
  <2>. QED
    BY <2>2, <2>3
<1>10. CASE RecordResult(r)
  BY <1>10, <1>a, <1>b, MoveTypes DEF RecordResult
<1>. QED
  BY <1>1, <1>2, <1>3, <1>4, <1>5, <1>6, <1>7, <1>8, <1>9, <1>10 DEF Quiet

\* A write of the ledger keeps all types.
LEMMA WriteTypes ==
    ASSUME IInv, NEW r \in Runners, Writes(r)
    PROVE  RunnerTypes' /\ LedgerTypes'
<1>0. RunnerTypes /\ LedgerTypes /\ RunnerOK(r)
  BY TypeParts DEF IInv, RunnersOK
<1> USE <1>0
<1>a. {"complete", "fail", "adjudicate"} \subseteq RunnerSteps /\ "result_returned" \in ReviewStateSet
  BY DEF RunnerSteps, ReviewStateSet, WorkflowStates
<1>1. CASE Transition(r)
  <2>1. target[r] \in ReviewStateSet
    BY <1>1 DEF Transition, RunnerOK, Targets, FinishingStates, ResolvedStates, FailedStates,
       ReviewStateSet, WorkflowStates, TerminalStates
  <2>2. Append(trace, target[r]) \in Seq(ReviewStateSet)
    BY <2>1 DEF LedgerTypes
  <2>. QED
    BY <1>1, <2>1, <2>2, AfterTypes DEF Transition, LedgerTypes, envVars
<1>2. CASE InsertInvocation(r)
  BY <1>2, MoveTypes DEF InsertInvocation, LedgerTypes, envVars
<1>3. CASE RecordAttempts(r)
  <2>1. call[r].attempts \in Nat
    BY DEF RunnerTypes, CallRecords
  <2>2. attempt_count' \in [Keys -> Nat]
    <3>1. attempt_count \in [Keys -> Nat] /\ key[r] \in Keys
      BY <1>3 DEF RecordAttempts, LedgerTypes, RunnerOK, Invoking
    <3>2. attempt_count[key[r]] + call[r].attempts \in Nat
      BY <2>1, <3>1
    <3>3. attempt_count' = [attempt_count EXCEPT ![key[r]] = attempt_count[key[r]] + call[r].attempts]
      BY <1>3 DEF RecordAttempts
    <3>. QED
      BY <3>1, <3>2, <3>3
  <2>. QED
    BY <1>3, <1>a, <2>2, MoveTypes DEF RecordAttempts, LedgerTypes, envVars
<1>4. CASE FailInvocation(r)
  <2>1. FailureState(key[r]) \in ReviewStateSet
    BY <1>4, FailureStates DEF FailInvocation, RunnerOK, Invoking
  <2>. QED
    BY <1>4, <2>1, MoveTypes DEF FailInvocation, LedgerTypes, envVars
<1>5. CASE CompleteInvocation(r)
  <2>1. call[r].output \in Judgments \cup {NoPayload}
    BY DEF RunnerTypes, CallRecords
  <2>. QED
    BY <1>5, <2>1, AfterTypes DEF CompleteInvocation, LedgerTypes, envVars
<1>6. CASE AppendComparison(r)
  <2>1. comparisons' \in [Stages -> Nat]
    <3>1. comparisons \in [Stages -> Nat] /\ StageOf(key[r]) \in Stages
      BY DEF LedgerTypes, StageOf, Stages
    <3>2. comparisons[StageOf(key[r])] + 1 \in Nat
      BY <3>1
    <3>3. comparisons' = [comparisons EXCEPT ![StageOf(key[r])] = comparisons[StageOf(key[r])] + 1]
      BY <1>6 DEF AppendComparison
    <3>. QED
      BY <3>1, <3>2, <3>3
  <2>. QED
    BY <1>6, <2>1, AfterTypes DEF AppendComparison, LedgerTypes, envVars
<1>7. CASE Derive(r)
  <2>0. Finished
    BY <1>7 DEF Derive, RunnerOK, Finishing
  <2>1. comparisons' \in [Stages -> Nat]
    BY <1>7, <2>0, FinishedDerives DEF Derive, LedgerTypes
  <2>2. [NoDocument EXCEPT !.path = DerivedPath, !.status = "draft",
           !.final = FinalAssessment(DerivedPath, payload)] \in Documents
    BY <2>0, OutcomeTypes DEF NoDocument, Documents, TheFinal
  <2>3. RunnerTypes'
    <3>1. CASE Derivable
      BY <1>7, <1>a, <2>2, <3>1 DEF Derive, RunnerTypes
    <3>2. CASE ~Derivable
      BY <1>7, <3>2, MoveTypes DEF Derive
    <3>. QED
      BY <3>1, <3>2
  <2>. QED
    BY <1>7, <2>1, <2>3 DEF Derive, LedgerTypes, envVars
<1>8. CASE InsertResult(r)
  BY <1>8, <1>a, MoveTypes DEF InsertResult, LedgerTypes, RunnerTypes, envVars
<1>. QED
  BY <1>1, <1>2, <1>3, <1>4, <1>5, <1>6, <1>7, <1>8 DEF Writes

\* Every step keeps the types.
LEMMA TypeStep == IInv /\ [Next]_vars => TypeOK'
<1> SUFFICES ASSUME IInv, [Next]_vars PROVE RunnerTypes' /\ LedgerTypes'
  BY DEF TypeOK, RunnerTypes, LedgerTypes, CallRecords
<1>0. RunnerTypes /\ LedgerTypes
  BY TypeParts DEF IInv
<1>1. ASSUME NEW r \in Runners, Quiet(r)
      PROVE  RunnerTypes' /\ LedgerTypes'
  <2>1. UNCHANGED ledgerVars /\ RunnerTypes'
    BY <1>1, QuietFrame, QuietTypes
  <2>2. recoveries' = recoveries /\ crashes' \in Nat
    BY <1>0, <1>1 DEF LedgerTypes, Quiet, Begin, Resume, ResumeRefused, TransitionRefused,
       RecordInvocation, InsertInvocationRefused, Review, RecordAttemptsRefused,
       FailInvocationRefused, CompleteInvocationRefused, RecordComparison, Adjudicate, Build,
       RecordResult, InsertResultRefused, Crash, envVars
  <2>. QED
    BY <1>0, <2>1, <2>2 DEF LedgerTypes, ledgerVars
<1>2. ASSUME NEW r \in Runners, Writes(r)
      PROVE  RunnerTypes' /\ LedgerTypes'
  BY <1>2, WriteTypes
<1>3. CASE RecoverCrossReview
  <2>1. status' \in [Keys -> {"absent", "pending", "completed", "failed"}]
    BY <1>0, <1>3 DEF RecoverCrossReview, LedgerTypes
  <2>2. "cross_review" \in ReviewStateSet
    BY DEF ReviewStateSet, WorkflowStates
  <2>3. trace' \in Seq(ReviewStateSet) /\ state' \in ReviewStateSet /\ recoveries' \in Nat
    BY <1>0, <1>3, <2>2 DEF RecoverCrossReview, LedgerTypes
  <2>. QED
    BY <1>0, <1>3, <2>1, <2>3 DEF RecoverCrossReview, LedgerTypes, RunnerTypes, runnerVars
<1>4. CASE UNCHANGED vars
  BY <1>0, <1>4 DEF vars, ledgerVars, runnerVars, envVars, RunnerTypes, LedgerTypes
<1>. QED
  BY <1>1, <1>2, <1>3, <1>4, NextCases
-----------------------------------------------------------------------------
\* The rows stay right: an invocation is inserted by a runner that knows it is
\* called for, and its output is one its reviewer gave.
LEMMA RowsStep == IInv /\ [Next]_vars => Rows'
<1> SUFFICES ASSUME IInv, [Next]_vars, NEW k \in Keys
             PROVE  RowOK(k)'
  BY DEF Rows
<1>0. Grows /\ LedgerTypes /\ RowOK(k)
  BY GrowsStep, TypeParts DEF IInv, Rows
<1>1. Ready(k) => Ready(k)'
  BY <1>0, Stable
<1>2. CASE status'[k] = status[k] /\ payload'[k] = payload[k]
  BY <1>0, <1>1, <1>2 DEF RowOK, Exists, Completed
<1>3. ASSUME NEW r \in Runners, Quiet(r) \/ Writes(r)
      PROVE  RowOK(k)'
  <2>0. RunnerOK(r)
    BY DEF IInv, RunnersOK
  <2>1. CASE Quiet(r)
    BY <1>2, <2>1, QuietFrame DEF ledgerVars
  <2>2. CASE Transition(r) \/ RecordAttempts(r) \/ AppendComparison(r) \/ Derive(r) \/ InsertResult(r)
    BY <1>2, <2>2 DEF Transition, RecordAttempts, AppendComparison, Derive, InsertResult
  <2>3. CASE InsertInvocation(r) \/ FailInvocation(r)
    <3>1. /\ key[r] \in Keys /\ Ready(key[r]) /\ payload' = payload
          /\ status[key[r]] # "completed" /\ status'[key[r]] # "completed"
          /\ k # key[r] => status'[k] = status[k]
      BY <1>0, <2>0, <2>3 DEF InsertInvocation, FailInvocation, RunnerOK, Invoking, LedgerTypes
    <3>. QED
      BY <1>0, <1>1, <1>2, <3>1 DEF RowOK, Exists, Completed
  <2>4. CASE CompleteInvocation(r)
    <3>1. /\ key[r] \in Keys /\ Ready(key[r]) /\ call[r].output \in Answers[key[r]]
          /\ status'[key[r]] = "completed" /\ payload'[key[r]] = call[r].output
          /\ k # key[r] => status'[k] = status[k] /\ payload'[k] = payload[k]
      BY <1>0, <2>0, <2>4 DEF CompleteInvocation, RunnerOK, Invoking, LedgerTypes
    <3>2. Answers[key[r]] \subseteq PayloadsOf(key[r])
      BY <3>1, ReviewRouteConstants
    <3>. QED
      BY <1>0, <1>1, <1>2, <3>1, <3>2 DEF RowOK, Exists, Completed
  <2>. QED
    BY <1>3, <2>1, <2>2, <2>3, <2>4 DEF Writes
<1>4. CASE RecoverCrossReview
  <2>1. /\ payload' = payload
        /\ status'[k] = status[k] \/ (status[k] = "failed" /\ status'[k] = "pending")
    BY <1>4 DEF RecoverCrossReview, FailedCrossReviews
  <2>. QED
    BY <1>0, <1>1, <2>1 DEF RowOK, Exists, Completed
<1>5. CASE UNCHANGED vars
  BY <1>2, <1>5 DEF vars, ledgerVars
<1>. QED
  BY <1>3, <1>4, <1>5, NextCases

\* The result is the outcome of the recorded outputs.
LEMMA ResultStep == IInv /\ [Next]_vars => ResultOK'
<1> SUFFICES ASSUME IInv, [Next]_vars PROVE ResultOK'
  OBVIOUS
<1>0. Grows /\ ResultOK
  BY GrowsStep DEF IInv
<1>1. CASE result' = result
  BY <1>0, <1>1, Stable DEF ResultOK, Finished
<1>2. ASSUME NEW r \in Runners, InsertResult(r)
      PROVE  ResultOK'
  <2>1. /\ Finished /\ document[r].path = DerivedPath /\ document[r].final = TheFinal
        /\ document[r].status = TheStatus /\ result' = document[r]
    BY <1>2 DEF InsertResult, IInv, RunnersOK, RunnerOK, Finishing, Carries, CarriesBuilt
  <2>. QED
    BY <1>0, <2>1, Stable DEF ResultOK, Finished
<1>3. ASSUME NEW r \in Runners, Quiet(r) \/ Writes(r), ~InsertResult(r)
      PROVE  result' = result
  BY <1>3, QuietFrame DEF ledgerVars, Writes, Transition, InsertInvocation, RecordAttempts,
     FailInvocation, CompleteInvocation, AppendComparison, Derive
<1>4. CASE RecoverCrossReview \/ UNCHANGED vars
  BY <1>1, <1>4 DEF RecoverCrossReview, vars, ledgerVars
<1>. QED
  BY <1>1, <1>2, <1>3, <1>4, NextCases

\* What the operator needs to reopen a cross review.
LEMMA RecoveryReady ==
    ASSUME IInv, state = "cross_review_failed"
    PROVE  \E k \in {"cross_a", "cross_b"} : status[k] = "failed" /\ Ready(k)
<1>1. PICK k \in Keys : status[k] = "failed" /\ FailureState(k) = "cross_review_failed"
  BY DEF IInv, Failures, FailedStates, FailureOf
<1>2. k \in {"cross_a", "cross_b"}
  BY <1>1 DEF FailureState
<1>3. Ready(k)
  BY <1>1 DEF IInv, Rows, RowOK, Exists
<1>. QED
  BY <1>1, <1>2, <1>3

\* The state of the session is one its outputs call for.
LEMMA StateStep == IInv /\ [Next]_vars => StateOK'
<1> SUFFICES ASSUME IInv, [Next]_vars PROVE StateOK'
  OBVIOUS
<1>0. Grows /\ StateOK
  BY GrowsStep DEF IInv
<1>1. CASE state' = state
  BY <1>0, <1>1, Stable DEF StateOK
<1>2. ASSUME NEW r \in Runners, Transition(r)
      PROVE  StateOK'
  <2>1. target[r] \in Targets /\ Knows(target[r]) /\ state' = target[r]
    BY <1>2 DEF Transition, IInv, RunnersOK, RunnerOK
  <2>. QED
    BY <1>0, <2>1, Stable DEF StateOK
<1>3. ASSUME NEW r \in Runners, Quiet(r) \/ Writes(r), ~Transition(r)
      PROVE  state' = state
  BY <1>3, QuietFrame DEF ledgerVars, Writes, InsertInvocation, RecordAttempts,
     FailInvocation, CompleteInvocation, AppendComparison, Derive, InsertResult
<1>4. CASE RecoverCrossReview
  <2>1. state = "cross_review_failed" /\ state' = "cross_review"
    BY <1>4 DEF RecoverCrossReview, ValidRecovery
  <2>2. Ready("cross_a")
    BY <2>1, RecoveryReady DEF Ready, CalledFor
  <2>3. Ready("cross_a")'
    BY <1>0, <2>2, Stable DEF Keys
  <2>. QED
    BY <2>1, <2>3 DEF StateOK, Knows, Targets, FinishingStates, ResolvedStates
<1>5. CASE UNCHANGED vars
  BY <1>1, <1>5 DEF vars, ledgerVars
<1>. QED
  BY <1>1, <1>2, <1>3, <1>4, <1>5, NextCases
-----------------------------------------------------------------------------
\* The locals of a runner are as before.
LocalsKept(q) ==
    /\ pc'[q] = pc[q] /\ key'[q] = key[q] /\ target'[q] = target[q]
    /\ first'[q] = first[q] /\ call'[q] = call[q] /\ seen'[q] = seen[q]
    /\ document'[q] = document[q]

\* Attempts are only added.
LEMMA AttemptsGrow ==
    ASSUME IInv, [Next]_vars, NEW k \in Keys
    PROVE  attempt_count[k] \in Nat /\ attempt_count'[k] \in Nat /\ attempt_count[k] <= attempt_count'[k]
<1>0. RunnerTypes /\ LedgerTypes /\ attempt_count[k] \in Nat
  BY TypeParts DEF IInv, LedgerTypes
<1>1. CASE attempt_count' = attempt_count
  BY <1>0, <1>1
<1>2. ASSUME NEW r \in Runners, RecordAttempts(r)
      PROVE  attempt_count'[k] \in Nat /\ attempt_count[k] <= attempt_count'[k]
  <2>1. call[r].attempts \in Nat
    BY <1>0 DEF RunnerTypes, CallRecords
  <2>2. \/ attempt_count'[k] = attempt_count[k]
        \/ attempt_count'[k] = attempt_count[k] + call[r].attempts
    BY <1>0, <1>2 DEF RecordAttempts, LedgerTypes
  <2>. QED
    BY <1>0, <2>1, <2>2
<1>3. ASSUME NEW r \in Runners, Quiet(r) \/ Writes(r), ~RecordAttempts(r)
      PROVE  attempt_count' = attempt_count
  BY <1>3, QuietFrame DEF ledgerVars, Writes, Transition, InsertInvocation,
     FailInvocation, CompleteInvocation, AppendComparison, Derive, InsertResult
<1>4. CASE RecoverCrossReview \/ UNCHANGED vars
  BY <1>0, <1>1, <1>4 DEF RecoverCrossReview, vars, ledgerVars
<1>. QED
  BY <1>0, <1>1, <1>2, <1>3, <1>4, NextCases

\* The locals of a runner change in its own steps only.
LEMMA OthersKeep ==
    ASSUME IInv, NEW r \in Runners, Quiet(r) \/ Writes(r), NEW q \in Runners, q # r
    PROVE  LocalsKept(q)
<1>0. RunnerTypes
  BY TypeParts DEF IInv
<1>1. \A t : ToTransition(r, t) => LocalsKept(q)
  BY <1>0 DEF ToTransition, LocalsKept, RunnerTypes
<1>2. \A step, k : ToKey(r, step, k) => LocalsKept(q)
  BY <1>0 DEF ToKey, LocalsKept, RunnerTypes
<1>3. EndRun(r) => LocalsKept(q)
  BY <1>0 DEF EndRun, LocalsKept, RunnerTypes
<1>4. \A step : GoTo(r, step) => LocalsKept(q)
  BY <1>0 DEF GoTo, LocalsKept, RunnerTypes
<1>5. \A n : ToReview(r, n) => LocalsKept(q)
  BY <1>0 DEF ToReview, LocalsKept, RunnerTypes
<1>6. NextIteration(r) => LocalsKept(q)
  BY <1>0 DEF NextIteration, LocalsKept, RunnerTypes
<1>7. \A k : AfterInvoke(r, k) \/ AfterComparison(r, k) => LocalsKept(q)
  BY <1>1, <1>2 DEF AfterInvoke, AfterComparison
<1>8. \A t : AfterTransition(r, t) => LocalsKept(q)
  BY <1>0, <1>3, <1>6 DEF AfterTransition, LocalsKept, RunnerTypes
<1>9. CASE Begin(r) \/ Resume(r) \/ ResumeRefused(r) \/ TransitionRefused(r) \/ RecordInvocation(r)
           \/ InsertInvocationRefused(r) \/ RecordAttemptsRefused(r) \/ FailInvocationRefused(r)
  BY <1>1, <1>2, <1>3, <1>4, <1>5, <1>7, <1>9 DEF Begin, Resume, ResumeRefused, TransitionRefused,
     RecordInvocation, InsertInvocationRefused, RecordAttemptsRefused, FailInvocationRefused
<1>10. CASE CompleteInvocationRefused(r) \/ RecordComparison(r) \/ RecordResult(r)
            \/ InsertResultRefused(r) \/ Crash(r)
  BY <1>1, <1>3, <1>4, <1>7, <1>10 DEF CompleteInvocationRefused, RecordComparison, RecordResult,
     InsertResultRefused, Crash
<1>11. CASE Review(r)
  BY <1>0, <1>11 DEF Review, LocalsKept, RunnerTypes
<1>12. CASE Adjudicate(r)
  BY <1>0, <1>1, <1>12 DEF Adjudicate, LocalsKept, RunnerTypes
<1>13. CASE Build(r)
  BY <1>0, <1>3, <1>13 DEF Build, LocalsKept, RunnerTypes
<1>14. CASE Transition(r) \/ InsertInvocation(r) \/ RecordAttempts(r) \/ FailInvocation(r)
            \/ CompleteInvocation(r) \/ AppendComparison(r) \/ InsertResult(r)
  BY <1>1, <1>4, <1>5, <1>7, <1>8, <1>14 DEF Transition, InsertInvocation, RecordAttempts,
     FailInvocation, CompleteInvocation, AppendComparison, InsertResult
<1>15. CASE Derive(r)
  BY <1>0, <1>3, <1>15 DEF Derive, LocalsKept, RunnerTypes
<1>. QED
  BY <1>9, <1>10, <1>11, <1>12, <1>13, <1>14, <1>15 DEF Quiet, Writes

\* What a runner knows stays true while others act.
LEMMA RunnerKept ==
    ASSUME IInv, [Next]_vars, NEW q \in Runners, LocalsKept(q)
    PROVE  RunnerOK(q)'
<1>0. Grows /\ RunnerOK(q)
  BY GrowsStep DEF IInv, RunnersOK
<1>1. pc'[q] \in Invoking => key'[q] \in Keys /\ Ready(key[q])'
  BY <1>0, Stable DEF RunnerOK, LocalsKept
<1>2. pc'[q] \in Holding => Exists(key[q])'
  BY <1>0 DEF RunnerOK, LocalsKept, Grows, Holding, Invoking
<1>3. ASSUME pc'[q] \in {"review", "attempts"}
      PROVE  first'[q] <= attempt_count'[key[q]] + 1
  <2>1. key[q] \in Keys /\ first[q] <= attempt_count[key[q]] + 1 /\ first'[q] = first[q]
    BY <1>0, <1>3 DEF RunnerOK, LocalsKept, Invoking
  <2>2. first[q] \in Nat
    BY TypeParts DEF IInv, RunnerTypes
  <2>. QED
    BY <2>1, <2>2, AttemptsGrow
<1>4. pc'[q] = "attempts" => call'[q] \in Calls(key'[q])
  BY <1>0 DEF RunnerOK, LocalsKept
<1>5. pc'[q] = "complete" => call'[q].output \in Answers[key'[q]]
  BY <1>0 DEF RunnerOK, LocalsKept
<1>6. pc'[q] \in {"compare", "append"} => key'[q] \in {"b", "cross_b"} /\ Completed(key[q])'
  BY <1>0 DEF RunnerOK, LocalsKept, Grows, Keys
<1>7. pc'[q] = "transition" => target'[q] \in Targets /\ Knows(target[q])'
  BY <1>0, Stable DEF RunnerOK, LocalsKept
<1>8. pc'[q] \in Finishing => Finished'
  BY <1>0, Stable DEF RunnerOK, LocalsKept
<1>9. ASSUME pc[q] \in Finishing \/ (pc[q] = "transition" /\ target[q] \in FinishingStates)
      PROVE  DerivedPath' = DerivedPath /\ TheFinal' = TheFinal /\ TheStatus' = TheStatus
  <2>1. Decided
    BY <1>0, <1>9 DEF RunnerOK, Knows, Finished
  <2>. QED
    BY <1>0, <2>1, Stable
<1>10. Carries(q)' => document'[q].path = DerivedPath' /\ document'[q].final = TheFinal'
  BY <1>0, <1>9 DEF RunnerOK, LocalsKept, Carries, Finishing
<1>11. CarriesBuilt(q)' => document'[q].status = TheStatus'
  BY <1>0, <1>9 DEF RunnerOK, LocalsKept, CarriesBuilt, Finishing, FinishingStates
<1>12. pc'[q] = "build" => seen'[q] \in {"reviewer_adjudication", TheStatus'}
  BY <1>0, <1>9 DEF RunnerOK, LocalsKept, Finishing
<1>13. key'[q] = key[q] /\ target'[q] = target[q]
  BY DEF LocalsKept
<1>. QED
  BY <1>1, <1>2, <1>3, <1>4, <1>5, <1>6, <1>7, <1>8, <1>10, <1>11, <1>12, <1>13
  DEF RunnerOK, Ready, CalledFor, Knows, Exists, Completed

\* Where a runner may go, and what it has to know there.
LEMMA Moves ==
    ASSUME IInv, NEW r \in Runners
    PROVE  /\ EndRun(r) \/ NextIteration(r) \/ GoTo(r, "load") => RunnerOK(r)'
           /\ \A t \in Targets \ FinishingStates :
                ToTransition(r, t) /\ Knows(t)' => RunnerOK(r)'
           /\ \A k \in Keys : ToKey(r, "record", k) /\ Ready(k)' => RunnerOK(r)'
           /\ \A k \in {"b", "cross_b"} :
                ToKey(r, "compare", k) /\ Completed(k)' => RunnerOK(r)'
           /\ (GoTo(r, "derive") \/ ToKey(r, "derive", None)) /\ Finished' => RunnerOK(r)'
<1>0. RunnerTypes
  BY TypeParts DEF IInv
<1>1. ASSUME pc'[r] \in {"idle", "load"} PROVE RunnerOK(r)'
  BY <1>1 DEF RunnerOK, Invoking, Holding, Finishing, Carries, CarriesBuilt
<1>2. EndRun(r) \/ NextIteration(r) \/ GoTo(r, "load") => pc'[r] \in {"idle", "load"}
  BY <1>0 DEF EndRun, NextIteration, GoTo, RunnerTypes
<1>3. ASSUME NEW t \in Targets \ FinishingStates, ToTransition(r, t), Knows(t)'
      PROVE  RunnerOK(r)'
  <2>1. pc'[r] = "transition" /\ target'[r] = t
    BY <1>0, <1>3 DEF ToTransition, RunnerTypes
  <2>2. Knows(target[r])'
    BY <1>3, <2>1 DEF Knows
  <2>. QED
    BY <1>3, <2>1, <2>2 DEF RunnerOK, Invoking, Holding, Finishing, Carries, CarriesBuilt, FinishingStates
<1>4. ASSUME NEW k \in Keys, ToKey(r, "record", k), Ready(k)'
      PROVE  RunnerOK(r)'
  <2>1. pc'[r] = "record" /\ key'[r] = k
    BY <1>0, <1>4 DEF ToKey, RunnerTypes
  <2>2. Ready(key[r])'
    BY <1>4, <2>1 DEF Ready, CalledFor
  <2>. QED
    BY <1>4, <2>1, <2>2 DEF RunnerOK, Invoking, Holding, Finishing, Carries, CarriesBuilt
<1>5. ASSUME NEW k \in {"b", "cross_b"}, ToKey(r, "compare", k), Completed(k)'
      PROVE  RunnerOK(r)'
  <2>1. pc'[r] = "compare" /\ key'[r] = k
    BY <1>0, <1>5 DEF ToKey, RunnerTypes
  <2>2. Completed(key[r])'
    BY <1>5, <2>1 DEF Completed
  <2>. QED
    BY <1>5, <2>1, <2>2 DEF RunnerOK, Invoking, Holding, Finishing, Carries, CarriesBuilt
<1>6. ASSUME GoTo(r, "derive") \/ ToKey(r, "derive", None), Finished'
      PROVE  RunnerOK(r)'
  <2>1. pc'[r] = "derive"
    BY <1>0, <1>6 DEF GoTo, ToKey, RunnerTypes
  <2>. QED
    BY <1>6, <2>1 DEF RunnerOK, Invoking, Holding, Finishing, Carries, CarriesBuilt
<1>. QED
  BY <1>1, <1>2, <1>3, <1>4, <1>5, <1>6

\* What follows an output is what the outputs call for.
LEMMA AfterInvokeOK ==
    ASSUME IInv, NEW r \in Runners, NEW k \in Keys, Completed(k)', Ready(k)', AfterInvoke(r, k)
    PROVE  RunnerOK(r)'
<1>1. k = "a" => ToTransition(r, "baseline_recorded") /\ Knows("baseline_recorded")'
  BY DEF AfterInvoke, Knows, FinishingStates, ResolvedStates
<1>2. k = "b" => ToTransition(r, "comparing") /\ Knows("comparing")'
  BY DEF AfterInvoke, Knows, FinishingStates, ResolvedStates
<1>3. k = "cross_a" => ToKey(r, "record", "cross_b") /\ Ready("cross_b")'
  BY DEF AfterInvoke, Ready, CalledFor
<1>4. k = "cross_b" => ToKey(r, "compare", "cross_b") /\ Completed("cross_b")'
  BY DEF AfterInvoke
<1>5. k = "c" => ToTransition(r, "reviewer_c_judging") /\ Knows("reviewer_c_judging")'
  BY DEF AfterInvoke, Knows, FinishingStates, ResolvedStates, Ready, CalledFor
<1>6. k = "judge" => ToKey(r, "derive", None) /\ Finished'
  BY DEF AfterInvoke, Finished, Decided, Ready, CalledFor, Keys
<1>7. {"baseline_recorded", "comparing", "reviewer_c_judging"} \subseteq Targets \ FinishingStates
  BY DEF Targets, FinishingStates, ResolvedStates
<1>. QED
  BY <1>1, <1>2, <1>3, <1>4, <1>5, <1>6, <1>7, Moves DEF Keys

\* So is what follows a comparison.
LEMMA AfterComparisonOK ==
    ASSUME IInv, Rows', UNCHANGED <<request, status, payload>>, NEW r \in Runners,
           NEW k \in {"b", "cross_b"}, Completed(k), AfterComparison(r, k),
           comparisons'[StageOf(k)] > 0, Grows
    PROVE  RunnerOK(r)'
<1>0. /\ Ready(k) /\ Ready(k)' /\ Completed(k)'
  BY Stable DEF IInv, Rows, RowOK, Keys, Exists, Completed
<1>1. CASE k = "b"
  <2>1. /\ Completed("b") /\ comparisons'["independent"] > 0 /\ Ready("b")' /\ Ready("b")
    BY <1>0, <1>1 DEF StageOf
  <2>2. CASE InitialRequires(request, payload)
    <3>1. Ready("cross_a")'
      BY <2>1, <2>2 DEF Ready, CalledFor, Completed, InitialRequires
    <3>2. ToTransition(r, "cross_review") /\ Knows("cross_review")'
      BY <1>1, <2>2, <3>1 DEF AfterComparison, Knows, FinishingStates, ResolvedStates
    <3>3. "cross_review" \in Targets \ FinishingStates
      BY DEF Targets, FinishingStates, ResolvedStates
    <3>. QED
      BY <3>2, <3>3, Moves
  <2>3. CASE ~InitialRequires(request, payload)
    <3>1. ToKey(r, "derive", None)
      BY <1>1, <2>3 DEF AfterComparison
    <3>2. Decided /\ ~Completed("cross_b")
      BY <2>1, <2>3 DEF Decided, Ready, CalledFor, Keys, IInv, Rows, RowOK, Exists, Completed
    <3>3. Finished'
      BY <2>1, <3>2, Stable DEF Finished, Completed
    <3>. QED
      BY <3>1, <3>3, Moves
  <2>. QED
    BY <2>2, <2>3
<1>2. CASE k = "cross_b"
  <2>1. /\ Completed("cross_b") /\ comparisons'["cross_review"] > 0 /\ Ready("cross_b")' /\ Ready("cross_b")
    BY <1>0, <1>2 DEF StageOf
  <2>2. CASE CrossRequires(payload)
    <3>1. Ready("c")'
      BY <2>1, <2>2 DEF Ready, CalledFor, Completed, CrossRequires
    <3>2. ToTransition(r, "reviewer_c_independent") /\ Knows("reviewer_c_independent")'
      BY <1>2, <2>2, <3>1 DEF AfterComparison, Knows, FinishingStates, ResolvedStates
    <3>3. "reviewer_c_independent" \in Targets \ FinishingStates
      BY DEF Targets, FinishingStates, ResolvedStates
    <3>. QED
      BY <3>2, <3>3, Moves
  <2>3. CASE ~CrossRequires(payload)
    <3>1. ToKey(r, "derive", None)
      BY <1>2, <2>3 DEF AfterComparison
    <3>2. Decided
      BY <2>1, <2>3 DEF Decided, Ready, CalledFor, Keys, Completed
    <3>3. Finished'
      BY <2>1, <3>2, Stable DEF Finished, Completed, Ready, CalledFor
    <3>. QED
      BY <3>1, <3>3, Moves
  <2>. QED
    BY <2>2, <2>3
<1>. QED
  BY <1>1, <1>2

\* What run() does next is what the state it loaded calls for.
LEMMA ResumeOK ==
    ASSUME IInv, [Next]_vars, NEW r \in Runners, Resume(r)
    PROVE  RunnerOK(r)'
<1>0. Grows /\ Knows(state) /\ UNCHANGED ledgerVars
  BY GrowsStep DEF IInv, StateOK, Resume
<1>1. CASE EndRun(r)
  BY <1>1, Moves
<1>2. CASE state = "snapshotted" /\ ToTransition(r, "reviewer_a")
  <2>1. Knows("reviewer_a")' /\ "reviewer_a" \in Targets \ FinishingStates
    BY DEF Knows, Targets, FinishingStates, ResolvedStates
  <2>. QED
    BY <1>2, <2>1, Moves
<1>3. CASE state = "baseline_recorded"
  <2>1. Completed("a")
    BY <1>0, <1>3 DEF Knows
  <2>2. CASE ExpandsToB(request, payload["a"])
    <3>1. Ready("b")'
      BY <1>0, <2>1, <2>2, Stable DEF Ready, CalledFor, Keys
    <3>2. Knows("reviewer_b")' /\ "reviewer_b" \in Targets \ FinishingStates
      BY <3>1 DEF Knows, Targets, FinishingStates, ResolvedStates
    <3>3. ToTransition(r, "reviewer_b")
      BY <1>3, <2>2 DEF Resume, FinishingStates, ResolvedStates
    <3>. QED
      BY <3>2, <3>3, Moves
  <2>3. CASE ~ExpandsToB(request, payload["a"])
    <3>1. GoTo(r, "derive")
      BY <1>3, <2>3 DEF Resume, FinishingStates, ResolvedStates
    <3>2. Finished
      BY <2>1, <2>3 DEF Finished, Decided, CalledFor, Keys, IInv, Rows, RowOK, Ready, Exists, Completed
    <3>. QED
      BY <1>0, <3>1, <3>2, Moves, Stable
  <2>. QED
    BY <2>2, <2>3
<1>4. ASSUME NEW k \in Keys, ToKey(r, "record", k), Ready(k)
      PROVE  RunnerOK(r)'
  BY <1>0, <1>4, Moves, Stable
<1>5. /\ state = "reviewer_a" => Ready("a")
      /\ state = "reviewer_b" => Ready("b")
      /\ state = "cross_review" => Ready("cross_a")
      /\ state = "reviewer_c_independent" => Ready("c")
      /\ state = "reviewer_c_judging" => Ready("judge")
  BY <1>0 DEF Knows, Ready, CalledFor
<1>6. CASE state = "comparing" /\ ToKey(r, "compare", "b")
  BY <1>0, <1>6, Moves DEF Knows, Grows, Keys
<1>7. CASE state \in FinishingStates /\ GoTo(r, "derive")
  BY <1>0, <1>7, Moves, Stable DEF Knows
<1>. QED
  BY <1>1, <1>2, <1>3, <1>4, <1>5, <1>6, <1>7 DEF Resume, Keys

\* An invocation is handled by a runner that knows it is called for.
LEMMA InvokeOK ==
    ASSUME IInv, [Next]_vars, NEW r \in Runners,
           \/ RecordInvocation(r) \/ InsertInvocation(r) \/ Review(r) \/ RecordAttempts(r)
           \/ RecordAttemptsRefused(r) \/ FailInvocation(r) \/ CompleteInvocation(r)
    PROVE  RunnerOK(r)'
<1>0. Grows /\ RunnerOK(r) /\ RunnerTypes /\ LedgerTypes /\ Rows'
  BY GrowsStep, RowsStep, TypeParts DEF IInv, RunnersOK
<1>i. pc[r] \in Invoking
  BY DEF RecordInvocation, InsertInvocation, Review, RecordAttempts,
     RecordAttemptsRefused, FailInvocation, CompleteInvocation, Invoking
<1>k. PICK k \in Keys : k = key[r]
  BY <1>0, <1>i DEF RunnerOK
<1>1. pc[r] \in Invoking /\ Ready(k) /\ Ready(k)'
  BY <1>0, <1>i, <1>k, Stable DEF RunnerOK
<1>2. /\ attempt_count[k] \in Nat /\ attempt_count'[k] \in Nat /\ attempt_count[k] <= attempt_count'[k]
  BY <1>1, AttemptsGrow
<1>3. ASSUME key'[r] = k, Exists(k)', pc'[r] \in Holding,
             pc'[r] \in {"review", "attempts"} => first'[r] <= attempt_count'[k] + 1,
             pc'[r] = "attempts" => call'[r] \in Calls(k),
             pc'[r] = "complete" => call'[r].output \in Answers[k]
      PROVE  RunnerOK(r)'
  <2>1. Ready(key[r])' /\ Exists(key[r])'
    BY <1>1, <1>3 DEF Ready, CalledFor, Exists
  <2>. QED
    BY <1>1, <1>3, <2>1 DEF RunnerOK, Invoking, Holding, Finishing, Carries, CarriesBuilt
<1>4. CASE RecordInvocation(r)
  <2>0. UNCHANGED ledgerVars
    BY <1>4 DEF RecordInvocation
  <2>1. CASE status[k] = "absent"
    <3>1. pc'[r] = "insert" /\ key'[r] = k
      BY <1>k, <1>0, <1>4, <2>1 DEF RecordInvocation, GoTo, RunnerTypes
    <3>2. Ready(key[r])'
      BY <1>1, <3>1 DEF Ready, CalledFor
    <3>. QED
      BY <1>1, <3>1, <3>2 DEF RunnerOK, Invoking, Holding, Finishing, Carries, CarriesBuilt
  <2>2. CASE status[k] = "completed"
    <3>1. AfterInvoke(r, k) /\ Completed(k)'
      BY <1>k, <1>4, <2>0, <2>2 DEF RecordInvocation, Completed, ledgerVars
    <3>. QED
      BY <1>1, <3>1, AfterInvokeOK
  <2>3. CASE status[k] = "pending"
    <3>1. /\ pc'[r] = "review" /\ key'[r] = k /\ first'[r] = attempt_count[k] + 1 /\ Exists(k)'
      BY <1>k, <1>0, <1>4, <2>0, <2>3 DEF RecordInvocation, ToReview, RunnerTypes, Exists, ledgerVars
    <3>. QED
      BY <1>2, <1>3, <3>1 DEF Holding
  <2>4. CASE status[k] = "failed"
    BY <1>k, <1>4, <2>4, Moves DEF RecordInvocation
  <2>. QED
    BY <1>k, <1>4, <2>1, <2>2, <2>3, <2>4 DEF RecordInvocation
<1>5. CASE InsertInvocation(r)
  <2>1. /\ pc'[r] = "review" /\ key'[r] = k /\ first'[r] = 0 + 1 /\ Exists(k)'
    BY <1>k, <1>0, <1>1, <1>5 DEF InsertInvocation, ToReview, RunnerTypes, LedgerTypes, Exists
  <2>. QED
    BY <1>2, <1>3, <2>1 DEF Holding
<1>6. CASE Review(r)
  <2>1. Exists(k)' /\ first[r] <= attempt_count[k] + 1 /\ first[r] \in Nat
    BY <1>k, <1>0, <1>1, <1>6 DEF Review, RunnerOK, Holding, Grows, RunnerTypes
  <2>2. /\ key'[r] = k /\ first'[r] = first[r] /\ pc'[r] \in {"fail", "attempts"} /\ call'[r] \in Calls(k)
    BY <1>k, <1>0, <1>6 DEF Review, RunnerTypes
  <2>. QED
    BY <1>2, <1>3, <2>1, <2>2 DEF Holding
<1>7. CASE RecordAttempts(r)
  <2>1. Exists(k)' /\ call[r] \in Calls(k)
    BY <1>k, <1>0, <1>1, <1>7 DEF RecordAttempts, RunnerOK, Holding, Grows
  <2>2. /\ key'[r] = k /\ call'[r] = call[r]
        /\ pc'[r] = IF call[r].kind = "ok" THEN "complete" ELSE "fail"
    BY <1>k, <1>0, <1>7 DEF RecordAttempts, GoTo, RunnerTypes
  <2>3. call[r].kind = "ok" => call[r].output \in Answers[k]
    BY <2>1 DEF Calls
  <2>. QED
    BY <1>3, <2>1, <2>2, <2>3 DEF Holding
<1>8. CASE RecordAttemptsRefused(r)
  <2>1. Exists(k)'
    BY <1>k, <1>0, <1>1, <1>8 DEF RecordAttemptsRefused, RunnerOK, Holding, Grows
  <2>2. CASE EndRun(r)
    BY <2>2, Moves
  <2>3. CASE GoTo(r, "fail")
    <3>1. key'[r] = k /\ pc'[r] = "fail"
      BY <1>k, <1>0, <2>3 DEF GoTo, RunnerTypes
    <3>. QED
      BY <1>3, <2>1, <3>1 DEF Holding
  <2>. QED
    BY <1>8, <2>2, <2>3 DEF RecordAttemptsRefused
<1>9. CASE FailInvocation(r)
  <2>1. ToTransition(r, FailureState(k))
    BY <1>k, <1>9 DEF FailInvocation
  <2>2. FailureState(k) \in Targets \ FinishingStates /\ Knows(FailureState(k))'
    BY <1>1 DEF FailureState, Targets, FailedStates, FinishingStates, ResolvedStates, Knows
  <2>. QED
    BY <2>1, <2>2, Moves
<1>10. CASE CompleteInvocation(r)
  <2>1. AfterInvoke(r, k) /\ Completed(k)'
    BY <1>k, <1>0, <1>1, <1>10 DEF CompleteInvocation, LedgerTypes, Completed
  <2>. QED
    BY <1>1, <2>1, AfterInvokeOK
<1>. QED
  BY <1>4, <1>5, <1>6, <1>7, <1>8, <1>9, <1>10

\* What a runner that carries an outcome has to know.
LEMMA CarryOK ==
    ASSUME IInv, Grows, NEW r \in Runners, Finished,
           \/ pc'[r] \in {"adjudicate", "build", "result", "insert_result"}
           \/ /\ pc'[r] = "transition" /\ target'[r] \in FinishingStates
              /\ target'[r] \in ResolvedStates => target'[r] = TheStatus,
           document'[r].path = DerivedPath, document'[r].final = TheFinal,
           CarriesBuilt(r)' => document'[r].status = TheStatus,
           pc'[r] = "build" => seen'[r] \in {"reviewer_adjudication", TheStatus}
    PROVE  RunnerOK(r)'
<1>1. /\ Finished' /\ DerivedPath' = DerivedPath /\ TheFinal' = TheFinal /\ TheStatus' = TheStatus
  BY Stable DEF Finished
<1>2. pc'[r] = "transition" => target'[r] \in Targets /\ Knows(target[r])'
  BY <1>1 DEF Knows, Targets, FinishingStates, ResolvedStates
<1>. QED
  BY <1>1, <1>2 DEF RunnerOK, Invoking, Holding, Finishing

\* What follows a transition is what its target calls for.
LEMMA TransitionOK ==
    ASSUME IInv, [Next]_vars, NEW r \in Runners, Transition(r)
    PROVE  RunnerOK(r)'
<1>0. Grows /\ RunnerOK(r) /\ RunnerTypes
  BY GrowsStep, TypeParts DEF IInv, RunnersOK
<1>1. pc[r] = "transition" /\ AfterTransition(r, target[r]) /\ Knows(target[r])
  BY <1>0 DEF Transition, RunnerOK
<1>2. CASE EndRun(r) \/ NextIteration(r)
  BY <1>2, Moves
<1>3. CASE target[r] \in FinishingStates
  <2>1. Finished /\ document[r].path = DerivedPath /\ document[r].final = TheFinal
    BY <1>0, <1>1, <1>3 DEF RunnerOK, Knows, Carries
  <2>2. CASE target[r] = "reviewer_adjudication"
    <3>1. pc'[r] = "build" /\ seen'[r] = "reviewer_adjudication" /\ document'[r] = document[r]
      BY <1>0, <1>1, <2>2 DEF AfterTransition, RunnerTypes, FailedStates, FinishingStates, ResolvedStates
    <3>2. ~CarriesBuilt(r)'
      BY <3>1 DEF CarriesBuilt
    <3>. QED
      BY <1>0, <2>1, <3>1, <3>2, CarryOK
  <2>3. CASE target[r] \in ResolvedStates
    <3>1. pc'[r] = "result" /\ document'[r] = document[r]
      BY <1>0, <1>1, <2>3 DEF AfterTransition, RunnerTypes, FailedStates, FinishingStates, ResolvedStates
    <3>2. document[r].status = TheStatus
      BY <1>0, <1>1, <2>3 DEF RunnerOK, CarriesBuilt
    <3>. QED
      BY <1>0, <2>1, <3>1, <3>2, CarryOK
  <2>. QED
    BY <1>3, <2>2, <2>3 DEF FinishingStates
<1>. QED
  BY <1>1, <1>2, <1>3 DEF AfterTransition, FinishingStates

\* A recorded comparison is followed by what it calls for.
LEMMA ComparisonOK ==
    ASSUME IInv, [Next]_vars, NEW r \in Runners, RecordComparison(r) \/ AppendComparison(r)
    PROVE  RunnerOK(r)'
<1>0. Grows /\ RunnerOK(r) /\ RunnerTypes /\ LedgerTypes /\ Rows'
  BY GrowsStep, RowsStep, TypeParts DEF IInv, RunnersOK
<1>1. PICK k \in {"b", "cross_b"} : k = key[r] /\ Completed(k)
  BY <1>0 DEF RunnerOK, RecordComparison, AppendComparison
<1>2. UNCHANGED <<request, status, payload>>
  BY DEF RecordComparison, AppendComparison, ledgerVars
<1>3. comparisons \in [Stages -> Nat] /\ StageOf(k) \in Stages
  BY <1>0 DEF LedgerTypes, StageOf, Stages
<1>4. CASE RecordComparison(r) /\ comparisons[StageOf(k)] > 0
  <2>1. AfterComparison(r, k) /\ comparisons'[StageOf(k)] > 0
    BY <1>1, <1>4 DEF RecordComparison, ledgerVars
  <2>. QED
    BY <1>0, <1>1, <1>2, <2>1, AfterComparisonOK
<1>5. CASE RecordComparison(r) /\ ~(comparisons[StageOf(k)] > 0)
  <2>1. pc'[r] = "append" /\ key'[r] = k
    BY <1>0, <1>1, <1>5 DEF RecordComparison, GoTo, RunnerTypes
  <2>2. Completed(key[r])'
    BY <1>1, <1>2, <2>1 DEF Completed
  <2>. QED
    BY <2>1, <2>2 DEF RunnerOK, Invoking, Holding, Finishing, Carries, CarriesBuilt
<1>6. CASE AppendComparison(r)
  <2>1. AfterComparison(r, k)
    BY <1>1, <1>6 DEF AppendComparison
  <2>2. comparisons' = [comparisons EXCEPT ![StageOf(k)] = comparisons[StageOf(k)] + 1]
    BY <1>1, <1>6 DEF AppendComparison
  <2>3. comparisons'[StageOf(k)] = comparisons[StageOf(k)] + 1 /\ comparisons[StageOf(k)] \in Nat
    BY <1>3, <2>2
  <2>4. comparisons'[StageOf(k)] > 0
    BY <2>3
  <2>. QED
    BY <1>0, <1>1, <1>2, <2>1, <2>4, AfterComparisonOK
<1>. QED
  BY <1>4, <1>5, <1>6

\* The steps of _finish_resumably carry one outcome from the ledger to the result.
LEMMA FinishOK ==
    ASSUME IInv, [Next]_vars, NEW r \in Runners,
           Derive(r) \/ Adjudicate(r) \/ Build(r) \/ RecordResult(r) \/ InsertResult(r)
    PROVE  RunnerOK(r)'
<1>0. Grows /\ RunnerOK(r) /\ RunnerTypes /\ Knows(state)
  BY GrowsStep, TypeParts DEF IInv, RunnersOK, StateOK
<1>1. Finished
  BY <1>0 DEF RunnerOK, Finishing, Derive, Adjudicate, Build, RecordResult, InsertResult
<1>2. /\ DerivedPath \in Paths /\ TheStatus \in ResolvedStates
      /\ Finished' /\ DerivedPath' = DerivedPath /\ TheFinal' = TheFinal /\ TheStatus' = TheStatus
  BY <1>0, <1>1, OutcomeTypes, Stable DEF Finished
<1>3. CASE Derive(r)
  <2>1. /\ pc'[r] = "adjudicate"
        /\ document'[r] = [NoDocument EXCEPT !.path = DerivedPath, !.status = "draft",
                                             !.final = TheFinal]
    BY <1>0, <1>1, <1>3, FinishedDerives DEF Derive, RunnerTypes, TheFinal
  <2>2. document'[r].path = DerivedPath /\ document'[r].final = TheFinal /\ ~CarriesBuilt(r)'
    BY <2>1 DEF NoDocument, CarriesBuilt
  <2>. QED
    BY <1>0, <1>1, <2>1, <2>2, CarryOK
<1>4. CASE Adjudicate(r)
  <2>1. document[r].path = DerivedPath /\ document[r].final = TheFinal
    BY <1>0, <1>4 DEF Adjudicate, RunnerOK, Carries
  <2>2. CASE state \in FinishingStates
    <3>1. pc'[r] = "build" /\ seen'[r] = state /\ document'[r] = document[r]
      BY <1>0, <1>4, <2>2 DEF Adjudicate, RunnerTypes
    <3>2. ~CarriesBuilt(r)' /\ state \in {"reviewer_adjudication", TheStatus}
      BY <1>0, <2>2, <3>1 DEF CarriesBuilt, Knows, FinishingStates
    <3>. QED
      BY <1>0, <1>1, <2>1, <3>1, <3>2, CarryOK
  <2>3. CASE state \notin FinishingStates
    <3>1. pc'[r] = "transition" /\ target'[r] = "reviewer_adjudication" /\ document'[r] = document[r]
      BY <1>0, <1>4, <2>3 DEF Adjudicate, ToTransition, RunnerTypes
    <3>2. ~CarriesBuilt(r)' /\ target'[r] \in FinishingStates /\ target'[r] \notin ResolvedStates
      BY <3>1 DEF CarriesBuilt, FinishingStates, ResolvedStates
    <3>. QED
      BY <1>0, <1>1, <2>1, <3>1, <3>2, CarryOK
  <2>. QED
    BY <2>2, <2>3
<1>5. CASE Build(r)
  <2>0. PICK d : d = BuiltDocument(r)
    OBVIOUS
  <2>1. /\ d.path = DerivedPath /\ d.final = TheFinal /\ d.status = TheStatus
        /\ seen[r] \in {"reviewer_adjudication", TheStatus}
    BY <1>0, <1>5, <2>0, BuiltTypes DEF Build, RunnerOK
  <2>2. document'[r] = d
    BY <1>0, <1>5, <2>0, <2>1 DEF Build, RunnerTypes
  <2>3. pc'[r] = "result" \/ (pc'[r] = "transition" /\ target'[r] = TheStatus)
    BY <1>0, <1>5, <2>0, <2>1 DEF Build, RunnerTypes
  <2>. QED
    BY <1>0, <1>1, <1>2, <2>1, <2>2, <2>3, CarryOK DEF FinishingStates
<1>6. ASSUME RecordResult(r) \/ InsertResult(r)
      PROVE  /\ document[r].path = DerivedPath /\ document[r].final = TheFinal
             /\ document[r].status = TheStatus /\ document[r] # NoDocument
  <2>1. /\ document[r].path = DerivedPath /\ document[r].final = TheFinal
        /\ document[r].status = TheStatus
    BY <1>0, <1>6 DEF RecordResult, InsertResult, RunnerOK, Carries, CarriesBuilt
  <2>2. DerivedPath # NoDocument.path
    BY <1>2 DEF NoDocument, Paths, None
  <2>. QED
    BY <2>1, <2>2
<1>7. "result_returned" \in Targets \ FinishingStates
  BY DEF Targets, FinishingStates, ResolvedStates
<1>8. ASSUME result' # NoDocument PROVE Knows("result_returned")'
  BY <1>2, <1>8 DEF Knows, ResolvedStates
<1>9. CASE RecordResult(r)
  <2>1. CASE GoTo(r, "insert_result")
    <3>1. pc'[r] = "insert_result" /\ document'[r] = document[r]
      BY <1>0, <2>1 DEF GoTo, RunnerTypes
    <3>. QED
      BY <1>0, <1>1, <1>6, <1>9, <3>1, CarryOK
  <2>2. CASE result = document[r] /\ ToTransition(r, "result_returned")
    <3>1. result' # NoDocument
      BY <1>6, <1>9, <2>2 DEF RecordResult, ledgerVars
    <3>. QED
      BY <1>7, <1>8, <2>2, <3>1, Moves
  <2>3. CASE EndRun(r)
    BY <2>3, Moves
  <2>. QED
    BY <1>9, <2>1, <2>2, <2>3 DEF RecordResult
<1>10. CASE InsertResult(r)
  <2>1. result' # NoDocument /\ ToTransition(r, "result_returned")
    BY <1>6, <1>10 DEF InsertResult
  <2>. QED
    BY <1>7, <1>8, <2>1, Moves
<1>. QED
  BY <1>3, <1>4, <1>5, <1>9, <1>10

\* Every step keeps what the runners know.
LEMMA RunnersStep == IInv /\ [Next]_vars => RunnersOK'
<1> SUFFICES ASSUME IInv, [Next]_vars, NEW q \in Runners PROVE RunnerOK(q)'
  BY DEF RunnersOK
<1>1. ASSUME Quiet(q) \/ Writes(q) PROVE RunnerOK(q)'
  <2>1. CASE \/ ResumeRefused(q) \/ TransitionRefused(q) \/ InsertInvocationRefused(q)
             \/ FailInvocationRefused(q) \/ CompleteInvocationRefused(q) \/ InsertResultRefused(q)
             \/ Crash(q) \/ Begin(q)
    BY <2>1, Moves DEF ResumeRefused, TransitionRefused, InsertInvocationRefused,
       FailInvocationRefused, CompleteInvocationRefused, InsertResultRefused, Crash, Begin
  <2>. QED
    BY <1>1, <2>1, ResumeOK, InvokeOK, TransitionOK, ComparisonOK, FinishOK DEF Quiet, Writes
<1>2. ASSUME NEW r \in Runners, Quiet(r) \/ Writes(r), q # r PROVE RunnerOK(q)'
  BY <1>2, OthersKeep, RunnerKept
<1>3. CASE RecoverCrossReview \/ UNCHANGED vars
  <2>1. LocalsKept(q)
    BY <1>3 DEF RecoverCrossReview, vars, runnerVars, LocalsKept
  <2>. QED
    BY <2>1, RunnerKept
<1>. QED
  BY <1>1, <1>2, <1>3, NextCases

-----------------------------------------------------------------------------
\* Only fail_invocation sends a runner to a failed state.
LEMMA OnlyFailInvocation ==
    ASSUME IInv, NEW r \in Runners, Quiet(r) \/ Writes(r), Failing(r)'
    PROVE  FailInvocation(r)
<1>0. RunnerTypes /\ RunnerOK(r)
  BY TypeParts DEF IInv, RunnersOK
<1>1. ~EndRun(r) /\ ~NextIteration(r)
  BY <1>0 DEF EndRun, NextIteration, Failing, RunnerTypes
<1>2. \A step : GoTo(r, step) => step = "transition"
  BY <1>0 DEF GoTo, Failing, RunnerTypes
<1>3. \A step, k : ToKey(r, step, k) => step = "transition"
  BY <1>0 DEF ToKey, Failing, RunnerTypes
<1>4. \A n : ~ToReview(r, n)
  BY <1>0 DEF ToReview, Failing, RunnerTypes
<1>5. \A t : ToTransition(r, t) => t \in FailedStates
  BY <1>0 DEF ToTransition, Failing, RunnerTypes
<1>6. {"reviewer_a", "reviewer_b", "baseline_recorded", "comparing", "reviewer_c_judging", "cross_review",
       "reviewer_c_independent", "reviewer_adjudication", "result_returned"} \cap FailedStates = {}
  BY DEF FailedStates
<1>7. \A k : ~AfterInvoke(r, k) /\ ~AfterComparison(r, k)
  BY <1>3, <1>5, <1>6 DEF AfterInvoke, AfterComparison
<1>8. ~Resume(r) /\ ~RecordInvocation(r) /\ ~RecordComparison(r) /\ ~RecordResult(r)
  BY <1>1, <1>2, <1>3, <1>4, <1>5, <1>6, <1>7 DEF Resume, RecordInvocation, RecordComparison, RecordResult
<1>9. ~Begin(r) /\ ~ResumeRefused(r) /\ ~TransitionRefused(r) /\ ~InsertInvocationRefused(r)
      /\ ~RecordAttemptsRefused(r) /\ ~FailInvocationRefused(r) /\ ~CompleteInvocationRefused(r)
      /\ ~InsertResultRefused(r) /\ ~Crash(r)
  BY <1>1, <1>2 DEF Begin, ResumeRefused, TransitionRefused, InsertInvocationRefused,
     RecordAttemptsRefused, FailInvocationRefused, CompleteInvocationRefused, InsertResultRefused, Crash
<1>10. ~Review(r)
  BY <1>0 DEF Review, Failing, RunnerTypes
<1>11. ~Adjudicate(r)
  BY <1>0, <1>5, <1>6 DEF Adjudicate, Failing, RunnerTypes
<1>12. ~Build(r)
  <2>1. SUFFICES ASSUME Build(r) PROVE FALSE
    OBVIOUS
  <2>2. BuiltDocument(r).status \in ResolvedStates
    BY <1>0, <2>1, BuiltTypes, OutcomeTypes DEF Build, RunnerOK, Finishing
  <2>3. pc'[r] = "transition" => target'[r] = BuiltDocument(r).status
    BY <1>0, <1>1, <2>1 DEF Build, RunnerTypes
  <2>. QED
    BY <2>2, <2>3 DEF Failing, ResolvedStates, FailedStates
<1>13. ~Transition(r)
  BY <1>0, <1>1 DEF Transition, AfterTransition, Failing, RunnerTypes
<1>14. ~InsertInvocation(r) /\ ~RecordAttempts(r) /\ ~CompleteInvocation(r) /\ ~AppendComparison(r)
       /\ ~InsertResult(r)
  BY <1>2, <1>4, <1>5, <1>6, <1>7 DEF InsertInvocation, RecordAttempts, CompleteInvocation,
     AppendComparison, InsertResult
<1>15. ~Derive(r)
  BY <1>0, <1>1 DEF Derive, Failing, RunnerTypes
<1>. QED
  BY <1>8, <1>9, <1>10, <1>11, <1>12, <1>13, <1>14, <1>15 DEF Quiet, Writes

\* A runner never undoes a failure.
LEMMA FailureStays ==
    ASSUME IInv, NEW r \in Runners, Quiet(r) \/ Writes(r), NEW t, FailureOf(t)
    PROVE  FailureOf(t)'
<1>0. LedgerTypes /\ RunnerOK(r)
  BY TypeParts DEF IInv, RunnersOK
<1>1. PICK k \in Keys : status[k] = "failed" /\ FailureState(k) = t
  BY DEF FailureOf
<1>2. status'[k] = "failed"
  <2>1. CASE Quiet(r)
    BY <1>1, <2>1, QuietFrame DEF ledgerVars
  <2>2. CASE Transition(r) \/ RecordAttempts(r) \/ AppendComparison(r) \/ Derive(r) \/ InsertResult(r)
    BY <1>1, <2>2 DEF Transition, RecordAttempts, AppendComparison, Derive, InsertResult
  <2>3. CASE InsertInvocation(r) \/ FailInvocation(r) \/ CompleteInvocation(r)
    BY <1>0, <1>1, <2>3 DEF InsertInvocation, FailInvocation, CompleteInvocation, CanComplete,
       Completed, LedgerTypes
  <2>. QED
    BY <2>1, <2>2, <2>3 DEF Writes
<1>. QED
  BY <1>1, <1>2 DEF FailureOf

\* One failure at a time: what failed is the last invocation, and it fails once.
LEMMA FailuresStep == IInv /\ [Next]_vars => Failures'
<1> SUFFICES ASSUME IInv, [Next]_vars PROVE Failures'
  OBVIOUS
<1>0. Failures /\ Rows /\ RunnerTypes /\ LedgerTypes
  BY TypeParts DEF IInv
<1>1. ASSUME NEW r \in Runners, Quiet(r) \/ Writes(r)
      PROVE  Failures'
  <2>0. \A q \in Runners : q # r => LocalsKept(q)
    BY <1>1, OthersKeep
  <2>1. \A q \in Runners : q # r => (Failing(q)' <=> Failing(q)) /\ target'[q] = target[q]
    BY <2>0 DEF LocalsKept, Failing
  <2>2. CASE FailInvocation(r)
    <3>1. /\ key[r] \in Keys /\ status[key[r]] = "pending" /\ state' = state
          /\ status'[key[r]] = "failed" /\ target'[r] = FailureState(key[r])
      BY <1>0, <2>2 DEF IInv, RunnersOK, RunnerOK, Invoking, FailInvocation, LedgerTypes, RunnerTypes,
         ToTransition
    <3>2. \A j \in Keys : status[j] # "failed"
      BY <1>0, <3>1, Frontier DEF Exists, Completed
    <3>3. state \notin FailedStates /\ \A q \in Runners : ~Failing(q)
      BY <1>0, <3>2 DEF Failures, FailureOf
    <3>4. FailureOf(target[r])'
      BY <3>1 DEF FailureOf
    <3>. QED
      BY <2>1, <3>1, <3>3, <3>4 DEF Failures
  <2>3. CASE ~FailInvocation(r)
    <3>1. ~Failing(r)'
      BY <1>1, <2>3, OnlyFailInvocation
    <3>2. ASSUME NEW q \in Runners, Failing(q)'
          PROVE  q # r /\ Failing(q) /\ FailureOf(target[q])' /\ \A s \in Runners : Failing(s)' => s = q
      <4>1. q # r /\ Failing(q) /\ target'[q] = target[q]
        BY <2>1, <3>1, <3>2
      <4>2. PICK t : t = target[q]
        OBVIOUS
      <4>3. FailureOf(t) /\ \A s \in Runners : Failing(s) => s = q
        BY <1>0, <4>1, <4>2 DEF Failures
      <4>4. FailureOf(t)'
        BY <1>1, <4>3, FailureStays
      <4>. QED
        BY <2>1, <3>1, <4>1, <4>2, <4>3, <4>4 DEF FailureOf
    <3>3. CASE Transition(r)
      <4>1. state' = target[r] /\ (target[r] \in FailedStates => Failing(r))
        BY <3>3 DEF Transition, Failing
      <4>2. CASE target[r] \in FailedStates
        <5>1. PICK t : t = target[r]
          OBVIOUS
        <5>2. FailureOf(t) /\ \A q \in Runners : Failing(q) => q = r
          BY <1>0, <4>1, <4>2, <5>1 DEF Failures
        <5>3. FailureOf(t)'
          BY <1>1, <5>2, FailureStays
        <5>. QED
          BY <3>2, <4>1, <5>1, <5>2, <5>3 DEF Failures, FailureOf
      <4>3. CASE target[r] \notin FailedStates
        BY <3>2, <4>1, <4>3 DEF Failures
      <4>. QED
        BY <4>2, <4>3
    <3>4. CASE ~Transition(r)
      <4>1. state' = state
        BY <1>1, <3>4, QuietFrame DEF ledgerVars, Writes, InsertInvocation, RecordAttempts,
           FailInvocation, CompleteInvocation, AppendComparison, Derive, InsertResult
      <4>2. state \in FailedStates => FailureOf(state)'
        <5>1. PICK t : t = state
          OBVIOUS
        <5>. QED
          BY <1>0, <1>1, <4>1, <5>1, FailureStays DEF Failures, FailureOf
      <4>. QED
        BY <1>0, <3>2, <4>1, <4>2 DEF Failures
    <3>. QED
      BY <3>3, <3>4
  <2>. QED
    BY <2>2, <2>3
<1>2. CASE RecoverCrossReview
  <2>1. state \in FailedStates /\ state' = "cross_review" /\ UNCHANGED <<pc, target>>
    BY <1>2 DEF RecoverCrossReview, ValidRecovery, FailedStates, runnerVars
  <2>2. \A q \in Runners : ~Failing(q)
    BY <1>0, <2>1 DEF Failures
  <2>. QED
    BY <2>1, <2>2 DEF Failures, Failing, FailedStates
<1>3. CASE UNCHANGED vars
  BY <1>0, <1>3 DEF vars, ledgerVars, runnerVars, Failures, Failing, FailureOf
<1>. QED
  BY <1>1, <1>2, <1>3, NextCases
-----------------------------------------------------------------------------
\* The inductive invariant holds in every reachable state.
THEOREM IInvHolds == Spec => []IInv
<1>1. IInv /\ [Next]_vars => IInv'
  BY TypeStep, RowsStep, StateStep, ResultStep, RunnersStep, FailuresStep DEF IInv
<1>. QED
  BY <1>1, InitIInv, PTL DEF Spec

\* Type correctness of run(): TypeOK holds in every reachable state.
THEOREM TypeCorrect == Spec => []TypeOK
<1>1. IInv => TypeOK
  BY DEF IInv
<1>. QED
  BY <1>1, IInvHolds, PTL

\* No interleaving of runners, crashes and recoveries assigns a reviewer the
\* outputs recorded before do not call for.
THEOREM AssignedOnlyOnCall == Spec => []AssignedOnlyWhenCalledFor
<1>1. IInv => AssignedOnlyWhenCalledFor
  BY DEF IInv, Rows, RowOK, Ready, CalledFor, Keys, AssignedOnlyWhenCalledFor
<1>. QED
  BY <1>1, IInvHolds, PTL

\* _derive_outcome never raises and never finds a comparison missing.
THEOREM DerivationAlwaysSucceeds == Spec => []DerivationSucceeds
<1>1. IInv => DerivationSucceeds
  BY FinishedDerives DEF IInv, RunnersOK, RunnerOK, Finishing, DerivationSucceeds
<1>. QED
  BY <1>1, IInvHolds, PTL

\* A runner that resumes a resolved session rebuilds the status in the ledger.
THEOREM ResolutionAlwaysReproducible == Spec => []ResolutionReproducible
<1>1. IInv => ResolutionReproducible
  <2> SUFFICES ASSUME IInv, NEW r \in Runners, pc[r] = "build"
               PROVE  seen[r] \in {"reviewer_adjudication", BuiltDocument(r).status}
    BY DEF ResolutionReproducible
  <2>. QED
    BY BuiltTypes DEF IInv, RunnersOK, RunnerOK
<1>. QED
  BY <1>1, IInvHolds, PTL

\* recover_cross_review always finds exactly one failed invocation.
THEOREM CrossReviewAlwaysRecoverable == Spec => []CrossReviewRecoverable
<1>1. IInv => CrossReviewRecoverable
  <2> SUFFICES ASSUME IInv, state = "cross_review_failed"
               PROVE  Cardinality(FailedCrossReviews) = 1
    BY DEF CrossReviewRecoverable
  <2>1. PICK k \in {"cross_a", "cross_b"} : status[k] = "failed"
    BY RecoveryReady
  <2>2. FailedCrossReviews = {k}
    BY <2>1, Frontier DEF IInv, FailedCrossReviews, Exists, Completed, Keys
  <2>. QED
    BY <2>2, FS_Singleton
<1>. QED
  BY <1>1, IInvHolds, PTL

\* Attempts are numbered without a gap, whichever runners make them.
THEOREM AttemptsWithoutGap == Spec => []AttemptNumbersHaveNoGap
<1>1. IInv => AttemptNumbersHaveNoGap
  <2> SUFFICES ASSUME IInv, NEW r \in Runners, pc[r] \in {"review", "attempts"}
               PROVE  first[r] <= attempt_count[key[r]] + 1
    BY DEF AttemptNumbersHaveNoGap
  <2>. QED
    BY DEF IInv, RunnersOK, RunnerOK
<1>. QED
  BY <1>1, IInvHolds, PTL

\* A completed output and the result are written once.
THEOREM RecordsStayImmutable == Spec => RecordsAreImmutable
<1>1. IInv /\ [Next]_vars => [/\ \A k \in Keys : Completed(k) => /\ status'[k] = "completed"
                                                                /\ payload'[k] = payload[k]
                              /\ result # NoDocument => result' = result]_vars
  BY GrowsStep DEF Grows, Completed
<1>. QED
  BY <1>1, IInvHolds, PTL DEF Spec, RecordsAreImmutable

-----------------------------------------------------------------------------
(* The refinement of ReviewContract *)

\* The variables of the contract, as the refinement maps them.
Phase == IF state = "result_returned" THEN "returned"
         ELSE IF state \in FailedStates THEN "failed" ELSE "open"

Decision == [path |-> result.path, final |-> result.final, status |-> result.status]

\* The contract and the session ask the same route.
LEMMA SameRoute ==
    /\ Contract!Keys = Keys
    /\ \A q, a : Contract!ExpandsToB(q, a) <=> ExpandsToB(q, a)
    /\ \A q, output : Contract!InitialRequires(q, output) <=> InitialRequires(q, output)
    /\ \A output : Contract!CrossRequires(output) <=> CrossRequires(output)
    /\ \A path, output : Contract!FinalAssessment(path, output) = FinalAssessment(path, output)
    /\ \A path, final : Contract!ResultStatus(path, final) = ResultStatus(path, final)
  BY DEF Contract!Keys, Keys, Contract!ExpandsToB, ExpandsToB, Contract!Triggered, Triggered,
     Contract!InitialRequires, InitialRequires,
     Contract!CrossRequires, CrossRequires, Contract!RequiresCrossReview, RequiresCrossReview,
     Contract!FinalAssessment, FinalAssessment, Contract!JudgedFinal, JudgedFinal,
     Contract!ResultStatus, ResultStatus

\* An opinion is given when its invocation is completed.
LEMMA GivenRows ==
    ASSUME IInv, NEW k \in Keys
    PROVE  Contract!Given(k) <=> Completed(k)
<1>1. RowOK(k) /\ NoPayload \notin PayloadsOf(k)
  BY ReviewRouteConstants DEF IInv, Rows, PayloadsOf, Judgments
<1>. QED
  BY <1>1 DEF RowOK, Contract!Given

\* The opinion the contract needs is the missing one that is called for.
LEMMA NeededRows ==
    ASSUME IInv
    PROVE  /\ \A k \in Keys : CalledFor(k) /\ ~Completed(k) => Contract!Needed = {k}
           /\ Contract!Needed = {} <=> Decided
<1>1. \A k \in Keys : Contract!Given(k) <=> Completed(k)
  BY GivenRows
<1>2. ASSUME NEW k \in Keys, CalledFor(k), ~Completed(k)
      PROVE  Contract!Needed = {k}
  BY <1>1, <1>2, SameRoute DEF CalledFor, Contract!Needed, Keys
<1>3. ASSUME Decided PROVE Contract!Needed = {}
  BY <1>1, <1>3, SameRoute DEF Decided, CalledFor, Contract!Needed, Keys
<1>. QED
  BY <1>2, <1>3 DEF Decided

\* When no opinion is missing both read the same path.
LEMMA PathRows ==
    ASSUME IInv, Decided
    PROVE  Contract!Path = DerivedPath
<1>1. \A k \in Keys : (Contract!Given(k) <=> Completed(k)) /\ (Exists(k) <=> Completed(k))
  BY GivenRows, DecidedRows DEF IInv
<1>2. \A k \in Keys : Completed(k) => CalledFor(k)
  BY DEF IInv, Rows, RowOK, Ready, Exists, Completed
<1>. QED
  BY <1>1, <1>2 DEF Contract!Path, DerivedPath, Decided, CalledFor, Keys

\* While an opinion is missing nothing was decided or returned.
LEMMA OpenWhile ==
    ASSUME IInv
    PROVE  /\ ~Decided => result = NoDocument /\ state # "result_returned"
           /\ state \in FailedStates => ~Decided
           /\ \A k \in Keys : status[k] = "pending" => Phase = "open"
           /\ result = NoDocument /\ Decided => Phase = "open"
<1>1. ~Decided => result = NoDocument /\ state # "result_returned"
  BY DEF IInv, ResultOK, StateOK, Knows, Finished
<1>2. state \in FailedStates => \E j \in Keys : status[j] = "failed"
  BY DEF IInv, Failures, FailureOf
<1>3. state \in FailedStates => ~Decided
  BY <1>2, DecidedRows DEF IInv, Exists, Completed
<1>4. ASSUME NEW k \in Keys, status[k] = "pending" PROVE Phase = "open"
  <2>1. ~Decided
    BY <1>4, DecidedRows DEF IInv, Exists, Completed
  <2>2. state \notin FailedStates
    BY <1>2, <1>4, Frontier DEF IInv, Exists, Completed
  <2>. QED
    BY <1>1, <2>1, <2>2 DEF Phase
<1>5. result = NoDocument /\ Decided => Phase = "open"
  BY <1>3 DEF IInv, StateOK, Knows, Phase
<1>. QED
  BY <1>1, <1>3, <1>4, <1>5

\* The result is a decision exactly when there is one.
LEMMA DecisionRows ==
    ASSUME IInv
    PROVE  Decision = Contract!NoDecision <=> result = NoDocument
<1>1. CASE result = NoDocument
  BY <1>1 DEF Decision, Contract!NoDecision, NoDocument, None
<1>2. CASE result # NoDocument
  <2>1. result.path \in Paths
    BY <1>2, OutcomeTypes DEF IInv, ResultOK
  <2>2. Decision.path # "none" /\ Contract!NoDecision.path = "none"
    BY <2>1 DEF Decision, Contract!NoDecision, Paths
  <2>. QED
    BY <1>2, <2>2
<1>. QED
  BY <1>1, <1>2

\* A runner's step is a step of the contract, or invisible to it.
LEMMA RunnerRefines ==
    ASSUME IInv, NEW r \in Runners, Quiet(r) \/ Writes(r)
    PROVE  Contract!Next \/ UNCHANGED <<request, payload, Phase, Decision>>
<1>0. RunnerTypes /\ LedgerTypes /\ RunnerOK(r)
  BY TypeParts DEF IInv, RunnersOK
<1>1. CASE Quiet(r)
  BY <1>1, QuietFrame DEF ledgerVars, Phase, Decision
<1>2. CASE InsertInvocation(r) \/ RecordAttempts(r) \/ FailInvocation(r) \/ AppendComparison(r) \/ Derive(r)
  BY <1>2 DEF InsertInvocation, RecordAttempts, FailInvocation, AppendComparison, Derive, Phase, Decision
<1>3. CASE CompleteInvocation(r)
  <2>1. PICK k \in Keys : k = key[r] /\ CalledFor(k)
    BY <1>0, <1>3 DEF CompleteInvocation, RunnerOK, Invoking, Ready
  <2>2. PICK o \in Answers[k] : o = call[r].output
    BY <1>0, <1>3, <2>1 DEF CompleteInvocation, RunnerOK
  <2>3. UNCHANGED <<request, state, result>> /\ payload' = [payload EXCEPT ![k] = o]
    BY <1>3, <2>1, <2>2 DEF CompleteInvocation
  <2>4. UNCHANGED <<request, Phase, Decision>>
    BY <2>3 DEF Phase, Decision
  <2>5. CASE status[k] = "pending"
    <3>1. Phase = "open" /\ k \in Contract!Needed
      BY <2>1, <2>5, OpenWhile, NeededRows DEF Completed
    <3>2. Contract!Submit(k)
      BY <2>2, <2>3, <2>4, <3>1 DEF Contract!Submit, Phase, Decision
    <3>. QED
      BY <3>2, SameRoute DEF Contract!Next
  <2>6. CASE payload[k] = o
    BY <1>0, <2>3, <2>4, <2>6 DEF LedgerTypes
  <2>. QED
    BY <1>3, <2>1, <2>2, <2>5, <2>6 DEF CompleteInvocation, CanComplete
<1>4. CASE InsertResult(r)
  <2>1. /\ Finished /\ result = NoDocument /\ result' = document[r]
        /\ document[r].path = DerivedPath /\ document[r].final = TheFinal /\ document[r].status = TheStatus
    BY <1>0, <1>4 DEF InsertResult, RunnerOK, Finishing, Carries, CarriesBuilt
  <2>2. /\ Decided /\ Phase = "open" /\ Contract!Needed = {} /\ Contract!Path = DerivedPath
        /\ Decision = Contract!NoDecision
    BY <2>1, OpenWhile, NeededRows, PathRows, DecisionRows DEF Finished
  <2>3. Decision' = [path |-> DerivedPath, final |-> FinalAssessment(DerivedPath, payload),
                     status |-> ResultStatus(DerivedPath, FinalAssessment(DerivedPath, payload))]
    BY <2>1 DEF Decision, TheFinal, TheStatus
  <2>4. UNCHANGED <<request, payload, Phase>>
    BY <1>4 DEF InsertResult, Phase
  <2>5. Contract!Decide
    BY <2>2, <2>3, <2>4, SameRoute DEF Contract!Decide, Phase, Decision
  <2>. QED
    BY <2>5 DEF Contract!Next
<1>5. CASE Transition(r)
  <2>1. /\ target[r] \in Targets /\ Knows(target[r]) /\ ValidTransition(state, target[r])
        /\ state' = target[r] /\ UNCHANGED <<request, payload, status, result>>
    BY <1>0, <1>5 DEF Transition, RunnerOK
  <2>2. Phase = "open"
    <3>1. state \notin FailedStates
      BY <2>1 DEF ValidTransition, TerminalStates, FailedStates
    <3>2. state # "result_returned"
      BY <2>1 DEF ValidTransition, NormalTransitions, FailureTransitions, Targets, FinishingStates,
         ResolvedStates, FailedStates
    <3>. QED
      BY <3>1, <3>2 DEF Phase
  <2>3. UNCHANGED <<request, payload, Decision>>
    BY <2>1 DEF Decision
  <2>4. CASE target[r] = "result_returned"
    <3>1. Phase' = "returned" /\ Decision # Contract!NoDecision
      BY <2>1, <2>4, DecisionRows DEF Phase, Knows
    <3>2. Contract!Return
      BY <2>2, <2>3, <3>1 DEF Contract!Return, Phase, Decision
    <3>. QED
      BY <3>2 DEF Contract!Next
  <2>5. CASE target[r] \in FailedStates
    <3>1. Phase' = "failed"
      BY <2>1, <2>5 DEF Phase, FailedStates
    <3>2. \E j \in Keys : status[j] = "failed"
      BY <1>5, <2>5 DEF IInv, Failures, Failing, FailureOf, Transition
    <3>3. Contract!Needed # {}
      BY <3>2, NeededRows, DecidedRows DEF IInv, Exists, Completed
    <3>4. Contract!Fail
      BY <2>2, <2>3, <3>1, <3>3 DEF Contract!Fail, Phase, Decision
    <3>. QED
      BY <3>4 DEF Contract!Next
  <2>6. CASE target[r] \notin FailedStates \cup {"result_returned"}
    <3>1. Phase' = "open"
      BY <2>1, <2>6 DEF Phase
    <3>. QED
      BY <2>2, <2>3, <3>1
  <2>. QED
    BY <2>4, <2>5, <2>6
<1>. QED
  BY <1>1, <1>2, <1>3, <1>4, <1>5 DEF Writes

\* recover_cross_review reopens a review that misses a cross review.
LEMMA RecoveryRefines ==
    ASSUME IInv, RecoverCrossReview
    PROVE  Contract!Next
<1>1. state = "cross_review_failed" /\ state' = "cross_review" /\ UNCHANGED <<request, payload, result>>
  BY DEF RecoverCrossReview, ValidRecovery
<1>2. Phase = "failed" /\ Phase' = "open" /\ UNCHANGED <<request, payload, Decision>>
  BY <1>1 DEF Phase, Decision, FailedStates
<1>3. PICK k \in {"cross_a", "cross_b"} : status[k] = "failed" /\ CalledFor(k)
  BY <1>1, RecoveryReady DEF Ready
<1>4. Contract!Needed = {k}
  BY <1>3, NeededRows DEF Completed, Keys
<1>5. Contract!Reopen
  BY <1>2, <1>3, <1>4 DEF Contract!Reopen, Phase, Decision
<1>. QED
  BY <1>5 DEF Contract!Next

\* The session implements ReviewContract: to a caller, any number of runners,
\* crashes and recoveries is one review that takes each opinion once and in
\* order, decides once by the contract's function, and fails only while an
\* opinion is missing.
THEOREM RefinesContract == Spec => ImplementsContract
<1>1. Init => Contract!Init
  <2> SUFFICES ASSUME Init PROVE Contract!Init
    OBVIOUS
  <2>1. Phase = "open" /\ Decision = Contract!NoDecision
    BY DEF Init, Phase, Decision, FailedStates, NoDocument, None, Contract!NoDecision
  <2>. QED
    BY <2>1, SameRoute DEF Init, Contract!Init, Phase, Decision
<1>2. IInv /\ [Next]_vars => [Contract!Next]_(Contract!vars)
  <2> SUFFICES ASSUME IInv, [Next]_vars
               PROVE  Contract!Next \/ UNCHANGED <<request, payload, Phase, Decision>>
    BY DEF Contract!vars, Phase, Decision
  <2>1. CASE UNCHANGED vars
    BY <2>1 DEF vars, ledgerVars, Phase, Decision
  <2>. QED
    BY <2>1, NextCases, RunnerRefines, RecoveryRefines
<1>. QED
  BY <1>1, <1>2, IInvHolds, PTL DEF Spec, ImplementsContract, Contract!Spec
=============================================================================
