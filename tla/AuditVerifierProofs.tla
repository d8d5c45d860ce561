------------------------- MODULE AuditVerifierProofs -------------------------
(***************************************************************************)
(* Every review that is returned passes the decision-ledger verifier: its  *)
(* decision trace, invocations, route and published assessment for any     *)
(* number of runners, crashes and recoveries, and its comparison events    *)
(* when there is one runner.                                               *)
(***************************************************************************)
EXTENDS AuditVerifier, OrchestratorProofs, WellFoundedInduction

(* The loop over the state trace *)

\* One iteration: what is kept of the first n states, from what is kept of fewer.
Iteration(s, kept, n) ==
    IF n = 0 THEN << >>
    ELSE IF n > 1 /\ ValidRecovery(s[n - 1], s[n]) THEN kept[n - 2]
    ELSE Append(kept[n - 1], s[n])

\* kept is what the loop computes on the first m states.
Computes(s, kept, m) == kept = [n \in 0 .. m |-> Iteration(s, kept, n)]

\* Every set of natural numbers has a least one.
LEMMA LeastOf ==
    ASSUME NEW T \in SUBSET Nat, T # {}
    PROVE  \E x \in T : \A y \in T : x <= y
<1> DEFINE R == OpToRel(<, Nat)
<1>1. IsWellFoundedOn(R, Nat)
  BY NatLessThanWellFounded
<1>2. \A x \in Nat, y \in Nat : y < x => <<y, x>> \in R
  BY DEF OpToRel
<1> HIDE DEF R
<1>3. PICK x \in T : \A y \in T : ~(<<y, x>> \in R)
  BY <1>1, WFMin
<1>4. \A y \in T : ~(y < x)
  BY <1>2, <1>3
<1>. QED
  BY <1>4

\* The loop computes something, however long the trace.
LEMMA LoopComputes ==
    ASSUME NEW s, NEW m \in Nat
    PROVE  \E kept : Computes(s, kept, m)
<1> DEFINE Stuck == {n \in Nat : ~\E kept : Computes(s, kept, n)}
<1> SUFFICES ASSUME Stuck # {} PROVE FALSE
  OBVIOUS
<1>1. PICK n \in Stuck : \A k \in Stuck : n <= k
  BY LeastOf
<1>2. n # 0
  <2>1. Computes(s, [i \in 0 .. 0 |-> << >>], 0)
    BY DEF Computes, Iteration
  <2>. QED
    BY <2>1
<1>3. n - 1 \in Nat /\ n - 1 \notin Stuck
  BY <1>1, <1>2
<1>4. PICK kept : Computes(s, kept, n - 1)
  BY <1>3
<1> DEFINE longer == [i \in 0 .. n |-> IF i < n THEN kept[i] ELSE Iteration(s, kept, n)]
<1>5. Computes(s, longer, n)
  <2>1. ASSUME NEW i \in 0 .. n - 1 PROVE longer[i] = Iteration(s, longer, i)
    <3>0. i \in 0 .. n /\ i < n
      BY <1>3
    <3>1. longer[i] = kept[i] /\ kept[i] = Iteration(s, kept, i)
      <4>1. longer[i] = kept[i]
        BY <3>0
      <4>2. kept[i] = Iteration(s, kept, i)
        BY <1>4 DEF Computes
      <4>. QED
        BY <4>1, <4>2
    <3>2. i > 0 => longer[i - 1] = kept[i - 1]
      BY <1>3
    <3>3. i > 1 => longer[i - 2] = kept[i - 2]
      BY <1>3
    <3> HIDE DEF longer
    <3>. QED
      BY <3>1, <3>2, <3>3 DEF Iteration
  <2>2. longer[n] = Iteration(s, longer, n)
    <3>1. longer[n] = Iteration(s, kept, n) /\ longer[n - 1] = kept[n - 1]
      BY <1>2, <1>3
    <3>2. n > 1 => longer[n - 2] = kept[n - 2]
      BY <1>3
    <3> HIDE DEF longer
    <3>. QED
      BY <1>2, <3>1, <3>2 DEF Iteration
  <2>3. longer = [i \in 0 .. n |-> longer[i]]
    OBVIOUS
  <2>4. \A i \in 0 .. n : longer[i] = Iteration(s, longer, i)
    BY <1>3, <2>1, <2>2
  <2> HIDE DEF longer
  <2>. QED
    BY <2>3, <2>4 DEF Computes
<1>. QED
  BY <1>1, <1>5

\* KeptStates is what the loop computes.
LEMMA KeptComputes ==
    ASSUME NEW s, Len(s) \in Nat
    PROVE  Computes(s, KeptStates(s), Len(s))
<1>1. PICK kept : Computes(s, kept, Len(s))
  BY LoopComputes
<1>2. kept = [n \in 0 .. Len(s) |-> Iteration(s, kept, n)]
  BY <1>1 DEF Computes
<1>3. KeptStates(s) = [n \in 0 .. Len(s) |-> Iteration(s, KeptStates(s), n)]
  BY <1>2 DEF KeptStates, Iteration
<1>. QED
  BY <1>3 DEF Computes

\* What it computes on the first states does not depend on those that follow.
LEMMA LoopIsPrefix ==
    ASSUME NEW s, NEW t, NEW m \in Nat, NEW p \in Nat, NEW f, NEW g, m <= p,
           \A i \in 1 .. m : s[i] = t[i],
           Computes(s, f, m), Computes(t, g, p)
    PROVE  \A n \in 0 .. m : f[n] = g[n]
<1> DEFINE Differ == {n \in Nat : n <= m /\ f[n] # g[n]}
<1> SUFFICES ASSUME Differ # {} PROVE FALSE
  OBVIOUS
<1>1. PICK n \in Differ : \A k \in Differ : n <= k
  BY LeastOf
<1>2. f[n] = Iteration(s, f, n) /\ g[n] = Iteration(t, g, n)
  <2>1. n \in 0 .. m /\ n \in 0 .. p
    BY <1>1
  <2>2. f[n] = Iteration(s, f, n)
    BY <2>1 DEF Computes
  <2>3. g[n] = Iteration(t, g, n)
    BY <2>1 DEF Computes
  <2>. QED
    BY <2>2, <2>3
<1>3. CASE n = 0
  BY <1>1, <1>2, <1>3 DEF Iteration
<1>4. CASE n > 0
  <2>1. s[n] = t[n] /\ f[n - 1] = g[n - 1]
    BY <1>1, <1>4
  <2>2. n > 1 => s[n - 1] = t[n - 1] /\ f[n - 2] = g[n - 2]
    BY <1>1, <1>4
  <2>. QED
    BY <1>1, <1>2, <1>4, <2>1, <2>2 DEF Iteration
<1>. QED
  BY <1>1, <1>3, <1>4

-----------------------------------------------------------------------------
(* The decision trace grows with the trace *)

\* A state that is no recovery is appended to the decision trace; a recovery
\* takes the failure before it back.
LEMMA KeptAppend ==
    ASSUME NEW S, NEW s \in Seq(S), NEW x \in S
    PROVE  /\ s = << >> \/ ~ValidRecovery(s[Len(s)], x)
                => KeptStates(Append(s, x))[Len(s) + 1] = Append(KeptStates(s)[Len(s)], x)
           /\ s # << >> /\ ValidRecovery(s[Len(s)], x)
                => KeptStates(Append(s, x))[Len(s) + 1] = KeptStates(s)[Len(s) - 1]
<1>1. PICK n \in Nat : n = Len(s)
  OBVIOUS
<1>2. PICK t : t = Append(s, x)
  OBVIOUS
<1>3. Len(t) = n + 1 /\ t[n + 1] = x
  BY <1>1, <1>2
<1>4. \A i \in 1 .. n : s[i] = t[i]
  BY <1>1, <1>2
<1>5. s = << >> <=> n = 0
  BY <1>1
<1>6. PICK f : f = KeptStates(s)
  OBVIOUS
<1>7. PICK g : g = KeptStates(t)
  OBVIOUS
<1>8. Computes(s, f, n)
  BY <1>1, <1>6, KeptComputes
<1>9. Computes(t, g, n + 1)
  BY <1>3, <1>7, KeptComputes
<1>10. \A i \in 0 .. n : f[i] = g[i]
  <2>1. PICK p \in Nat : p = n + 1
    OBVIOUS
  <2>2. n <= p /\ Computes(t, g, p)
    BY <1>9, <2>1
  <2>. QED
    BY <1>4, <1>8, <2>2, LoopIsPrefix
<1>11. g[n + 1] = Iteration(t, g, n + 1)
  BY <1>9 DEF Computes
<1>12. n > 0 => t[n] = s[n] /\ g[n - 1] = f[n - 1]
  BY <1>4, <1>10
<1>13. g[n] = f[n] /\ n + 1 - 1 = n /\ n + 1 - 2 = n - 1
  BY <1>10
<1>14. g[n + 1] = IF n > 0 /\ ValidRecovery(t[n], x) THEN g[n - 1] ELSE Append(g[n], x)
  BY <1>3, <1>11, <1>13 DEF Iteration
<1>. QED
  BY <1>1, <1>2, <1>5, <1>6, <1>7, <1>12, <1>13, <1>14

\* What is kept of a trace that ends with a state that is no recovery.
LEMMA KeptLast ==
    ASSUME NEW S, NEW s \in Seq(S), Len(s) > 1, ~ValidRecovery(s[Len(s) - 1], s[Len(s)])
    PROVE  KeptStates(s)[Len(s)] = Append(KeptStates(s)[Len(s) - 1], s[Len(s)])
<1>1. Computes(s, KeptStates(s), Len(s)) /\ Len(s) \in Nat
  BY KeptComputes
<1>2. KeptStates(s)[Len(s)] = Iteration(s, KeptStates(s), Len(s))
  BY <1>1 DEF Computes
<1>. QED
  BY <1>1, <1>2 DEF Iteration

-----------------------------------------------------------------------------
(* The inductive invariant *)

\* The states in which invocation k has not been reached.
BeforeB == {"snapshotted", "reviewer_a", "reviewer_a_failed", "baseline_recorded"}
BeforeCross == BeforeB \cup {"reviewer_b", "reviewer_b_failed", "comparing"}
BeforeC == BeforeCross \cup {"cross_review", "cross_review_failed"}
BeforeJudge == BeforeC \cup {"reviewer_c_independent"}

Before(k) ==
    IF k = "a" THEN {"snapshotted"}
    ELSE IF k = "b" THEN BeforeB
    ELSE IF k \in {"cross_a", "cross_b"} THEN BeforeCross
    ELSE IF k = "c" THEN BeforeC
    ELSE IF k = "judge" THEN BeforeJudge ELSE {}

\* Nobody is ahead of the session: an invocation exists, or is about to, only
\* once the session has reached it.
Placed ==
    /\ \A k \in Keys : Exists(k) => state \notin Before(k)
    /\ \A r \in Runners : pc[r] \in Invoking => state \notin Before(key[r])

\* The audited transitions are legal and lead to the state of the session.
Audited ==
    /\ Len(trace) > 1
    /\ trace[Len(trace)] = state
    /\ TraceIsLegal

\* The way to the judgment, and how far along it a state lies.
Spine == <<"requested", "validated", "snapshotted", "reviewer_a", "baseline_recorded",
           "reviewer_b", "comparing", "cross_review", "reviewer_c_independent",
           "reviewer_c_judging">>
Depth == [snapshotted |-> 3, reviewer_a |-> 4, baseline_recorded |-> 5, reviewer_b |-> 6,
          comparing |-> 7, cross_review |-> 8, reviewer_c_independent |-> 9,
          reviewer_c_judging |-> 10]
Way(n) == [i \in 1 .. n |-> Spine[i]]

\* Without its recoveries the trace is the way to the state, and from
\* adjudication on it is what the verifier expects of the path.
Traced ==
    /\ state \in DOMAIN Depth => DecisionTrace = Way(Depth[state])
    /\ state = "cross_review_failed" => DecisionTrace = Append(Way(8), "cross_review_failed")
    /\ state = "reviewer_adjudication" => DecisionTrace = ExpectedPrefix(DerivedPath)
    /\ state \in ResolvedStates => DecisionTrace = Append(ExpectedPrefix(DerivedPath), state)
    /\ state = "result_returned" =>
         DecisionTrace = Append(Append(ExpectedPrefix(DerivedPath), TheStatus), "result_returned")

\* A comparison is recorded when both outputs of its round are there.
Compared ==
    /\ comparisons["independent"] > 0 => Completed("b")
    /\ comparisons["cross_review"] > 0 => Completed("cross_b")

\* The runners that are about to append the comparison event of stage s.
Appenders(s) == {r \in Runners : pc[r] = "append" /\ StageOf(key[r]) = s}

\* Every comparison event of a stage is one runner's.
EventsBounded ==
    \A s \in Stages : comparisons[s] + Cardinality(Appenders(s)) <= Cardinality(Runners)

VInv == IInv /\ Placed /\ Audited /\ Traced /\ Compared

-----------------------------------------------------------------------------
(* Where a runner goes *)

\* What the moves of a runner do to its step and its invocation.
LEMMA MovesTo ==
    ASSUME RunnerTypes, NEW r \in Runners
    PROVE  /\ EndRun(r) => pc'[r] = "idle"
           /\ NextIteration(r) => pc'[r] = "load"
           /\ \A t : ToTransition(r, t) => pc'[r] = "transition"
           /\ \A step : GoTo(r, step) => pc'[r] = step /\ key'[r] = key[r]
           /\ \A step, k : ToKey(r, step, k) => pc'[r] = step /\ key'[r] = k
           /\ \A n : ToReview(r, n) => pc'[r] = "review" /\ key'[r] = key[r]
<1>1. EndRun(r) => pc'[r] = "idle"
  BY DEF EndRun, RunnerTypes
<1>2. NextIteration(r) => pc'[r] = "load"
  BY DEF NextIteration, RunnerTypes
<1>3. \A t : ToTransition(r, t) => pc'[r] = "transition"
  BY DEF ToTransition, RunnerTypes
<1>4. \A step : GoTo(r, step) => pc'[r] = step /\ key'[r] = key[r]
  BY DEF GoTo, RunnerTypes
<1>5. \A step, k : ToKey(r, step, k) => pc'[r] = step /\ key'[r] = k
  BY DEF ToKey, RunnerTypes
<1>6. \A n : ToReview(r, n) => pc'[r] = "review" /\ key'[r] = key[r]
  BY DEF ToReview, RunnerTypes
<1>. QED
  BY <1>1, <1>2, <1>3, <1>4, <1>5, <1>6

\* A runner comes to an invocation from the state that asks for it, or goes on
\* with it, or goes on from one cross review to the other.
Comes(r) ==
    \/ pc[r] \in Invoking /\ key'[r] = key[r]
    \/ pc[r] \in Invoking /\ key[r] = "cross_a" /\ key'[r] = "cross_b"
    \/ state' = state /\ state \notin Before(key'[r])

\* So it is with every step; and a comparison is appended only by a runner
\* that looked and found none.
LEMMA OwnStep ==
    ASSUME IInv, NEW r \in Runners, Quiet(r) \/ Writes(r)
    PROVE  /\ pc'[r] \in Invoking => Comes(r)
           /\ pc'[r] = "append" => /\ RecordComparison(r) /\ key'[r] = key[r]
                                   /\ ~(comparisons[StageOf(key[r])] > 0)
<1>0. RunnerTypes
  BY TypeParts DEF IInv
<1>a. {"record", "insert", "review", "attempts", "fail", "complete"} = Invoking
  BY DEF Invoking
<1>b. {"idle", "load", "transition", "compare", "append", "derive", "adjudicate", "build", "result",
       "insert_result"} \cap Invoking = {}
  BY DEF Invoking
<1>1. ASSUME NEW k, AfterInvoke(r, k)
      PROVE  /\ pc'[r] \in Invoking => k = "cross_a" /\ key'[r] = "cross_b"
             /\ pc'[r] # "append"
  BY <1>0, <1>1, <1>b, MovesTo DEF AfterInvoke
<1>2. ASSUME NEW k, AfterComparison(r, k)
      PROVE  pc'[r] \notin Invoking /\ pc'[r] # "append"
  BY <1>0, <1>2, <1>b, MovesTo DEF AfterComparison
<1>3. CASE Begin(r) \/ ResumeRefused(r) \/ TransitionRefused(r) \/ InsertInvocationRefused(r)
           \/ FailInvocationRefused(r) \/ CompleteInvocationRefused(r) \/ InsertResultRefused(r)
           \/ Crash(r)
  BY <1>0, <1>3, <1>b, MovesTo DEF Begin, ResumeRefused, TransitionRefused, InsertInvocationRefused,
     FailInvocationRefused, CompleteInvocationRefused, InsertResultRefused, Crash
<1>4. CASE Resume(r)
  <2>1. CASE EndRun(r) \/ (\E t : ToTransition(r, t)) \/ GoTo(r, "derive") \/ ToKey(r, "compare", "b")
    BY <1>0, <1>b, <2>1, MovesTo
  <2>2. CASE \/ state = "reviewer_a" /\ ToKey(r, "record", "a")
             \/ state = "reviewer_b" /\ ToKey(r, "record", "b")
             \/ state = "cross_review" /\ ToKey(r, "record", "cross_a")
             \/ state = "reviewer_c_independent" /\ ToKey(r, "record", "c")
             \/ state = "reviewer_c_judging" /\ ToKey(r, "record", "judge")
    <3>1. /\ pc'[r] = "record"
          /\ state \notin Before(key'[r])
      BY <1>0, <2>2, MovesTo DEF Before, BeforeB, BeforeCross, BeforeC, BeforeJudge
    <3>2. state' = state
      BY <1>4 DEF Resume, ledgerVars
    <3>. QED
      BY <3>1, <3>2 DEF Comes
  <2>. QED
    BY <1>4, <2>1, <2>2 DEF Resume
<1>5. CASE RecordInvocation(r)
  <2>1. pc[r] \in Invoking
    BY <1>5, <1>a DEF RecordInvocation
  <2>. QED
    BY <1>0, <1>1, <1>5, <1>b, <2>1, MovesTo DEF RecordInvocation, Comes
<1>6. CASE InsertInvocation(r) \/ RecordAttempts(r) \/ RecordAttemptsRefused(r) \/ FailInvocation(r)
  <2>1. pc[r] \in Invoking
    BY <1>6, <1>a DEF InsertInvocation, RecordAttempts, RecordAttemptsRefused, FailInvocation
  <2>. QED
    BY <1>0, <1>6, <1>b, <2>1, MovesTo DEF InsertInvocation, RecordAttempts, RecordAttemptsRefused,
       FailInvocation, Comes
<1>7. CASE Review(r)
  <2>1. pc[r] \in Invoking /\ key' = key /\ pc'[r] \in {"fail", "attempts"}
    BY <1>0, <1>7, <1>a DEF Review, RunnerTypes
  <2>. QED
    BY <2>1 DEF Comes
<1>8. CASE CompleteInvocation(r)
  <2>1. pc[r] \in Invoking
    BY <1>8, <1>a DEF CompleteInvocation
  <2>. QED
    BY <1>1, <1>8, <2>1 DEF CompleteInvocation, Comes
<1>9. CASE RecordComparison(r)
  BY <1>0, <1>2, <1>9, <1>b, MovesTo DEF RecordComparison
<1>10. CASE AppendComparison(r)
  BY <1>2, <1>10 DEF AppendComparison
<1>11. CASE Derive(r)
  <2>1. pc'[r] \in {"adjudicate", "idle"}
    BY <1>0, <1>11, MovesTo DEF Derive, RunnerTypes
  <2>. QED
    BY <1>b, <2>1
<1>12. CASE Adjudicate(r)
  <2>1. pc'[r] \in {"build", "transition"}
    BY <1>0, <1>12, MovesTo DEF Adjudicate, RunnerTypes
  <2>. QED
    BY <1>b, <2>1
<1>13. CASE Build(r)
  <2>1. pc'[r] \in {"result", "transition", "idle"}
    BY <1>0, <1>13, MovesTo DEF Build, RunnerTypes
  <2>. QED
    BY <1>b, <2>1
<1>14. CASE RecordResult(r) \/ InsertResult(r)
  BY <1>0, <1>14, <1>b, MovesTo DEF RecordResult, InsertResult
<1>15. CASE Transition(r)
  <2>1. pc'[r] \in {"idle", "build", "result", "load"}
    BY <1>0, <1>15, MovesTo DEF Transition, AfterTransition, RunnerTypes
  <2>. QED
    BY <1>b, <2>1
<1>. QED
  BY <1>3, <1>4, <1>5, <1>6, <1>7, <1>8, <1>9, <1>10, <1>11, <1>12, <1>13, <1>14, <1>15
     DEF Quiet, Writes

-----------------------------------------------------------------------------
(* Nobody is ahead of the session *)

\* The state and the trace change together, by a legal transition to a state
\* that run() moves to or by a recovery.
LEMMA StateMoves ==
    ASSUME IInv, [Next]_vars
    PROVE  \/ UNCHANGED <<state, trace>>
           \/ /\ ValidTransition(state, state') /\ state' \in Targets /\ Knows(state')
              /\ trace' = Append(trace, state')
           \/ /\ ValidRecovery(state, state') /\ trace' = Append(trace, state')
<1>1. ASSUME NEW r \in Runners, Transition(r)
      PROVE  /\ ValidTransition(state, state') /\ state' \in Targets /\ Knows(state')
             /\ trace' = Append(trace, state')
  <2>1. target[r] \in Targets /\ Knows(target[r])
    BY <1>1 DEF Transition, IInv, RunnersOK, RunnerOK
  <2>. QED
    BY <1>1, <2>1 DEF Transition
<1>2. ASSUME NEW r \in Runners, Quiet(r) \/ Writes(r), ~Transition(r)
      PROVE  UNCHANGED <<state, trace>>
  BY <1>2, QuietFrame DEF ledgerVars, Writes, InsertInvocation, RecordAttempts,
     FailInvocation, CompleteInvocation, AppendComparison, Derive, InsertResult
<1>3. CASE RecoverCrossReview
  BY <1>3 DEF RecoverCrossReview, ValidRecovery
<1>4. CASE UNCHANGED vars
  BY <1>4 DEF vars, ledgerVars
<1>. QED
  BY <1>1, <1>2, <1>3, <1>4, NextCases

\* A transition into the states before an invocation comes from there, apart
\* from the first.
LEMMA ComesFromBefore ==
    ASSUME NEW u, NEW s, s # "snapshotted", s # "cancelled", ValidTransition(u, s)
    PROVE  /\ s \in BeforeB => u \in BeforeB
           /\ s \in BeforeCross => u \in BeforeCross
           /\ s \in BeforeC => u \in BeforeC
           /\ s \in BeforeJudge => u \in BeforeJudge
<1>0. <<u, s>> \in NormalTransitions \/ <<u, s>> \in FailureTransitions
  BY DEF ValidTransition
<1>1. s \in BeforeB => u \in BeforeB
  BY <1>0 DEF NormalTransitions, FailureTransitions, BeforeB
<1>2. s \in {"reviewer_b", "reviewer_b_failed", "comparing"} => u \in BeforeCross
  BY <1>0 DEF NormalTransitions, FailureTransitions, BeforeB, BeforeCross
<1>3. s \in {"cross_review", "cross_review_failed"} => u \in BeforeC
  BY <1>0 DEF NormalTransitions, FailureTransitions, BeforeB, BeforeCross, BeforeC
<1>4. s = "reviewer_c_independent" => u \in BeforeC
  BY <1>0 DEF NormalTransitions, FailureTransitions, BeforeB, BeforeCross, BeforeC
<1>5. s \in BeforeCross => u \in BeforeCross
  BY <1>1, <1>2 DEF BeforeCross
<1>6. s \in BeforeC => u \in BeforeC
  BY <1>3, <1>5 DEF BeforeC
<1>7. s \in BeforeJudge => u \in BeforeJudge
  BY <1>4, <1>6 DEF BeforeJudge
<1>. QED
  BY <1>1, <1>5, <1>6, <1>7

\* A session never falls back behind an invocation it has reached.
LEMMA NeverBehind ==
    ASSUME IInv, [Next]_vars, NEW k, state \notin Before(k)
    PROVE  state' \notin Before(k)
<1>1. CASE state' = state
  BY <1>1
<1>2. CASE ValidTransition(state, state') /\ state' \in Targets
  <2>1. state' # "snapshotted" /\ state' # "cancelled"
    BY <1>2 DEF Targets, FinishingStates, ResolvedStates, FailedStates
  <2>. QED
    BY <1>2, <2>1, ComesFromBefore DEF Before
<1>3. CASE ValidRecovery(state, state')
  BY <1>3 DEF ValidRecovery, Before, BeforeB, BeforeCross, BeforeC, BeforeJudge
<1>. QED
  BY <1>1, <1>2, <1>3, StateMoves

\* Only the runner at an invocation inserts it.
LEMMA Inserted ==
    ASSUME IInv, [Next]_vars, NEW k \in Keys, Exists(k)', ~Exists(k)
    PROVE  \E r \in Runners : pc[r] \in Invoking /\ key[r] = k
<1>0. LedgerTypes /\ RunnersOK
  BY TypeParts DEF IInv
<1>1. ASSUME NEW r \in Runners, InsertInvocation(r) \/ FailInvocation(r) \/ CompleteInvocation(r)
      PROVE  pc[r] \in Invoking /\ key[r] = k
  <2>1. pc[r] \in Invoking
    BY <1>1 DEF InsertInvocation, FailInvocation, CompleteInvocation, Invoking
  <2>2. status'[k] # status[k]
    BY DEF Exists
  <2>. QED
    BY <1>0, <1>1, <2>1, <2>2 DEF InsertInvocation, FailInvocation, CompleteInvocation, LedgerTypes
<1>2. ASSUME NEW r \in Runners, Quiet(r) \/ Writes(r),
             ~(InsertInvocation(r) \/ FailInvocation(r) \/ CompleteInvocation(r))
      PROVE  FALSE
  <2>1. status' = status
    BY <1>2, QuietFrame DEF ledgerVars, Writes, Transition, RecordAttempts, AppendComparison,
       Derive, InsertResult
  <2>. QED
    BY <2>1 DEF Exists
<1>3. CASE RecoverCrossReview
  BY <1>3 DEF RecoverCrossReview, FailedCrossReviews, Exists
<1>4. CASE UNCHANGED vars
  BY <1>4 DEF vars, ledgerVars, Exists
<1>. QED
  BY <1>1, <1>2, <1>3, <1>4, NextCases

\* Nobody gets ahead of the session: a runner goes to an invocation from the
\* state that asks for it, and the session only moves on.
LEMMA PlacedStep == IInv /\ Placed /\ [Next]_vars => Placed'
<1> SUFFICES ASSUME IInv, Placed, [Next]_vars PROVE Placed'
  OBVIOUS
<1>1. ASSUME NEW k \in Keys, Exists(k)'
      PROVE  state' \notin Before(k)
  <2>1. state \notin Before(k)
    BY <1>1, Inserted DEF Placed
  <2>. QED
    BY <2>1, NeverBehind
<1>2. ASSUME NEW q \in Runners, pc'[q] \in Invoking
      PROVE  state' \notin Before(key'[q])
  <2>1. ASSUME pc[q] \in Invoking, key'[q] = key[q]
        PROVE  state' \notin Before(key'[q])
    BY <2>1, NeverBehind DEF Placed
  <2>2. ASSUME pc[q] \in Invoking, key[q] = "cross_a", key'[q] = "cross_b"
        PROVE  state' \notin Before(key'[q])
    <3>1. state \notin Before("cross_b")
      BY <2>2 DEF Placed, Before
    <3>. QED
      BY <2>2, <3>1, NeverBehind
  <2>3. ASSUME Comes(q) PROVE state' \notin Before(key'[q])
    BY <2>1, <2>2, <2>3 DEF Comes
  <2>4. ASSUME NEW r \in Runners, Quiet(r) \/ Writes(r)
        PROVE  Comes(q)
    <3>1. CASE q = r
      BY <1>2, <2>4, <3>1, OwnStep
    <3>2. CASE q # r
      BY <1>2, <2>4, <3>2, OthersKeep DEF LocalsKept, Comes
    <3>. QED
      BY <3>1, <3>2
  <2>5. CASE RecoverCrossReview \/ UNCHANGED vars
    BY <1>2, <2>1, <2>5 DEF RecoverCrossReview, vars, runnerVars
  <2>. QED
    BY <2>3, <2>4, <2>5, NextCases
<1>. QED
  BY <1>1, <1>2 DEF Placed, Exists

-----------------------------------------------------------------------------
(* The audited transitions *)

\* What the loop keeps is a sequence of states.
LEMMA KeptIsSeq ==
    ASSUME NEW S, NEW s \in Seq(S), NEW n \in 0 .. Len(s)
    PROVE  KeptStates(s)[n] \in Seq(S)
<1>1. PICK f : f = KeptStates(s) /\ Computes(s, f, Len(s))
  BY KeptComputes
<1> DEFINE Other == {i \in Nat : i <= Len(s) /\ f[i] \notin Seq(S)}
<1> SUFFICES ASSUME Other # {} PROVE FALSE
  BY <1>1
<1>2. PICK i \in Other : \A j \in Other : i <= j
  BY LeastOf
<1>3. i \in 0 .. Len(s)
  BY <1>2
<1>4. f[i] = Iteration(s, f, i)
  BY <1>1, <1>3 DEF Computes
<1>5. i # 0
  <2>1. << >> \in Seq(S) /\ f[i] \notin Seq(S)
    BY <1>2
  <2>. QED
    BY <1>4, <2>1 DEF Iteration
<1>6. f[i - 1] \in Seq(S) /\ s[i] \in S
  BY <1>2, <1>5
<1>7. i > 1 => f[i - 2] \in Seq(S)
  BY <1>2
<1>8. Append(f[i - 1], s[i]) \in Seq(S)
  BY <1>6
<1>9. f[i] \in Seq(S)
  BY <1>3, <1>4, <1>5, <1>7, <1>8 DEF Iteration
<1>. QED
  BY <1>2, <1>9

\* The decision trace goes on with every transition; a recovery takes the
\* failure before it back.
LEMMA DecisionStep ==
    ASSUME IInv, Audited, [Next]_vars
    PROVE  \/ UNCHANGED <<state, trace, DecisionTrace>>
           \/ /\ ValidTransition(state, state') /\ state' \in Targets /\ Knows(state')
              /\ DecisionTrace' = Append(DecisionTrace, state')
           \/ /\ ValidRecovery(state, state')
              /\ DecisionTrace' \in Seq(ReviewStateSet)
              /\ DecisionTrace = Append(DecisionTrace', state)
<1>0. /\ trace \in Seq(ReviewStateSet) /\ trace' \in Seq(ReviewStateSet)
      /\ state \in ReviewStateSet /\ state' \in ReviewStateSet
  BY TypeParts, TypeStep DEF IInv, LedgerTypes, TypeOK
<1>1. CASE UNCHANGED <<state, trace>>
  BY <1>1 DEF DecisionTrace
<1>2. Len(trace) \in Nat /\ Len(trace) > 1 /\ trace # << >> /\ trace[Len(trace)] = state
  BY <1>0 DEF Audited
<1>3. CASE /\ ValidTransition(state, state') /\ state' \in Targets /\ Knows(state')
           /\ trace' = Append(trace, state')
  <2>1. ~ValidRecovery(state, state')
    BY <1>3 DEF ValidTransition, ValidRecovery, TerminalStates
  <2>2. Len(trace') = Len(trace) + 1
    BY <1>0, <1>3
  <2>3. KeptStates(trace')[Len(trace')] = Append(KeptStates(trace)[Len(trace)], state')
    BY <1>0, <1>2, <1>3, <2>1, <2>2, KeptAppend
  <2>. QED
    BY <1>3, <2>3 DEF DecisionTrace
<1>4. CASE ValidRecovery(state, state') /\ trace' = Append(trace, state')
  <2>1. ~ValidRecovery(trace[Len(trace) - 1], trace[Len(trace)])
    BY <1>2, <1>4 DEF ValidRecovery
  <2>2. Len(trace') = Len(trace) + 1 /\ Len(trace) - 1 \in 0 .. Len(trace)
    BY <1>0, <1>2, <1>4
  <2>3. KeptStates(trace')[Len(trace')] = KeptStates(trace)[Len(trace) - 1]
    BY <1>0, <1>2, <1>4, <2>2, KeptAppend
  <2>4. KeptStates(trace)[Len(trace)] = Append(KeptStates(trace)[Len(trace) - 1], state)
    BY <1>0, <1>2, <2>1, KeptLast
  <2>5. KeptStates(trace)[Len(trace) - 1] \in Seq(ReviewStateSet)
    BY <1>0, <2>2, KeptIsSeq
  <2>. QED
    BY <1>4, <2>3, <2>4, <2>5 DEF DecisionTrace
<1>. QED
  BY <1>1, <1>3, <1>4, StateMoves

\* Every state change is audited, by the state machine's rules.
LEMMA AuditedStep == IInv /\ Audited /\ [Next]_vars => Audited'
<1> SUFFICES ASSUME IInv, Audited, [Next]_vars PROVE Audited'
  OBVIOUS
<1>1. CASE UNCHANGED <<state, trace>>
  BY <1>1 DEF Audited, TraceIsLegal
<1>2. ASSUME trace' = Append(trace, state'),
             ValidTransition(state, state') \/ ValidRecovery(state, state')
      PROVE  Audited'
  <2>0. trace \in Seq(ReviewStateSet) /\ Len(trace) \in Nat
    BY TypeParts DEF IInv, LedgerTypes
  <2>1. Len(trace') = Len(trace) + 1 /\ trace'[Len(trace')] = state'
    BY <1>2, <2>0
  <2>2. \A i \in 1 .. Len(trace) : trace'[i] = trace[i]
    BY <1>2, <2>0
  <2>3. ASSUME NEW i \in 1 .. Len(trace') - 1
        PROVE  ValidTransition(trace'[i], trace'[i + 1]) \/ ValidRecovery(trace'[i], trace'[i + 1])
    <3>1. CASE i = Len(trace)
      <4>1. trace'[i] = state /\ trace'[i + 1] = state'
        BY <2>0, <2>1, <2>2, <3>1 DEF Audited
      <4>. QED
        BY <1>2, <4>1
    <3>2. CASE i # Len(trace)
      <4>1. i \in 1 .. Len(trace) - 1 /\ trace'[i] = trace[i] /\ trace'[i + 1] = trace[i + 1]
        BY <2>0, <2>1, <2>2, <3>2
      <4>. QED
        BY <4>1 DEF Audited, TraceIsLegal
    <3>. QED
      BY <3>1, <3>2
  <2>. QED
    BY <2>0, <2>1, <2>3 DEF Audited, TraceIsLegal
<1>. QED
  BY <1>1, <1>2, StateMoves

-----------------------------------------------------------------------------
(* The decision trace *)

\* The way to the judgment, as a sequence.
LEMMA WayIsSeq ==
    ASSUME NEW n \in 0 .. 10
    PROVE  Way(n) \in Seq(ReviewStateSet) /\ Len(Way(n)) = n
<1>1. \A i \in 1 .. 10 : Spine[i] \in ReviewStateSet
  BY DEF Spine, ReviewStateSet, WorkflowStates
<1>2. \A i \in 1 .. n : Spine[i] \in ReviewStateSet
  BY <1>1
<1>. QED
  BY <1>2 DEF Way

\* It goes on one state at a time.
LEMMA WayOn ==
    ASSUME NEW n \in 0 .. 9
    PROVE  Append(Way(n), Spine[n + 1]) = Way(n + 1)
<1>1. /\ Way(n) \in Seq(ReviewStateSet) /\ Len(Way(n)) = n
      /\ Way(n + 1) \in Seq(ReviewStateSet) /\ Len(Way(n + 1)) = n + 1
  <2>1. n \in 0 .. 10 /\ n + 1 \in 0 .. 10
    OBVIOUS
  <2>. QED
    BY <2>1, WayIsSeq
<1>2. Spine[n + 1] \in ReviewStateSet
  BY DEF Spine, ReviewStateSet, WorkflowStates
<1>3. \A i \in 1 .. n + 1 : Append(Way(n), Spine[n + 1])[i] = Way(n + 1)[i]
  BY <1>1, <1>2 DEF Way
<1>. QED
  BY <1>1, <1>2, <1>3

\* Two sequences that go on with the same state are the same.
LEMMA AppendInjective ==
    ASSUME NEW S, NEW s \in Seq(S), NEW t \in Seq(S), NEW x \in S, Append(s, x) = Append(t, x)
    PROVE  s = t
<1>1. Len(s) = Len(t)
  OBVIOUS
<1>. QED
  OBVIOUS

\* A concatenation is the sequence that has the elements of both, in order.
LEMMA ConcatIs ==
    ASSUME NEW S, NEW s \in Seq(S), NEW t \in Seq(S), NEW u \in Seq(S),
           Len(u) = Len(s) + Len(t), \A i \in 1 .. Len(s) : u[i] = s[i],
           \A i \in 1 .. Len(t) : u[Len(s) + i] = t[i]
    PROVE  s \o t = u
<1>1. s \o t \in Seq(S) /\ Len(s \o t) = Len(s) + Len(t)
  OBVIOUS
<1>2. ASSUME NEW i \in 1 .. Len(u) PROVE (s \o t)[i] = u[i]
  <2>1. CASE i <= Len(s)
    BY <2>1
  <2>2. CASE i > Len(s)
    <3>1. i - Len(s) \in 1 .. Len(t) /\ Len(s) + (i - Len(s)) = i
      BY <2>2
    <3>2. (s \o t)[i] = t[i - Len(s)]
      BY <2>2
    <3>. QED
      BY <3>1, <3>2
  <2>. QED
    BY <2>1, <2>2
<1>. QED
  BY <1>1, <1>2

\* One more element.
LEMMA ConcatOne ==
    ASSUME NEW S, NEW s \in Seq(S), NEW x \in S
    PROVE  s \o <<x>> = Append(s, x)
  OBVIOUS

\* What the verifier expects of each path.
LEMMA ExpectedWays ==
    /\ ExpectedPrefix("a_only") = Append(Way(5), "reviewer_adjudication")
    /\ ExpectedPrefix("ab_agreement") = Append(Way(7), "reviewer_adjudication")
    /\ ExpectedPrefix("cross_review_resolved") = Append(Way(8), "reviewer_adjudication")
    /\ ExpectedPrefix("c_tie_broken") = Append(Way(10), "reviewer_adjudication")
<1> DEFINE h == <<"requested", "validated", "snapshotted", "reviewer_a", "baseline_recorded">>
           x == "reviewer_adjudication"
<1>1. /\ h \in Seq(ReviewStateSet) /\ Len(h) = 5 /\ x \in ReviewStateSet
      /\ \A i \in 1 .. 5 : h[i] = Spine[i]
  BY DEF Spine, ReviewStateSet, WorkflowStates
<1>2. ASSUME NEW t \in Seq(ReviewStateSet), NEW n \in 0 .. 10, n = 5 + Len(t),
             \A i \in 1 .. Len(t) : t[i] = Spine[5 + i]
      PROVE  h \o t \o <<x>> = Append(Way(n), x)
  <2> HIDE DEF h, x
  <2>1. Way(n) \in Seq(ReviewStateSet) /\ Len(Way(n)) = n
    BY WayIsSeq
  <2>2. Len(Way(n)) = Len(h) + Len(t)
    BY <1>1, <1>2, <2>1
  <2>3. \A i \in 1 .. Len(h) : Way(n)[i] = h[i]
    <3>1. n >= 5
      BY <1>2
    <3>. QED
      BY <1>1, <3>1 DEF Way
  <2>4. \A i \in 1 .. Len(t) : Way(n)[Len(h) + i] = t[i]
    BY <1>1, <1>2 DEF Way
  <2>5. h \o t = Way(n)
    BY <1>1, <2>1, <2>2, <2>3, <2>4, ConcatIs
  <2>. QED
    BY <1>1, <2>1, <2>5, ConcatOne
<1>3. /\ << >> \in Seq(ReviewStateSet)
      /\ <<"reviewer_b", "comparing">> \in Seq(ReviewStateSet)
      /\ <<"reviewer_b", "comparing", "cross_review">> \in Seq(ReviewStateSet)
      /\ <<"reviewer_b", "comparing", "cross_review",
           "reviewer_c_independent", "reviewer_c_judging">> \in Seq(ReviewStateSet)
  BY DEF ReviewStateSet, WorkflowStates
<1>4. ExpectedPrefix("a_only") = Append(Way(5), x)
  <2>1. h \o << >> \o <<x>> = Append(Way(5), x)
    <3> HIDE DEF h, x
    <3>1. PICK n \in 0 .. 10 : n = 5
      OBVIOUS
    <3>2. PICK t \in Seq(ReviewStateSet) : t = << >>
      BY <1>3
    <3>3. n = 5 + Len(t) /\ \A i \in 1 .. Len(t) : t[i] = Spine[5 + i]
      BY <3>1, <3>2
    <3>. QED
      BY <1>2, <3>1, <3>2, <3>3
  <2>. QED
    BY <2>1 DEF ExpectedPrefix
<1>5. ExpectedPrefix("ab_agreement") = Append(Way(7), x)
  <2> DEFINE t == <<"reviewer_b", "comparing">>
  <2>1. t \in Seq(ReviewStateSet) /\ Len(t) = 2 /\ \A i \in 1 .. 2 : t[i] = Spine[5 + i]
    BY <1>3 DEF Spine
  <2>2. h \o t \o <<x>> = Append(Way(7), x)
    <3> HIDE DEF h, t, x
    <3>1. PICK n \in 0 .. 10 : n = 7
      OBVIOUS
    <3>2. n = 5 + Len(t) /\ \A i \in 1 .. Len(t) : t[i] = Spine[5 + i]
      BY <2>1, <3>1
    <3>. QED
      BY <1>2, <2>1, <3>1, <3>2
  <2>. QED
    BY <2>2 DEF ExpectedPrefix
<1>6. ExpectedPrefix("cross_review_resolved") = Append(Way(8), x)
  <2> DEFINE t == <<"reviewer_b", "comparing", "cross_review">>
  <2>1. t \in Seq(ReviewStateSet) /\ Len(t) = 3 /\ \A i \in 1 .. 3 : t[i] = Spine[5 + i]
    BY <1>3 DEF Spine
  <2>2. h \o t \o <<x>> = Append(Way(8), x)
    <3> HIDE DEF h, t, x
    <3>1. PICK n \in 0 .. 10 : n = 8
      OBVIOUS
    <3>2. n = 5 + Len(t) /\ \A i \in 1 .. Len(t) : t[i] = Spine[5 + i]
      BY <2>1, <3>1
    <3>. QED
      BY <1>2, <2>1, <3>1, <3>2
  <2>. QED
    BY <2>2 DEF ExpectedPrefix
<1>7. ExpectedPrefix("c_tie_broken") = Append(Way(10), x)
  <2> DEFINE t == <<"reviewer_b", "comparing", "cross_review",
                    "reviewer_c_independent", "reviewer_c_judging">>
  <2>1. t \in Seq(ReviewStateSet) /\ Len(t) = 5 /\ \A i \in 1 .. 5 : t[i] = Spine[5 + i]
    BY <1>3 DEF Spine
  <2>2. h \o t \o <<x>> = Append(Way(10), x)
    <3> HIDE DEF h, t, x
    <3>1. PICK n \in 0 .. 10 : n = 10
      OBVIOUS
    <3>2. n = 5 + Len(t) /\ \A i \in 1 .. Len(t) : t[i] = Spine[5 + i]
      BY <2>1, <3>1
    <3>. QED
      BY <1>2, <2>1, <3>1, <3>2
  <2>. QED
    BY <2>2 DEF ExpectedPrefix
<1>. QED
  BY <1>4, <1>5, <1>6, <1>7

\* Which transition leads to each state that run() moves a session to.
LEMMA ComesFrom ==
    ASSUME NEW u, NEW s, s \in Targets, ValidTransition(u, s)
    PROVE  /\ s = "reviewer_a" => u = "snapshotted"
           /\ s = "baseline_recorded" => u = "reviewer_a"
           /\ s = "reviewer_b" => u = "baseline_recorded"
           /\ s = "comparing" => u = "reviewer_b"
           /\ s = "cross_review" => u = "comparing"
           /\ s = "reviewer_c_independent" => u = "cross_review"
           /\ s = "reviewer_c_judging" => u = "reviewer_c_independent"
           /\ s = "cross_review_failed" => u = "cross_review"
           /\ s = "reviewer_adjudication" =>
                u \in {"baseline_recorded", "comparing", "cross_review", "reviewer_c_judging"}
           /\ s \in ResolvedStates => u = "reviewer_adjudication"
           /\ s = "result_returned" => u \in ResolvedStates
<1>1. s # "cancelled"
  BY DEF Targets, FinishingStates, ResolvedStates, FailedStates
<1>2. <<u, s>> \in NormalTransitions \/ <<u, s>> \in FailureTransitions
  BY <1>1 DEF ValidTransition
<1>. QED
  BY <1>2 DEF NormalTransitions, FailureTransitions, ResolvedStates

\* The way, step by step.
LEMMA WaySteps ==
    /\ Append(Way(3), "reviewer_a") = Way(4)
    /\ Append(Way(4), "baseline_recorded") = Way(5)
    /\ Append(Way(5), "reviewer_b") = Way(6)
    /\ Append(Way(6), "comparing") = Way(7)
    /\ Append(Way(7), "cross_review") = Way(8)
    /\ Append(Way(8), "reviewer_c_independent") = Way(9)
    /\ Append(Way(9), "reviewer_c_judging") = Way(10)
<1>1. \A n, m \in 0 .. 10 : m = n + 1 => Append(Way(n), Spine[m]) = Way(m)
  <2> SUFFICES ASSUME NEW n \in 0 .. 10, NEW m \in 0 .. 10, m = n + 1
               PROVE  Append(Way(n), Spine[m]) = Way(m)
    OBVIOUS
  <2>1. n \in 0 .. 9
    OBVIOUS
  <2>. QED
    BY <2>1, WayOn
<1>2. /\ Spine[4] = "reviewer_a" /\ Spine[5] = "baseline_recorded" /\ Spine[6] = "reviewer_b"
      /\ Spine[7] = "comparing" /\ Spine[8] = "cross_review"
      /\ Spine[9] = "reviewer_c_independent" /\ Spine[10] = "reviewer_c_judging"
  BY DEF Spine
<1>3. Append(Way(3), "reviewer_a") = Way(4)
  <2>1. PICK n, m \in 0 .. 10 : n = 3 /\ m = 4
    OBVIOUS
  <2>2. Append(Way(n), Spine[m]) = Way(m)
    BY <1>1, <2>1
  <2>. QED
    BY <1>2, <2>1, <2>2
<1>4. Append(Way(4), "baseline_recorded") = Way(5)
  <2>1. PICK n, m \in 0 .. 10 : n = 4 /\ m = 5
    OBVIOUS
  <2>2. Append(Way(n), Spine[m]) = Way(m)
    BY <1>1, <2>1
  <2>. QED
    BY <1>2, <2>1, <2>2
<1>5. Append(Way(5), "reviewer_b") = Way(6)
  <2>1. PICK n, m \in 0 .. 10 : n = 5 /\ m = 6
    OBVIOUS
  <2>2. Append(Way(n), Spine[m]) = Way(m)
    BY <1>1, <2>1
  <2>. QED
    BY <1>2, <2>1, <2>2
<1>6. Append(Way(6), "comparing") = Way(7)
  <2>1. PICK n, m \in 0 .. 10 : n = 6 /\ m = 7
    OBVIOUS
  <2>2. Append(Way(n), Spine[m]) = Way(m)
    BY <1>1, <2>1
  <2>. QED
    BY <1>2, <2>1, <2>2
<1>7. Append(Way(7), "cross_review") = Way(8)
  <2>1. PICK n, m \in 0 .. 10 : n = 7 /\ m = 8
    OBVIOUS
  <2>2. Append(Way(n), Spine[m]) = Way(m)
    BY <1>1, <2>1
  <2>. QED
    BY <1>2, <2>1, <2>2
<1>8. Append(Way(8), "reviewer_c_independent") = Way(9)
  <2>1. PICK n, m \in 0 .. 10 : n = 8 /\ m = 9
    OBVIOUS
  <2>2. Append(Way(n), Spine[m]) = Way(m)
    BY <1>1, <2>1
  <2>. QED
    BY <1>2, <2>1, <2>2
<1>9. Append(Way(9), "reviewer_c_judging") = Way(10)
  <2>1. PICK n, m \in 0 .. 10 : n = 9 /\ m = 10
    OBVIOUS
  <2>2. Append(Way(n), Spine[m]) = Way(m)
    BY <1>1, <2>1
  <2>. QED
    BY <1>2, <2>1, <2>2
<1>. QED
  BY <1>3, <1>4, <1>5, <1>6, <1>7, <1>8, <1>9

\* Adjudication is reached with the path its source state stands for.
LEMMA PathBefore ==
    ASSUME IInv, Placed, Decided
    PROVE  /\ state = "baseline_recorded" => DerivedPath = "a_only"
           /\ state = "comparing" => DerivedPath = "ab_agreement"
           /\ state = "cross_review" => DerivedPath = "cross_review_resolved"
           /\ state = "reviewer_c_judging" => DerivedPath = "c_tie_broken"
<1>0. Knows(state) /\ {"a", "b", "cross_a", "cross_b", "c", "judge"} = Keys
  BY DEF IInv, StateOK, Keys
<1>1. state = "baseline_recorded" => DerivedPath = "a_only"
  BY <1>0 DEF Placed, Before, BeforeB, DerivedPath
<1>2. ASSUME state = "comparing" PROVE DerivedPath = "ab_agreement"
  <2>1. Exists("b")
    BY <1>0, <1>2 DEF Knows, Completed, Exists
  <2>2. ~Exists("cross_a") /\ ~Exists("cross_b")
    BY <1>0, <1>2 DEF Placed, Before, BeforeB, BeforeCross
  <2>. QED
    BY <2>1, <2>2 DEF DerivedPath
<1>3. ASSUME state = "cross_review" PROVE DerivedPath = "cross_review_resolved"
  <2>1. Completed("b") /\ Completed("cross_a")
    BY <1>0, <1>3 DEF Knows, Ready, CalledFor, Decided
  <2>2. ~Exists("judge")
    BY <1>0, <1>3 DEF Placed, Before, BeforeB, BeforeCross, BeforeC, BeforeJudge
  <2>. QED
    BY <2>1, <2>2 DEF DerivedPath, Completed, Exists
<1>4. ASSUME state = "reviewer_c_judging" PROVE DerivedPath = "c_tie_broken"
  <2>1. Completed("b") /\ Completed("cross_a") /\ Completed("judge")
    BY <1>0, <1>4 DEF Knows, Ready, CalledFor, Decided
  <2>. QED
    BY <2>1 DEF DerivedPath, Completed, Exists
<1>. QED
  BY <1>1, <1>2, <1>3, <1>4

\* Every transition takes the decision trace one state further on the way, and
\* into adjudication by the path the invocations show.
LEMMA TracedStep == IInv /\ Placed /\ Audited /\ Traced /\ [Next]_vars => Traced'
<1> SUFFICES ASSUME IInv, Placed, Audited, Traced, [Next]_vars PROVE Traced'
  OBVIOUS
<1>0. Grows /\ Knows(state)
  BY GrowsStep DEF IInv, StateOK
<1>f. state \in FinishingStates \cup {"result_returned"} => Decided
  BY <1>0 DEF Knows, Finished
<1>s. Decided => DerivedPath' = DerivedPath /\ TheStatus' = TheStatus
  BY <1>0, Stable
<1>d. /\ DOMAIN Depth = {"snapshotted", "reviewer_a", "baseline_recorded", "reviewer_b", "comparing",
                         "cross_review", "reviewer_c_independent", "reviewer_c_judging"}
      /\ Depth["snapshotted"] = 3 /\ Depth["reviewer_a"] = 4 /\ Depth["baseline_recorded"] = 5
      /\ Depth["reviewer_b"] = 6 /\ Depth["comparing"] = 7 /\ Depth["cross_review"] = 8
      /\ Depth["reviewer_c_independent"] = 9 /\ Depth["reviewer_c_judging"] = 10
  BY DEF Depth
<1>1. CASE UNCHANGED <<state, trace, DecisionTrace>>
  <2>1. state' = state /\ DecisionTrace' = DecisionTrace
    BY <1>1
  <2>. QED
    BY <1>f, <1>s, <2>1 DEF Traced, FinishingStates
<1>2. CASE /\ ValidTransition(state, state') /\ state' \in Targets /\ Knows(state')
           /\ DecisionTrace' = Append(DecisionTrace, state')
  <2>0. state' # "snapshotted"
    BY <1>2 DEF Targets, FinishingStates, ResolvedStates, FailedStates
  <2>1. ASSUME state' \in DOMAIN Depth PROVE DecisionTrace' = Way(Depth[state'])
    <3>1. /\ state \in DOMAIN Depth
          /\ Append(Way(Depth[state]), state') = Way(Depth[state'])
      <4>1. CASE state' \in {"reviewer_a", "baseline_recorded", "reviewer_b", "comparing"}
        BY <1>2, <1>d, <4>1, ComesFrom, WaySteps
      <4>2. CASE state' \in {"cross_review", "reviewer_c_independent", "reviewer_c_judging"}
        BY <1>2, <1>d, <4>2, ComesFrom, WaySteps
      <4>. QED
        BY <1>d, <2>0, <2>1, <4>1, <4>2
    <3>2. DecisionTrace = Way(Depth[state])
      BY <3>1 DEF Traced
    <3>. QED
      BY <1>2, <3>1, <3>2
  <2>2. ASSUME state' = "cross_review_failed"
        PROVE  DecisionTrace' = Append(Way(8), "cross_review_failed")
    BY <1>2, <1>d, <2>2, ComesFrom DEF Traced
  <2>3. ASSUME state' = "reviewer_adjudication"
        PROVE  DecisionTrace' = ExpectedPrefix(DerivedPath')
    <3>1. Decided
      BY <1>2, <2>3 DEF Knows, Finished, FinishingStates
    <3>2. state \in {"baseline_recorded", "comparing", "cross_review", "reviewer_c_judging"}
      BY <1>2, <2>3, ComesFrom
    <3>3. DecisionTrace' = ExpectedPrefix(DerivedPath)
      BY <1>2, <1>d, <2>3, <3>1, <3>2, PathBefore, ExpectedWays DEF Traced
    <3>. QED
      BY <1>s, <3>1, <3>3
  <2>4. ASSUME state' \in ResolvedStates
        PROVE  DecisionTrace' = Append(ExpectedPrefix(DerivedPath'), state')
    <3>1. state = "reviewer_adjudication"
      BY <1>2, <2>4, ComesFrom
    <3>. QED
      BY <1>2, <1>f, <1>s, <3>1 DEF Traced, FinishingStates
  <2>5. ASSUME state' = "result_returned"
        PROVE  DecisionTrace' = Append(Append(ExpectedPrefix(DerivedPath'), TheStatus'),
                                       "result_returned")
    <3>1. state \in ResolvedStates
      BY <1>2, <2>5, ComesFrom
    <3>2. state = TheStatus
      BY <1>0, <3>1 DEF Knows
    <3>. QED
      BY <1>2, <1>f, <1>s, <2>5, <3>1, <3>2 DEF Traced, FinishingStates
  <2>. QED
    BY <2>1, <2>2, <2>3, <2>4, <2>5 DEF Traced
<1>3. CASE /\ ValidRecovery(state, state')
           /\ DecisionTrace' \in Seq(ReviewStateSet)
           /\ DecisionTrace = Append(DecisionTrace', state)
  <2>1. state = "cross_review_failed" /\ state' = "cross_review"
    BY <1>3 DEF ValidRecovery
  <2>2. DecisionTrace = Append(Way(8), "cross_review_failed")
    BY <2>1 DEF Traced
  <2>3. Way(8) \in Seq(ReviewStateSet) /\ "cross_review_failed" \in ReviewStateSet
    BY WayIsSeq DEF ReviewStateSet, TerminalStates
  <2>4. DecisionTrace' = Way(8)
    BY <1>3, <2>1, <2>2, <2>3, AppendInjective
  <2>. QED
    BY <1>d, <2>1, <2>4 DEF Traced, ResolvedStates
<1>. QED
  BY <1>1, <1>2, <1>3, DecisionStep

\* The decision trace of a session whose request was just validated.
LEMMA FirstTrace ==
    ASSUME Init
    PROVE  DecisionTrace = Way(3)
<1>1. /\ trace \in Seq(ReviewStateSet) /\ Len(trace) = 3
      /\ \A n \in 1 .. 3 : trace[n] = Spine[n]
      /\ \A n \in 2 .. 3 : ~ValidRecovery(trace[n - 1], trace[n])
  BY DEF Init, Spine, ReviewStateSet, WorkflowStates, ValidRecovery
<1>2. PICK f : f = KeptStates(trace)
  OBVIOUS
<1>3. Computes(trace, f, Len(trace))
  <2>1. Len(trace) \in Nat
    BY <1>1
  <2>2. Computes(trace, KeptStates(trace), Len(trace))
    BY <2>1, KeptComputes
  <2>. QED
    BY <1>2, <2>2
<1>4. \A n \in 0 .. 3 : f[n] = Iteration(trace, f, n)
  BY <1>1, <1>3 DEF Computes
<1>5. f[0] = Way(0)
  <2>1. Way(0) = << >>
    BY DEF Way
  <2>. QED
    BY <1>4, <2>1 DEF Iteration
<1>6. ASSUME NEW n \in 0 .. 2, f[n] = Way(n) PROVE f[n + 1] = Way(n + 1)
  <2>1. PICK m \in 1 .. 3 : m = n + 1
    OBVIOUS
  <2>2. ~(m > 1 /\ ValidRecovery(trace[m - 1], trace[m])) /\ m # 0 /\ m - 1 = n
    BY <1>1, <2>1
  <2>3. f[m] = Append(f[n], Spine[m])
    <3>1. trace[m] = Spine[m] /\ f[m] = Iteration(trace, f, m)
      BY <1>1, <1>4
    <3>. QED
      BY <2>2, <3>1 DEF Iteration
  <2>4. n \in 0 .. 9
    OBVIOUS
  <2>. QED
    BY <1>6, <2>1, <2>3, <2>4, WayOn
<1>7. f[1] = Way(1)
  BY <1>5, <1>6
<1>8. f[2] = Way(2)
  BY <1>6, <1>7
<1>9. f[3] = Way(3)
  BY <1>6, <1>8
<1>. QED
  BY <1>1, <1>2, <1>9 DEF DecisionTrace

\* The initial state satisfies the inductive invariant.
LEMMA InitVInv == Init => VInv
<1> SUFFICES ASSUME Init PROVE VInv
  OBVIOUS
<1>1. IInv
  BY InitIInv
<1>2. Placed
  BY DEF Init, Placed, Exists, Invoking
<1>3. Audited
  <2>1. Len(trace) = 3 /\ trace[3] = state
    BY DEF Init
  <2>2. /\ ValidTransition("requested", "validated") /\ ValidTransition("validated", "snapshotted")
        /\ trace[1] = "requested" /\ trace[2] = "validated" /\ trace[3] = "snapshotted"
    BY DEF Init, ValidTransition, TerminalStates, NormalTransitions
  <2>3. ASSUME NEW i \in 1 .. Len(trace) - 1 PROVE ValidTransition(trace[i], trace[i + 1])
    <3>1. i = 1 \/ i = 2
      BY <2>1
    <3>. QED
      BY <2>2, <3>1
  <2>. QED
    BY <2>1, <2>3 DEF Audited, TraceIsLegal
<1>4. Traced
  <2>1. state = "snapshotted" /\ Depth["snapshotted"] = 3
    BY DEF Init, Depth
  <2>. QED
    BY <2>1, FirstTrace DEF Traced, ResolvedStates
<1>5. Compared
  BY DEF Init, Compared, Stages
<1>. QED
  BY <1>1, <1>2, <1>3, <1>4, <1>5 DEF VInv

-----------------------------------------------------------------------------
(* The comparison events *)

\* What a step does to the comparison events: nothing, or one runner appends
\* the one it stands at.
LEMMA EventsStep ==
    ASSUME IInv, [Next]_vars
    PROVE  \/ comparisons' = comparisons
           \/ \E r \in Runners :
                /\ AppendComparison(r)
                /\ key[r] \in {"b", "cross_b"} /\ Completed(key[r])
                /\ comparisons'[StageOf(key[r])] = comparisons[StageOf(key[r])] + 1
                /\ \A s \in Stages \ {StageOf(key[r])} : comparisons'[s] = comparisons[s]
<1>0. comparisons \in [Stages -> Nat]
  BY TypeParts DEF IInv, LedgerTypes
<1>1. ASSUME NEW r \in Runners, AppendComparison(r)
      PROVE  /\ key[r] \in {"b", "cross_b"} /\ Completed(key[r])
             /\ comparisons'[StageOf(key[r])] = comparisons[StageOf(key[r])] + 1
             /\ \A s \in Stages \ {StageOf(key[r])} : comparisons'[s] = comparisons[s]
  <2>1. key[r] \in {"b", "cross_b"} /\ Completed(key[r])
    BY <1>1 DEF AppendComparison, IInv, RunnersOK, RunnerOK
  <2>2. StageOf(key[r]) \in Stages
    BY DEF StageOf, Stages
  <2>. QED
    BY <1>0, <1>1, <2>1, <2>2 DEF AppendComparison
<1>2. ASSUME NEW r \in Runners, Derive(r)
      PROVE  comparisons' = comparisons
  <2>1. Finished
    BY <1>2 DEF Derive, IInv, RunnersOK, RunnerOK, Finishing
  <2>. QED
    BY <1>2, <2>1, FinishedDerives DEF Derive
<1>3. ASSUME NEW r \in Runners, Quiet(r) \/ Writes(r), ~AppendComparison(r), ~Derive(r)
      PROVE  comparisons' = comparisons
  BY <1>3, QuietFrame DEF ledgerVars, Writes, Transition, InsertInvocation, RecordAttempts,
     FailInvocation, CompleteInvocation, InsertResult
<1>4. CASE RecoverCrossReview \/ UNCHANGED vars
  BY <1>4 DEF RecoverCrossReview, vars, ledgerVars
<1>. QED
  BY <1>1, <1>2, <1>3, <1>4, NextCases

\* No comparison is recorded before its outputs.
LEMMA ComparedStep == IInv /\ Compared /\ [Next]_vars => Compared'
<1> SUFFICES ASSUME IInv, Compared, [Next]_vars PROVE Compared'
  OBVIOUS
<1>1. /\ Completed("b") => Completed("b")'
      /\ Completed("cross_b") => Completed("cross_b")'
  BY GrowsStep DEF Grows, Keys
<1>2. CASE comparisons' = comparisons
  BY <1>1, <1>2 DEF Compared
<1>3. ASSUME NEW r \in Runners, key[r] \in {"b", "cross_b"}, Completed(key[r]),
             \A s \in Stages \ {StageOf(key[r])} : comparisons'[s] = comparisons[s]
      PROVE  Compared'
  <2>1. CASE key[r] = "b"
    BY <1>1, <1>3, <2>1 DEF Compared, StageOf, Stages
  <2>2. CASE key[r] = "cross_b"
    BY <1>1, <1>3, <2>2 DEF Compared, StageOf, Stages
  <2>. QED
    BY <1>3, <2>1, <2>2
<1>. QED
  BY <1>2, <1>3, EventsStep

\* The runners about to append are still there after the step of another, or
\* have gone; only one that found no event of the stage is new.
LEMMA AppendersStep ==
    ASSUME IInv, NEW s \in Stages, NEW r \in Runners, Quiet(r) \/ Writes(r)
    PROVE  \/ Appenders(s)' \subseteq Appenders(s) \ {r}
           \/ /\ RecordComparison(r) /\ StageOf(key[r]) # s
              /\ Appenders(s)' \subseteq Appenders(s)
           \/ RecordComparison(r) /\ ~(comparisons[s] > 0)
<1>1. ASSUME NEW q \in Appenders(s)', q # r PROVE q \in Appenders(s)
  <2>1. q \in Runners /\ pc'[q] = "append" /\ StageOf(key'[q]) = s
    BY DEF Appenders
  <2>2. pc'[q] = pc[q] /\ key'[q] = key[q]
    BY <1>1, <2>1, OthersKeep DEF LocalsKept
  <2>. QED
    BY <2>1, <2>2 DEF Appenders
<1>2. CASE pc'[r] # "append"
  <2>1. r \notin Appenders(s)'
    BY <1>2 DEF Appenders
  <2>. QED
    BY <1>1, <2>1
<1>3. CASE pc'[r] = "append"
  <2>1. RecordComparison(r) /\ key'[r] = key[r] /\ ~(comparisons[StageOf(key[r])] > 0)
    BY <1>3, OwnStep
  <2>2. CASE StageOf(key[r]) = s
    BY <2>1, <2>2
  <2>3. CASE StageOf(key[r]) # s
    <3>1. r \notin Appenders(s)'
      BY <2>1, <2>3 DEF Appenders
    <3>. QED
      BY <1>1, <3>1
  <2>. QED
    BY <2>2, <2>3
<1>. QED
  BY <1>2, <1>3

\* No runner appends two events of a stage.
LEMMA EventsBoundedStep ==
    ASSUME IsFiniteSet(Runners), IInv, EventsBounded, [Next]_vars
    PROVE  EventsBounded'
<1> SUFFICES ASSUME NEW s \in Stages
             PROVE  comparisons'[s] + Cardinality(Appenders(s)') <= Cardinality(Runners)
  BY DEF EventsBounded
<1>0. /\ comparisons[s] \in Nat /\ comparisons'[s] \in Nat
      /\ comparisons[s] + Cardinality(Appenders(s)) <= Cardinality(Runners)
  BY TypeParts, TypeStep DEF IInv, LedgerTypes, TypeOK, EventsBounded
<1>1. /\ IsFiniteSet(Appenders(s)) /\ Cardinality(Appenders(s)) \in Nat
      /\ IsFiniteSet(Appenders(s)') /\ Cardinality(Appenders(s)') \in Nat
      /\ Cardinality(Appenders(s)') <= Cardinality(Runners) /\ Cardinality(Runners) \in Nat
  <2>1. Appenders(s) \subseteq Runners /\ Appenders(s)' \subseteq Runners
    BY DEF Appenders
  <2>. QED
    BY <2>1, FS_Subset, FS_CardinalityType
<1>2. ASSUME Appenders(s)' \subseteq Appenders(s)
      PROVE  Cardinality(Appenders(s)') <= Cardinality(Appenders(s))
  BY <1>1, <1>2, FS_Subset
<1>3. CASE comparisons' = comparisons
  <2>1. ASSUME NEW r \in Runners, Quiet(r) \/ Writes(r)
        PROVE  Appenders(s)' \subseteq Appenders(s) \/ comparisons[s] = 0
    BY <1>0, <2>1, AppendersStep
  <2>2. ASSUME RecoverCrossReview \/ UNCHANGED vars
        PROVE  Appenders(s)' \subseteq Appenders(s)
    BY <2>2 DEF RecoverCrossReview, vars, runnerVars, Appenders
  <2>3. Appenders(s)' \subseteq Appenders(s) \/ comparisons[s] = 0
    BY <2>1, <2>2, NextCases
  <2>. QED
    BY <1>0, <1>1, <1>2, <1>3, <2>3
<1>4. ASSUME NEW r \in Runners, AppendComparison(r),
             comparisons'[StageOf(key[r])] = comparisons[StageOf(key[r])] + 1,
             \A t \in Stages \ {StageOf(key[r])} : comparisons'[t] = comparisons[t]
      PROVE  comparisons'[s] + Cardinality(Appenders(s)') <= Cardinality(Runners)
  <2>1. Appenders(s)' \subseteq Appenders(s) \ {r}
    <3>1. ~RecordComparison(r)
      BY <1>4 DEF AppendComparison, RecordComparison
    <3>. QED
      BY <1>4, <3>1, AppendersStep DEF Writes
  <2>2. CASE s = StageOf(key[r])
    <3>1. r \in Appenders(s)
      BY <1>4, <2>2 DEF Appenders, AppendComparison
    <3>2. /\ IsFiniteSet(Appenders(s) \ {r})
          /\ Cardinality(Appenders(s) \ {r}) = Cardinality(Appenders(s)) - 1
      BY <1>1, <3>1, FS_RemoveElement
    <3>3. Cardinality(Appenders(s)') <= Cardinality(Appenders(s)) - 1
      BY <2>1, <3>2, FS_Subset
    <3>. QED
      BY <1>0, <1>1, <1>4, <2>2, <3>3
  <2>3. CASE s # StageOf(key[r])
    BY <1>0, <1>1, <1>2, <1>4, <2>1, <2>3
  <2>. QED
    BY <2>2, <2>3
<1>. QED
  BY <1>3, <1>4, EventsStep

-----------------------------------------------------------------------------
(* Results *)

\* The invocations that exist are those of the path, once no opinion is missing.
LEMMA InvocationsOfPath ==
    ASSUME IInv, Decided
    PROVE  {k \in Keys : Exists(k)} = InvocationsOf(DerivedPath)
<1>1. \A k \in Keys : Exists(k) <=> Completed(k)
  BY DecidedRows DEF IInv
<1>2. \A k \in Keys : Completed(k) <=> CalledFor(k)
  BY <1>1 DEF IInv, Rows, RowOK, Ready, Decided
<1>3. /\ Completed("a")
      /\ Completed("cross_a") => Completed("b")
      /\ Completed("cross_a") <=> Completed("cross_b")
      /\ Completed("c") => Completed("cross_a")
      /\ Completed("judge") <=> Completed("c")
  BY <1>2 DEF CalledFor, Keys
<1>4. CASE ~Completed("b")
  <2>1. DerivedPath = "a_only"
    BY <1>1, <1>4 DEF DerivedPath, Keys
  <2>. QED
    BY <1>1, <1>3, <1>4, <2>1 DEF InvocationsOf, Keys
<1>5. CASE Completed("b") /\ ~Completed("cross_a")
  <2>1. DerivedPath = "ab_agreement"
    BY <1>1, <1>3, <1>5 DEF DerivedPath, Keys
  <2>. QED
    BY <1>1, <1>3, <1>5, <2>1 DEF InvocationsOf, Keys
<1>6. CASE Completed("cross_a") /\ ~Completed("judge")
  <2>1. DerivedPath = "cross_review_resolved"
    BY <1>1, <1>3, <1>6 DEF DerivedPath, Keys
  <2>. QED
    BY <1>1, <1>3, <1>6, <2>1 DEF InvocationsOf, Keys
<1>7. CASE Completed("judge")
  <2>1. DerivedPath = "c_tie_broken"
    BY <1>1, <1>3, <1>7 DEF DerivedPath, Keys
  <2>. QED
    BY <1>1, <1>3, <1>7, <2>1 DEF InvocationsOf, Keys
<1>. QED
  BY <1>4, <1>5, <1>6, <1>7

\* The path a decided session is on follows from its outputs.
LEMMA RouteOfPath ==
    ASSUME IInv, Decided
    PROVE  /\ DerivedPath = "a_only" => ~ExpandsToB(request, payload["a"]) /\ ~Completed("b")
           /\ DerivedPath = "ab_agreement" => /\ ~InitialRequires(request, payload)
                                             /\ Completed("b") /\ ~Completed("cross_b")
           /\ DerivedPath \in {"cross_review_resolved", "c_tie_broken"} =>
                InitialRequires(request, payload) /\ Completed("b") /\ Completed("cross_b")
           /\ DerivedPath = "cross_review_resolved" => ~CrossRequires(payload)
           /\ DerivedPath = "c_tie_broken" => CrossRequires(payload)
<1>1. \A k \in Keys : (Exists(k) <=> Completed(k)) /\ (Completed(k) <=> CalledFor(k))
  BY DecidedRows DEF IInv, Rows, RowOK, Ready, Decided
<1>2. /\ DerivedPath = "a_only" <=> ~Completed("b")
      /\ DerivedPath = "ab_agreement" <=>
           Completed("b") /\ ~Completed("cross_a") /\ ~Completed("cross_b")
      /\ DerivedPath = "cross_review_resolved" <=>
           /\ Completed("b") /\ (Completed("cross_a") \/ Completed("cross_b"))
           /\ ~Completed("judge")
      /\ DerivedPath = "c_tie_broken" <=>
           /\ Completed("b") /\ (Completed("cross_a") \/ Completed("cross_b"))
           /\ Completed("judge")
  BY <1>1 DEF DerivedPath, Keys
<1>3. DerivedPath = "a_only" => ~ExpandsToB(request, payload["a"]) /\ ~Completed("b")
  BY <1>1, <1>2 DEF CalledFor, Keys
<1>4. DerivedPath = "ab_agreement" => /\ ~InitialRequires(request, payload)
                                     /\ Completed("b") /\ ~Completed("cross_b")
  BY <1>1, <1>2 DEF CalledFor, Keys
<1>5. DerivedPath \in {"cross_review_resolved", "c_tie_broken"} =>
        InitialRequires(request, payload) /\ Completed("b") /\ Completed("cross_b")
  BY <1>1, <1>2 DEF CalledFor, Keys
<1>6. DerivedPath = "cross_review_resolved" => ~CrossRequires(payload)
  BY <1>1, <1>2, <1>5 DEF CalledFor, Keys
<1>7. DerivedPath = "c_tie_broken" => CrossRequires(payload)
  BY <1>1, <1>2 DEF CalledFor, Keys
<1>. QED
  BY <1>3, <1>4, <1>5, <1>6, <1>7

\* Two more elements.
LEMMA ConcatTwo ==
    ASSUME NEW S, NEW s \in Seq(S), NEW x \in S, NEW y \in S
    PROVE  s \o <<x, y>> = Append(Append(s, x), y)
<1>0. Append(s, x) \in Seq(S) /\ Append(Append(s, x), y) \in Seq(S) /\ <<x, y>> \in Seq(S)
  OBVIOUS
<1>1. PICK u \in Seq(S) : u = Append(Append(s, x), y)
  BY <1>0
<1>2. Len(u) = Len(s) + 2 /\ u[Len(s) + 1] = x /\ u[Len(s) + 2] = y
  BY <1>1
<1>3. \A i \in 1 .. Len(s) : u[i] = s[i]
  BY <1>1
<1>4. PICK t \in Seq(S) : t = <<x, y>>
  BY <1>0
<1>5. \A i \in 1 .. Len(t) : u[Len(s) + i] = t[i]
  BY <1>2, <1>4
<1>6. Len(u) = Len(s) + Len(t)
  BY <1>2, <1>4
<1>. QED
  BY <1>1, <1>3, <1>4, <1>5, <1>6, ConcatIs

\* Of a request that _should_invoke_b leaves to reviewer A alone, the verifier's
\* rule asks for B just when the session is sampled, and then there is something
\* material about it.
LEMMA RulesPart ==
    ASSUME NEW q, NEW a, ~ExpandsToB(q, a)
    PROVE  ExpansionRequired(q, a) <=> q.sampled /\ (q.material \/ a \in Material)
  BY DEF ExpandsToB, ExpansionRequired

\* The verifier accepts the decision of every returned review whose sample is not
\* disputed, and refuses the others.
LEMMA ReturnedVerifies == VInv => ReturnedDecisionVerifies
<1> SUFFICES ASSUME VInv, state = "result_returned"
             PROVE  DecisionVerifies <=> ~SampleDisputed
  BY DEF ReturnedDecisionVerifies
<1>0. IInv /\ Audited /\ Traced
  BY DEF VInv
<1>1. Decided /\ result # NoDocument
  BY <1>0 DEF IInv, StateOK, Knows, Finished
<1>2. result.path = DerivedPath /\ result.final = TheFinal /\ result.status = TheStatus
  BY <1>0, <1>1 DEF IInv, ResultOK
<1>3. TraceIsLegal /\ trace[Len(trace)] = state
  BY <1>0 DEF Audited
<1>4. DecisionTrace = ExpectedPrefix(result.path) \o <<result.status, "result_returned">>
  <2>1. DecisionTrace = Append(Append(ExpectedPrefix(DerivedPath), TheStatus), "result_returned")
    BY <1>0 DEF Traced
  <2>2. DerivedPath \in Paths /\ TheStatus \in ReviewStateSet
        /\ {"result_returned", "reviewer_adjudication"} \subseteq ReviewStateSet
    BY DEF DerivedPath, Paths, TheStatus, ResultStatus, ReviewStateSet, WorkflowStates
  <2>3. /\ Way(5) \in Seq(ReviewStateSet) /\ Way(7) \in Seq(ReviewStateSet)
        /\ Way(8) \in Seq(ReviewStateSet) /\ Way(10) \in Seq(ReviewStateSet)
    BY WayIsSeq
  <2>4. ExpectedPrefix(DerivedPath) \in Seq(ReviewStateSet)
    <3>1. \A w \in Seq(ReviewStateSet) : Append(w, "reviewer_adjudication") \in Seq(ReviewStateSet)
      BY <2>2
    <3>2. \A p \in Paths : ExpectedPrefix(p) \in Seq(ReviewStateSet)
      BY <2>3, <3>1, ExpectedWays DEF Paths
    <3>. QED
      BY <2>2, <3>2
  <2>. QED
    BY <1>2, <2>1, <2>2, <2>4, ConcatTwo
<1>5. InvocationsVerify
  BY <1>0, <1>1, <1>2, InvocationsOfPath, DecidedRows DEF InvocationsVerify, IInv
<1>6. RouteVerifies <=> ~SampleDisputed
  <2>1. CASE result.path = "a_only"
    <3>1. ~ExpandsToB(request, payload["a"])
      BY <1>0, <1>1, <1>2, <2>1, RouteOfPath
    <3>2. RouteVerifies <=> ~ExpansionRequired(request, payload["a"])
      BY <1>2, <2>1 DEF RouteVerifies, TheFinal
    <3>. QED
      BY <2>1, <3>1, <3>2, RulesPart DEF SampleDisputed
  <2>2. CASE result.path # "a_only"
    <3>1. RouteVerifies
      BY <1>0, <1>1, <1>2, <2>2, RouteOfPath DEF RouteVerifies, TheFinal
    <3>. QED
      BY <2>2, <3>1 DEF SampleDisputed
  <2>. QED
    BY <2>1, <2>2
<1>. QED
  BY <1>1, <1>3, <1>4, <1>5, <1>6 DEF DecisionVerifies

\* The audit trail of a session always tells how it got where it is: the
\* inductive invariant of the verifier holds in every reachable state.
THEOREM AuditTrailHolds == Spec => []VInv
<1>1. VInv /\ [Next]_vars => VInv'
  <2>1. IInv /\ [Next]_vars => IInv'
    BY TypeStep, RowsStep, StateStep, ResultStep, RunnersStep, FailuresStep DEF IInv
  <2>. QED
    BY <2>1, PlacedStep, AuditedStep, TracedStep, ComparedStep DEF VInv
<1>. QED
  BY <1>1, InitVInv, PTL DEF Spec

\* However many runners worked on it, were lost or came late, verify_session, its
\* comparison events apart, refuses a returned review in one case only: A's alone,
\* of a sampled session that _should_invoke_b does not sample.
THEOREM ReturnedDecisionAlwaysVerifies == Spec => []ReturnedDecisionVerifies
  BY AuditTrailHolds, ReturnedVerifies, PTL

\* A session never has more comparison events of a stage than runners:
\* record_comparison is not idempotent, but no runner appends twice.
THEOREM ComparisonEventsBounded ==
    ASSUME IsFiniteSet(Runners)
    PROVE  Spec => [](\A s \in Stages : comparisons[s] <= Cardinality(Runners))
<1>1. Init => EventsBounded
  <2> SUFFICES ASSUME Init, NEW s \in Stages
               PROVE  comparisons[s] + Cardinality(Appenders(s)) <= Cardinality(Runners)
    BY DEF EventsBounded
  <2>1. comparisons[s] = 0 /\ Appenders(s) = {}
    BY DEF Init, Appenders
  <2>. QED
    BY <2>1, FS_EmptySet, FS_CardinalityType
<1>2. IInv /\ EventsBounded /\ [Next]_vars => EventsBounded'
  BY EventsBoundedStep
<1>3. IInv /\ EventsBounded => \A s \in Stages : comparisons[s] <= Cardinality(Runners)
  <2> SUFFICES ASSUME IInv, EventsBounded, NEW s \in Stages
               PROVE  comparisons[s] <= Cardinality(Runners)
    OBVIOUS
  <2>1. Appenders(s) \subseteq Runners
    BY DEF Appenders
  <2>2. Cardinality(Appenders(s)) \in Nat /\ Cardinality(Runners) \in Nat
    BY <2>1, FS_Subset, FS_CardinalityType
  <2>3. comparisons[s] \in Nat
    BY TypeParts DEF IInv, LedgerTypes
  <2>4. comparisons[s] + Cardinality(Appenders(s)) <= Cardinality(Runners)
    BY DEF EventsBounded
  <2>. QED
    BY <2>2, <2>3, <2>4
<1>. QED
  BY <1>1, <1>2, <1>3, IInvHolds, PTL DEF Spec

\* When nobody else runs the session at the same time, however often its runner
\* was lost, a returned review passes the whole of verify_session, with that same
\* case as the one exception.
THEOREM ReturnedReviewAlwaysVerifies ==
    ASSUME IsFiniteSet(Runners), Cardinality(Runners) <= 1
    PROVE  Spec => []ReturnedReviewVerifies
<1> DEFINE Single == \A s \in Stages : comparisons[s] <= Cardinality(Runners)
<1>1. VInv /\ Single => ReturnedReviewVerifies
  <2> SUFFICES ASSUME VInv, Single, state = "result_returned" PROVE ComparisonsVerify
    BY ReturnedVerifies DEF ReturnedReviewVerifies, ReturnedDecisionVerifies, VerifySession
  <2>0. IInv /\ Compared
    BY DEF VInv
  <2>1. Finished /\ Decided /\ result.path = DerivedPath
    BY <2>0 DEF IInv, StateOK, Knows, Finished, ResultOK
  <2>2. /\ comparisons["independent"] \in Nat /\ comparisons["independent"] <= 1
        /\ comparisons["cross_review"] \in Nat /\ comparisons["cross_review"] <= 1
    <3>1. {"independent", "cross_review"} \subseteq Stages /\ comparisons \in [Stages -> Nat]
      BY <2>0, TypeParts DEF IInv, LedgerTypes, Stages
    <3>2. Cardinality(Runners) \in Nat
      BY FS_CardinalityType
    <3>. QED
      BY <3>1, <3>2
  <2>3. /\ comparisons["independent"] = IF Completed("b") THEN 1 ELSE 0
        /\ comparisons["cross_review"] = IF Completed("cross_b") THEN 1 ELSE 0
    BY <2>0, <2>1, <2>2 DEF Compared, Finished
  <2>4. DerivedPath \in Paths
    BY DEF DerivedPath, Paths
  <2>5. /\ DerivedPath = "a_only" => ~Completed("b") /\ ~Completed("cross_b")
        /\ DerivedPath = "ab_agreement" => Completed("b") /\ ~Completed("cross_b")
        /\ DerivedPath \in {"cross_review_resolved", "c_tie_broken"} =>
             Completed("b") /\ Completed("cross_b")
    <3>1. Completed("cross_b") => Completed("b")
      BY <2>0 DEF IInv, Rows, RowOK, Ready, CalledFor, Exists, Completed, Keys
    <3>. QED
      BY <2>0, <2>1, <3>1, RouteOfPath
  <2>. QED
    BY <2>1, <2>3, <2>4, <2>5 DEF ComparisonsVerify, Paths
<1>2. Spec => []Single
  BY ComparisonEventsBounded
<1> HIDE DEF Single
<1>. QED
  BY <1>1, <1>2, AuditTrailHolds, PTL

-----------------------------------------------------------------------------
(* Stranded sessions *)

\* A runner that has marked an invocation as failed can mark the session: the
\* session is still where the invocation was called for.
LEMMA FailingProceeds ==
    ASSUME IInv, Placed, NEW r \in Runners, Failing(r)
    PROVE  ValidTransition(state, target[r])
<1>1. PICK k \in Keys : status[k] = "failed" /\ FailureState(k) = target[r]
  BY DEF IInv, Failures, FailureOf
<1>2. /\ state \notin FailedStates /\ state \notin Before(k)
      /\ state \in Targets \cup {"snapshotted"} /\ Knows(state)
  BY <1>1 DEF IInv, Failures, StateOK, Placed, Exists
<1>3. CalledFor(k) /\ ~Completed(k)
  BY <1>1 DEF IInv, Rows, RowOK, Ready, Exists, Completed
<1>4. ~Decided
  BY <1>3 DEF Decided
<1>5. state \notin FinishingStates \cup {"result_returned"}
  BY <1>2, <1>4 DEF Knows, Finished
<1>6. Completed("b") => Completed("a")
  BY DEF IInv, Rows, RowOK, Ready, CalledFor, Exists, Completed, Keys
<1>7. state \in {"snapshotted", "reviewer_a", "baseline_recorded", "reviewer_b", "comparing",
                 "cross_review", "reviewer_c_independent", "reviewer_c_judging"}
  BY <1>2, <1>5 DEF Targets
<1>8. CASE k = "a"
  <2>1. state = "reviewer_a"
    BY <1>2, <1>3, <1>6, <1>7, <1>8 DEF Knows, Ready, CalledFor, Before
  <2>. QED
    BY <1>1, <1>8, <2>1 DEF ValidTransition, TerminalStates, FailureTransitions, FailureState
<1>9. CASE k = "b"
  <2>1. state = "reviewer_b"
    BY <1>2, <1>3, <1>7, <1>9 DEF Knows, Ready, CalledFor, Before, BeforeB
  <2>. QED
    BY <1>1, <1>9, <2>1 DEF ValidTransition, TerminalStates, FailureTransitions, FailureState
<1>10. CASE k \in {"cross_a", "cross_b"}
  <2>1. state = "cross_review"
    BY <1>2, <1>3, <1>7, <1>10 DEF Knows, Ready, CalledFor, Before, BeforeB, BeforeCross
  <2>. QED
    BY <1>1, <1>10, <2>1 DEF ValidTransition, TerminalStates, FailureTransitions, FailureState
<1>11. CASE k \in {"c", "judge"}
  <2>1. state \in {"reviewer_c_independent", "reviewer_c_judging"}
    BY <1>2, <1>7, <1>11 DEF Before, BeforeB, BeforeCross, BeforeC, BeforeJudge
  <2>. QED
    BY <1>1, <1>11, <2>1 DEF ValidTransition, TerminalStates, FailureTransitions, FailureState
<1>. QED
  BY <1>8, <1>9, <1>10, <1>11 DEF Keys

\* A failed invocation has been followed up, will be, or its runner was lost.
FollowedUp ==
    (\E k \in Keys : status[k] = "failed") =>
        \/ state \in FailedStates
        \/ crashes > 0
        \/ \E r \in Runners : Failing(r)

\* The runner that fails an invocation follows it up, unless it is lost.
LEMMA FollowedUpStep == IInv /\ Placed /\ FollowedUp /\ [Next]_vars => FollowedUp'
<1> SUFFICES ASSUME IInv, Placed, FollowedUp, [Next]_vars,
                    NEW j \in Keys, status'[j] = "failed"
             PROVE  \/ state' \in FailedStates
                    \/ crashes' > 0
                    \/ \E r \in Runners : Failing(r)'
  BY DEF FollowedUp, Failing
<1>0. RunnerTypes /\ LedgerTypes /\ crashes \in Nat
  BY TypeParts DEF IInv, LedgerTypes
<1>1. ASSUME NEW r \in Runners, FailInvocation(r) PROVE Failing(r)'
  <2>1. key[r] \in Keys /\ pc'[r] = "transition" /\ target'[r] = FailureState(key[r])
    BY <1>0, <1>1 DEF FailInvocation, ToTransition, RunnerTypes, IInv, RunnersOK, RunnerOK, Invoking
  <2>. QED
    BY <2>1 DEF Failing, FailureState, FailedStates
<1>2. ASSUME NEW r \in Runners, Quiet(r) \/ Writes(r), ~FailInvocation(r)
      PROVE  /\ status[j] = "failed"
             /\ crashes' = crashes \/ crashes' = crashes + 1
  <2>1. status[j] = "failed"
    BY <1>0, <1>2, QuietFrame DEF ledgerVars, Writes, Transition, InsertInvocation, RecordAttempts,
       CompleteInvocation, AppendComparison, Derive, InsertResult, LedgerTypes
  <2>2. CASE Crash(r)
    BY <2>1, <2>2 DEF Crash
  <2>3. CASE ~Crash(r)
    BY <1>2, <2>1, <2>3 DEF Quiet, Writes, Begin, Resume, ResumeRefused, TransitionRefused,
       RecordInvocation, InsertInvocationRefused, Review, RecordAttemptsRefused,
       FailInvocationRefused, CompleteInvocationRefused, RecordComparison, Adjudicate, Build,
       RecordResult, InsertResultRefused, Transition, InsertInvocation, RecordAttempts,
       CompleteInvocation, AppendComparison, Derive, InsertResult, envVars
  <2>. QED
    BY <2>2, <2>3
<1>3. ASSUME NEW r \in Runners, Quiet(r) \/ Writes(r), ~FailInvocation(r)
      PROVE  \/ state' \in FailedStates
             \/ crashes' > 0
             \/ \E q \in Runners : Failing(q)'
  <2>1. CASE crashes > 0
    BY <1>0, <1>2, <1>3, <2>1
  <2>2. CASE state \in FailedStates
    <3>1. state' = state
      <4>1. ~Transition(r)
        BY <2>2 DEF Transition, ValidTransition, TerminalStates, FailedStates
      <4>. QED
        BY <1>3, <4>1, QuietFrame DEF ledgerVars, Writes, InsertInvocation, RecordAttempts,
           CompleteInvocation, AppendComparison, Derive, InsertResult
    <3>. QED
      BY <2>2, <3>1
  <2>3. ASSUME NEW q \in Runners, Failing(q), q # r PROVE Failing(q)'
    BY <1>3, <2>3, OthersKeep DEF LocalsKept, Failing
  <2>4. ASSUME Failing(r)
        PROVE  state' \in FailedStates \/ crashes' > 0
    <3>1. pc[r] = "transition" /\ target[r] \in FailedStates /\ ValidTransition(state, target[r])
      BY <2>4, FailingProceeds DEF Failing
    <3>2. Transition(r) \/ Crash(r)
      BY <1>3, <3>1 DEF Quiet, Writes, Begin, Resume, ResumeRefused, TransitionRefused,
         RecordInvocation, InsertInvocationRefused, Review, RecordAttemptsRefused,
         FailInvocationRefused, CompleteInvocationRefused, RecordComparison, Adjudicate, Build,
         RecordResult, InsertResultRefused, InsertInvocation, RecordAttempts,
         CompleteInvocation, AppendComparison, Derive, InsertResult
    <3>. QED
      BY <1>0, <3>1, <3>2 DEF Transition, Crash
  <2>. QED
    BY <1>2, <1>3, <2>1, <2>2, <2>3, <2>4 DEF FollowedUp
<1>4. CASE RecoverCrossReview
  <2>1. state = "cross_review_failed"
    BY <1>4 DEF RecoverCrossReview, ValidRecovery
  <2>2. PICK k \in {"cross_a", "cross_b"} : status[k] = "failed"
    BY <2>1, RecoveryReady
  <2>3. k \in Keys /\ status'[k] = "pending" /\ (status[j] = "failed" <=> j = k)
    BY <1>4, <2>2, Frontier DEF RecoverCrossReview, FailedCrossReviews, IInv, Exists, Completed, Keys
  <2>4. status'[j] = status[j] \/ status'[j] = "pending"
    BY <1>4 DEF RecoverCrossReview
  <2>. QED
    BY <2>3, <2>4
<1>5. CASE UNCHANGED vars
  BY <1>5 DEF vars, ledgerVars, runnerVars, envVars, FollowedUp, Failing
<1>. QED
  BY <1>1, <1>3, <1>4, <1>5, NextCases

\* A session is stranded with a failed invocation only after a runner was lost:
\* between fail_invocation and the failed state other runners never get a
\* runner's transition refused.
THEOREM StrandedOnlyAfterLoss ==
    Spec => [](Stranded => crashes > 0 \/ \E r \in Runners : Failing(r))
<1>1. Init => FollowedUp
  BY DEF Init, FollowedUp
<1>2. VInv /\ FollowedUp /\ [Next]_vars => FollowedUp'
  BY FollowedUpStep DEF VInv
<1>3. FollowedUp => (Stranded => crashes > 0 \/ \E r \in Runners : Failing(r))
  BY DEF FollowedUp, Stranded, Settled
<1>. QED
  BY <1>1, <1>2, <1>3, AuditTrailHolds, PTL DEF Spec
=============================================================================
