-------------------------- MODULE ReviewSessionProofs --------------------------
(***************************************************************************)
(* Intake pins the evidence of a session and feedback stays verifiable,    *)
(* for any number of concurrent callers and submitters, any requests and   *)
(* feedback, and any number of lost calls, recoveries and late attempts.   *)
(***************************************************************************)
EXTENDS ReviewSession, TLAPS

PastSession == {"validate", "find_snapshot", "insert_snapshot", "find_validation",
                "append_validation", "snapshot", "stale"}
PastSnapshot == {"find_validation", "append_validation", "snapshot", "stale"}
PastValidation == {"snapshot", "stale"}

\* What accept knows where it is, although it holds no lock between its
\* transactions: the session was created with its own key and pack, the
\* snapshot is its own document, the validation is recorded.
Knows(c) ==
    /\ step[c] \in PastSession =>
         session = [key |-> document[c].key, pack |-> document[c].pack]
    /\ step[c] \in PastSnapshot => snapshot = document[c]
    /\ step[c] \in PastValidation => validations # << >>

CallInv == \A c \in Callers : Knows(c)

\* No event comes before its row.
EventsFollowRows ==
    /\ feedback = None => feedback_events = << >>
    /\ candidate = NoCandidate => evaluation_events = << >>

IInv == TypeOK /\ CallInv /\ EvidenceIsPinned /\ EventsFollowRows /\ FeedbackVerifies

-----------------------------------------------------------------------------
\* The initial state satisfies the inductive invariant.
LEMMA InitIInv == Init => IInv
<1> SUFFICES ASSUME Init PROVE IInv
  OBVIOUS
<1> USE SessionConstants DEF Init
<1>1. TypeOK
  BY DEF TypeOK, States, CallSteps
<1>2. CallInv
  BY DEF CallInv, Knows, PastSession, PastSnapshot, PastValidation
<1>3. EvidenceIsPinned
  BY DEF EvidenceIsPinned
<1>4. EventsFollowRows
  BY DEF EventsFollowRows
<1>5. FeedbackVerifies
  BY DEF FeedbackVerifies, NoCandidate
<1>. QED
  BY <1>1, <1>2, <1>3, <1>4, <1>5 DEF IInv

\* A document's key and pack are a key and a pack.
LEMMA KeyAndPack ==
    ASSUME NEW d \in Documents
    PROVE /\ d.key \in Keys /\ d.pack \in Packs
          /\ [key |-> d.key, pack |-> d.pack] # NoSession
  BY SessionConstants DEF Keys, Packs, NoSession

\* Every step of a call keeps the types.
LEMMA AcceptType ==
    ASSUME IInv, NEW c \in Callers, AcceptStep(c) \/ CallLost(c)
    PROVE TypeOK'
<1> USE SessionConstants
    DEF IInv, TypeOK, GoTo, GoToWith, EndCall, intakeTables, reviewTables,
        feedbackTables, submissions, bounds
<1>0. document[c] \in Documents
  OBVIOUS
<1>1. CASE Accept(c)
  BY <1>1 DEF Accept, CallSteps
<1>2. CASE InsertPack(c)
  BY <1>0, <1>2, KeyAndPack DEF InsertPack, CallSteps
<1>3. CASE FindSession(c)
  <2>1. CASE GoTo(c, "insert_session")
    BY <1>3, <2>1 DEF FindSession, CallSteps
  <2>2. ASSUME NEW n \in {"validate", "find_snapshot"}, GoToWith(c, n, state)
        PROVE TypeOK'
    BY <1>3, <2>2 DEF FindSession, CallSteps
  <2>. QED
    BY <1>3, <2>1, <2>2 DEF FindSession
<1>4. CASE InsertSession(c)
  BY <1>0, <1>4, KeyAndPack DEF InsertSession, CallSteps, States
<1>5. CASE Validate(c)
  BY <1>5 DEF Validate, Transition, CallSteps, States
<1>6. CASE FindSnapshot(c)
  BY <1>6 DEF FindSnapshot, CallSteps
<1>7. CASE InsertSnapshot(c)
  BY <1>0, <1>7 DEF InsertSnapshot, CallSteps
<1>8. CASE FindValidation(c)
  <2>1. CASE \E n \in CallSteps : GoTo(c, n)
    BY <1>8, <2>1 DEF FindValidation
  <2>2. CASE EndCall(c)
    BY <1>8, <2>2 DEF FindValidation, CallSteps, States
  <2>. QED
    BY <1>8, <2>1, <2>2 DEF FindValidation, AfterValidation, CallSteps
<1>9. CASE AppendValidation(c)
  <2>1. validations' \in Seq(Documents)
    BY <1>0, <1>9 DEF AppendValidation
  <2>2. CASE \E n \in CallSteps : GoTo(c, n)
    BY <1>9, <2>1, <2>2 DEF AppendValidation
  <2>3. CASE EndCall(c)
    BY <1>9, <2>1, <2>3 DEF AppendValidation, CallSteps, States
  <2>. QED
    BY <1>9, <2>2, <2>3 DEF AppendValidation, AfterValidation, CallSteps
<1>10. CASE Snapshotted(c)
  BY <1>10 DEF Snapshotted, Transition, CallSteps, States
<1>11. CASE MarkStale(c)
  BY <1>11 DEF MarkStale, CallSteps, States
<1>12. CASE AcceptRefused(c)
  BY <1>12 DEF AcceptRefused, CallSteps, States
<1>13. CASE CallLost(c)
  BY <1>13 DEF CallLost, CallSteps, States
<1>. QED
  BY <1>1, <1>2, <1>3, <1>4, <1>5, <1>6, <1>7, <1>8, <1>9, <1>10, <1>11, <1>12,
     <1>13 DEF AcceptStep

\* Every step of a submission keeps the types.
LEMMA SubmitType ==
    ASSUME IInv, NEW s \in Submitters, SubmitStep(s) \/ SubmissionLost(s)
    PROVE TypeOK'
<1> USE SessionConstants
    DEF IInv, TypeOK, Continue, intakeTables, reviewTables, feedbackTables, calls,
        bounds
<1>1. CASE RecordFeedback(s)
  <2>1. feedback_events' \in Seq(Feedbacks)
    <3>1. opinion[s] \in Feedbacks
      OBVIOUS
    <3>2. Append(feedback_events, opinion[s]) \in Seq(Feedbacks)
      BY <3>1
    <3>. QED
      BY <1>1, <3>2 DEF RecordFeedback
  <2>2. feedback' \in Feedbacks /\ state' \in States
    BY <1>1 DEF RecordFeedback, States
  <2>3. /\ phase' \in [Submitters -> {"idle", "evaluate", "record_candidate"}]
        /\ draft' \in [Submitters -> Candidates \cup {NoCandidate}]
    BY <1>1 DEF RecordFeedback
  <2>. QED
    BY <1>1, <2>1, <2>2, <2>3 DEF RecordFeedback
<1>2. CASE Evaluate(s)
  <2>1. [result |-> result, feedback |-> feedback, attempts |-> attempts] \in Candidates
    BY <1>2 DEF Evaluate, Candidates
  <2>. QED
    BY <1>2, <2>1 DEF Evaluate
<1>3. CASE RecordCandidate(s)
  <2>1. CASE candidate = draft[s] /\ UNCHANGED <<candidate, evaluation_events, state>>
    BY <1>3, <2>1 DEF RecordCandidate
  <2>2. CASE /\ draft[s].feedback = feedback /\ state = "feedback_pending"
             /\ candidate' = draft[s] /\ state' = "evaluated"
             /\ evaluation_events' = Append(evaluation_events, draft[s])
    <3>1. feedback # None
      BY <2>2 DEF FeedbackVerifies, VerifyFeedback
    <3>2. draft[s] \in Candidates
      BY <2>2, <3>1 DEF NoCandidate
    <3>3. evaluation_events' \in Seq(Candidates)
      BY <2>2, <3>2
    <3>. QED
      BY <1>3, <2>2, <3>2, <3>3 DEF RecordCandidate, States
  <2>. QED
    BY <1>3, <2>1, <2>2 DEF RecordCandidate
<1>4. CASE CandidateRefused(s)
  BY <1>4 DEF CandidateRefused
<1>5. CASE SubmissionLost(s)
  BY <1>5 DEF SubmissionLost
<1>. QED
  BY <1>1, <1>2, <1>3, <1>4, <1>5 DEF SubmitStep

\* Every step of the review keeps the types.
LEMMA ReviewType ==
    ASSUME IInv,
           BeginReview \/ ReturnResult \/ FailReview \/ Recover \/ RecordAttempts
             \/ UNCHANGED vars
    PROVE TypeOK'
<1> USE SessionConstants
    DEF IInv, TypeOK, intakeTables, reviewTables, feedbackTables, calls, submissions,
        bounds
<1>1. CASE BeginReview \/ FailReview
  BY <1>1 DEF BeginReview, FailReview, States
<1>2. CASE ReturnResult
  BY <1>2 DEF ReturnResult, States
<1>3. CASE Recover
  BY <1>3 DEF Recover, States
<1>4. CASE RecordAttempts
  BY <1>4 DEF RecordAttempts
<1>5. CASE UNCHANGED vars
  BY <1>5 DEF vars
<1>. QED
  BY <1>1, <1>2, <1>3, <1>4, <1>5

\* Every step keeps the types.
LEMMA TypeStep == IInv /\ [Next]_vars => TypeOK'
  BY AcceptType, SubmitType, ReviewType DEF Next

-----------------------------------------------------------------------------
\* What a step may do to the rows of intake: the session, its snapshot and its
\* validations are added to and never replaced.
RowsOnlyGrow ==
    /\ session' # session => session = NoSession
    /\ snapshot' # snapshot => snapshot = None
    /\ validations # << >> => validations' # << >>

\* Every step keeps to that.
LEMMA RowsGrow == IInv /\ [Next]_vars => RowsOnlyGrow
<1> SUFFICES ASSUME IInv, [Next]_vars PROVE RowsOnlyGrow
  OBVIOUS
<1> USE DEF RowsOnlyGrow
<1>1. CASE UNCHANGED intakeTables
  BY <1>1 DEF intakeTables
<1>2. ASSUME NEW c \in Callers, InsertPack(c) PROVE RowsOnlyGrow
  BY <1>2 DEF InsertPack
<1>3. ASSUME NEW c \in Callers, InsertSession(c) PROVE RowsOnlyGrow
  BY <1>3 DEF InsertSession
<1>4. ASSUME NEW c \in Callers, InsertSnapshot(c) PROVE RowsOnlyGrow
  BY <1>4 DEF InsertSnapshot
<1>5. ASSUME NEW c \in Callers, AppendValidation(c) PROVE RowsOnlyGrow
  <2>1. validations \in Seq(Documents) /\ document[c] \in Documents
    BY DEF IInv, TypeOK
  <2>. QED
    BY <1>5, <2>1 DEF AppendValidation
<1>6. ASSUME NEW c \in Callers,
             Accept(c) \/ FindSession(c) \/ Validate(c) \/ FindSnapshot(c)
               \/ FindValidation(c) \/ Snapshotted(c) \/ MarkStale(c)
               \/ AcceptRefused(c) \/ CallLost(c)
      PROVE UNCHANGED intakeTables
  BY <1>6 DEF Accept, FindSession, Validate, FindSnapshot, FindValidation,
     Snapshotted, MarkStale, AcceptRefused, CallLost, Transition
<1>7. ASSUME NEW s \in Submitters, SubmitStep(s) \/ SubmissionLost(s)
      PROVE UNCHANGED intakeTables
  BY <1>7 DEF SubmitStep, RecordFeedback, Evaluate, RecordCandidate, CandidateRefused,
     SubmissionLost
<1>8. ASSUME BeginReview \/ ReturnResult \/ FailReview \/ Recover \/ RecordAttempts
               \/ UNCHANGED vars
      PROVE UNCHANGED intakeTables
  BY <1>8 DEF BeginReview, ReturnResult, FailReview, Recover, RecordAttempts, vars
<1>. QED
  BY <1>1, <1>2, <1>3, <1>4, <1>5, <1>6, <1>7, <1>8 DEF Next, AcceptStep

\* What a call knows stays true under the steps of all others, because the
\* rows of intake are written once; its own steps learn what is claimed.
LEMMA CallStep == IInv /\ [Next]_vars => CallInv'
<1> SUFFICES ASSUME IInv, [Next]_vars, NEW c \in Callers PROVE Knows(c)'
  BY DEF CallInv
<1>1. RowsOnlyGrow
  BY RowsGrow
<1>2. Knows(c) /\ document[c] \in Documents
  BY DEF IInv, TypeOK, CallInv
<1>3. CASE step'[c] = step[c] /\ document'[c] = document[c]
  <2>1. step[c] \in PastSession => session' = session
    BY <1>1, <1>2, KeyAndPack DEF Knows, RowsOnlyGrow
  <2>2. step[c] \in PastSnapshot => snapshot' = snapshot
    BY <1>1, <1>2, SessionConstants DEF Knows, RowsOnlyGrow
  <2>. QED
    BY <1>1, <1>2, <1>3, <2>1, <2>2 DEF Knows, RowsOnlyGrow
<1>4. CASE AcceptStep(c) \/ CallLost(c)
  <2> USE <1>2 DEF Knows, PastSession, PastSnapshot, PastValidation, GoTo, GoToWith,
      EndCall, intakeTables
  <2>0. step \in [Callers -> CallSteps] /\ document' = document
    BY <1>4 DEF IInv, TypeOK, AcceptStep, Accept, InsertPack, FindSession, InsertSession,
       Validate, FindSnapshot, InsertSnapshot, FindValidation, AppendValidation,
       AfterValidation, Snapshotted, MarkStale, AcceptRefused, Transition, CallLost
  <2>1. CASE Accept(c)
    BY <2>0, <2>1 DEF Accept
  <2>2. CASE InsertPack(c)
    BY <2>0, <2>2 DEF InsertPack
  <2>3. CASE FindSession(c)
    <3>1. session \in [key : Keys, pack : Packs] \cup {NoSession}
      BY DEF IInv, TypeOK
    <3>2. session.key = document[c].key /\ session.pack = document[c].pack
            => session = [key |-> document[c].key, pack |-> document[c].pack]
      BY <3>1 DEF NoSession
    <3>. QED
      BY <2>0, <2>3, <3>2 DEF FindSession
  <2>4. CASE InsertSession(c)
    BY <2>0, <2>4 DEF InsertSession
  <2>5. CASE Validate(c)
    BY <2>0, <2>5 DEF Validate, Transition
  <2>6. CASE FindSnapshot(c)
    BY <2>0, <2>6 DEF FindSnapshot
  <2>7. CASE InsertSnapshot(c)
    BY <2>0, <2>7 DEF InsertSnapshot
  <2>8. CASE FindValidation(c)
    BY <2>0, <2>8 DEF FindValidation, AfterValidation
  <2>9. CASE AppendValidation(c)
    <3>0. validations \in Seq(Documents) /\ document[c] \in Documents
      BY DEF IInv, TypeOK
    <3>1. validations' # << >>
      <4>1. validations' = Append(validations, document[c])
        BY <2>9 DEF AppendValidation
      <4>2. Len(Append(validations, document[c])) = Len(validations) + 1
        BY <3>0
      <4>. QED
        BY <3>0, <4>1, <4>2
    <3>2. CASE \E n \in {"snapshot", "stale"} : GoTo(c, n)
      BY <2>0, <2>9, <3>1, <3>2 DEF AppendValidation
    <3>3. CASE EndCall(c)
      BY <2>0, <2>9, <3>3 DEF AppendValidation
    <3>. QED
      BY <2>9, <3>2, <3>3 DEF AppendValidation, AfterValidation
  <2>10. CASE Snapshotted(c)
    BY <2>0, <2>10 DEF Snapshotted, Transition
  <2>11. CASE MarkStale(c) \/ AcceptRefused(c) \/ CallLost(c)
    BY <2>0, <2>11 DEF MarkStale, AcceptRefused, CallLost
  <2>. QED
    BY <1>4, <2>1, <2>2, <2>3, <2>4, <2>5, <2>6, <2>7, <2>8, <2>9, <2>10, <2>11
       DEF AcceptStep
<1>5. ASSUME NEW d \in Callers, d # c, AcceptStep(d) \/ CallLost(d)
      PROVE step'[c] = step[c] /\ document'[c] = document[c]
  BY <1>5 DEF IInv, TypeOK, AcceptStep, Accept, InsertPack, FindSession, InsertSession,
     Validate, FindSnapshot, InsertSnapshot, FindValidation, AppendValidation,
     AfterValidation, Snapshotted, MarkStale, AcceptRefused, Transition, CallLost,
     GoTo, GoToWith, EndCall
<1>6. ASSUME NEW s \in Submitters, SubmitStep(s) \/ SubmissionLost(s)
      PROVE UNCHANGED calls
  BY <1>6 DEF SubmitStep, RecordFeedback, Evaluate, RecordCandidate, CandidateRefused,
     SubmissionLost
<1>7. ASSUME BeginReview \/ ReturnResult \/ FailReview \/ Recover \/ RecordAttempts
               \/ UNCHANGED vars
      PROVE UNCHANGED calls
  BY <1>7 DEF BeginReview, ReturnResult, FailReview, Recover, RecordAttempts, vars
<1>. QED
  BY <1>3, <1>4, <1>5, <1>6, <1>7 DEF Next, calls

-----------------------------------------------------------------------------
\* The states before the evidence is stored.
Early == {"absent", "requested", "validated"}

\* Every step keeps a session on one document.
LEMMA EvidenceStep == IInv /\ [Next]_vars => EvidenceIsPinned'
<1> SUFFICES ASSUME IInv, [Next]_vars PROVE EvidenceIsPinned'
  OBVIOUS
<1> USE SessionConstants DEF EvidenceIsPinned
<1>1. EvidenceIsPinned /\ validations \in Seq(Documents) /\ snapshot \in Documents \cup {None}
  BY DEF IInv, TypeOK
<1>2. snapshot = None => validations = << >> /\ result = None /\ state \in Early
  BY <1>1 DEF Early
<1>3. ASSUME UNCHANGED <<session, snapshot, validations, result>>,
             state' \in Early \/ state \notin Early
      PROVE EvidenceIsPinned'
  BY <1>1, <1>3 DEF Early
<1>4. ASSUME NEW c \in Callers, InsertSession(c) PROVE EvidenceIsPinned'
  <2>1. snapshot = None
    BY <1>1, <1>4, KeyAndPack DEF InsertSession
  <2>. QED
    BY <1>2, <1>4, <2>1 DEF InsertSession, reviewTables
<1>5. ASSUME NEW c \in Callers, InsertSnapshot(c) PROVE EvidenceIsPinned'
  <2>1. session = [key |-> document[c].key, pack |-> document[c].pack]
    BY <1>5 DEF IInv, CallInv, Knows, PastSession, InsertSnapshot
  <2>. QED
    BY <1>2, <1>5, <2>1 DEF InsertSnapshot, reviewTables, Early
<1>6. ASSUME NEW c \in Callers, AppendValidation(c) PROVE EvidenceIsPinned'
  <2>1. snapshot = document[c] /\ document[c] \in Documents
    BY <1>6 DEF IInv, TypeOK, CallInv, Knows, PastSnapshot, AppendValidation
  <2>2. /\ validations' = Append(validations, document[c])
        /\ UNCHANGED <<session, snapshot, state, result>>
    BY <1>6 DEF AppendValidation, reviewTables
  <2>3. validations' # << >> /\ Len(validations') = Len(validations) + 1
    BY <1>1, <2>1, <2>2
  <2>4. ASSUME NEW i \in 1 .. Len(validations') PROVE validations'[i] = snapshot'
    <3>1. CASE i = Len(validations) + 1
      BY <1>1, <2>1, <2>2, <3>1
    <3>2. CASE i \in 1 .. Len(validations)
      BY <1>1, <2>1, <2>2, <3>2
    <3>. QED
      BY <1>1, <2>3, <3>1, <3>2
  <2>. QED
    BY <1>1, <2>2, <2>3, <2>4
<1>7. ASSUME NEW c \in Callers, Snapshotted(c) PROVE EvidenceIsPinned'
  <2>1. snapshot # None /\ validations # << >>
    BY <1>7 DEF IInv, TypeOK, CallInv, Knows, PastSnapshot, PastValidation, Snapshotted
  <2>. QED
    BY <1>1, <1>7, <2>1 DEF Snapshotted, Transition, intakeTables, reviewTables
<1>8. CASE ReturnResult
  BY <1>1, <1>8 DEF ReturnResult, intakeTables
<1>9. ASSUME NEW c \in Callers,
             Accept(c) \/ InsertPack(c) \/ FindSession(c) \/ Validate(c)
               \/ FindSnapshot(c) \/ FindValidation(c) \/ MarkStale(c)
               \/ AcceptRefused(c) \/ CallLost(c)
      PROVE EvidenceIsPinned'
  BY <1>3, <1>9 DEF Accept, InsertPack, FindSession, Validate, FindSnapshot,
     FindValidation, MarkStale, AcceptRefused, CallLost, Transition, intakeTables,
     reviewTables, Early
<1>10. ASSUME NEW s \in Submitters, SubmitStep(s) \/ SubmissionLost(s)
       PROVE EvidenceIsPinned'
  BY <1>3, <1>10 DEF SubmitStep, RecordFeedback, Evaluate, RecordCandidate,
     CandidateRefused, SubmissionLost, intakeTables, reviewTables, Early
<1>11. ASSUME BeginReview \/ FailReview \/ Recover \/ RecordAttempts \/ UNCHANGED vars
       PROVE EvidenceIsPinned'
  BY <1>3, <1>11 DEF BeginReview, FailReview, Recover, RecordAttempts, vars,
     intakeTables, reviewTables, Early
<1>. QED
  BY <1>4, <1>5, <1>6, <1>7, <1>8, <1>9, <1>10, <1>11 DEF Next, AcceptStep

-----------------------------------------------------------------------------
\* The states in which feedback is possible or there.
Late == {"result_returned", "feedback_pending", "evaluated"}
FeedbackInv == EventsFollowRows /\ FeedbackVerifies

\* Every step keeps rows, events and state of feedback and evaluation together.
LEMMA FeedbackStep == IInv /\ [Next]_vars => FeedbackInv'
<1> SUFFICES ASSUME IInv, [Next]_vars PROVE FeedbackInv'
  OBVIOUS
<1> USE SessionConstants
    DEF FeedbackInv, EventsFollowRows, FeedbackVerifies, VerifyFeedback
<1>1. FeedbackInv
  BY DEF IInv
<1>2. state \notin Late => feedback = None /\ candidate = NoCandidate
  BY <1>1 DEF Late
<1>3. ASSUME UNCHANGED feedbackTables, UNCHANGED result, state' = state
      PROVE FeedbackInv'
  BY <1>1, <1>3 DEF feedbackTables
<1>4. ASSUME UNCHANGED feedbackTables, state \notin Late, state' \notin Late
      PROVE FeedbackInv'
  BY <1>1, <1>2, <1>4 DEF feedbackTables, Late
<1>5. CASE ReturnResult
  <2>1. feedback = None /\ candidate = NoCandidate
    BY <1>2, <1>5 DEF ReturnResult, Late
  <2>. QED
    BY <1>1, <1>5, <2>1 DEF ReturnResult, feedbackTables
<1>6. ASSUME NEW c \in Callers, InsertSession(c) PROVE FeedbackInv'
  <2>1. state \in {"absent", "requested", "validated"}
    <3>1. snapshot = None
      BY <1>6, KeyAndPack DEF InsertSession, IInv, TypeOK, EvidenceIsPinned
    <3>. QED
      BY <3>1 DEF IInv, EvidenceIsPinned
  <2>. QED
    BY <1>4, <1>6, <2>1 DEF InsertSession, Late
<1>7. ASSUME NEW c \in Callers, Validate(c) \/ Snapshotted(c) \/ MarkStale(c)
      PROVE FeedbackInv'
  BY <1>4, <1>7 DEF Validate, Snapshotted, MarkStale, Transition, Late
<1>8. CASE BeginReview \/ FailReview \/ Recover
  BY <1>4, <1>8 DEF BeginReview, FailReview, Recover, Late
<1>9. ASSUME NEW s \in Submitters, RecordFeedback(s) PROVE FeedbackInv'
  <2>1. CASE feedback = opinion[s] /\ UNCHANGED <<feedback, feedback_events, state>>
    BY <1>3, <1>9, <2>1 DEF RecordFeedback, feedbackTables, reviewTables
  <2>2. CASE /\ feedback = None /\ state = "result_returned"
             /\ feedback' = opinion[s] /\ state' = "feedback_pending"
             /\ feedback_events' = Append(feedback_events, opinion[s])
    <3>1. opinion[s] \in Feedbacks
      BY DEF IInv, TypeOK
    <3>2. feedback_events = << >> /\ candidate = NoCandidate /\ evaluation_events = << >>
      BY <1>1, <2>2
    <3>3. feedback_events' = <<opinion[s]>>
      BY <2>2, <3>1, <3>2
    <3>4. candidate' = NoCandidate /\ evaluation_events' = << >>
      BY <1>9, <3>2 DEF RecordFeedback
    <3>. QED
      BY <2>2, <3>1, <3>3, <3>4
  <2>. QED
    BY <1>9, <2>1, <2>2 DEF RecordFeedback
<1>10. ASSUME NEW s \in Submitters, RecordCandidate(s) PROVE FeedbackInv'
  <2>1. CASE candidate = draft[s] /\ UNCHANGED <<candidate, evaluation_events, state>>
    BY <1>3, <1>10, <2>1 DEF RecordCandidate, feedbackTables, reviewTables
  <2>2. CASE /\ candidate = NoCandidate
             /\ draft[s].result = result /\ draft[s].feedback = feedback
             /\ state = "feedback_pending" /\ state' = "evaluated"
             /\ candidate' = draft[s]
             /\ evaluation_events' = Append(evaluation_events, draft[s])
    <3>1. feedback # None /\ feedback_events = <<feedback>> /\ evaluation_events = << >>
      BY <1>1, <2>2
    <3>2. draft[s] # NoCandidate
      BY <2>2, <3>1 DEF NoCandidate
    <3>3. evaluation_events' = <<draft[s]>>
      BY <2>2, <3>1
    <3>4. UNCHANGED <<result, feedback, feedback_events>>
      BY <1>10 DEF RecordCandidate, reviewTables
    <3>. QED
      BY <2>2, <3>1, <3>2, <3>3, <3>4
  <2>. QED
    BY <1>10, <2>1, <2>2 DEF RecordCandidate
<1>11. ASSUME NEW c \in Callers,
              Accept(c) \/ InsertPack(c) \/ FindSession(c) \/ FindSnapshot(c)
                \/ InsertSnapshot(c) \/ FindValidation(c) \/ AppendValidation(c)
                \/ AcceptRefused(c) \/ CallLost(c)
       PROVE FeedbackInv'
  BY <1>3, <1>11 DEF Accept, InsertPack, FindSession, FindSnapshot, InsertSnapshot,
     FindValidation, AppendValidation, AcceptRefused, CallLost, reviewTables
<1>12. ASSUME NEW s \in Submitters, Evaluate(s) \/ CandidateRefused(s) \/ SubmissionLost(s)
       PROVE FeedbackInv'
  BY <1>3, <1>12 DEF Evaluate, CandidateRefused, SubmissionLost, reviewTables
<1>13. CASE RecordAttempts \/ UNCHANGED vars
  BY <1>3, <1>13 DEF RecordAttempts, vars, reviewTables
<1>. QED
  BY <1>5, <1>6, <1>7, <1>8, <1>9, <1>10, <1>11, <1>12, <1>13
     DEF Next, AcceptStep, SubmitStep

-----------------------------------------------------------------------------
\* The inductive invariant holds throughout.
LEMMA Invariance == Spec => []IInv
<1>1. IInv /\ [Next]_vars => IInv'
  BY TypeStep, CallStep, EvidenceStep, FeedbackStep DEF IInv, FeedbackInv
<1>. QED
  BY InitIInv, <1>1, PTL DEF Spec

\* The tables and the locals of all calls keep their types.
THEOREM TypeCorrect == Spec => []TypeOK
<1>1. IInv => TypeOK
  BY DEF IInv
<1>. QED
  BY Invariance, <1>1, PTL

\* However many callers race through accept, and whatever of them is lost, a
\* session rests on one document from its snapshot to its result.
THEOREM RacingIntakePinsEvidence == Spec => []EvidenceIsPinned
<1>1. IInv => EvidenceIsPinned
  BY DEF IInv
<1>. QED
  BY Invariance, <1>1, PTL

\* However many submitters race, are lost between record_feedback and
\* record_evaluation_candidate or repeat themselves after late telemetry, the
\* feedback part of verify_session accepts the session at every instant.
THEOREM FeedbackStaysVerifiable == Spec => []FeedbackVerifies
<1>1. IInv => FeedbackVerifies
  BY DEF IInv
<1>. QED
  BY Invariance, <1>1, PTL

\* The rows of intake are written once: no call replaces the session or the
\* snapshot another one has stored, or takes back a validation.
THEOREM IntakeRowsAreWrittenOnce == Spec => [][RowsOnlyGrow]_vars
<1>1. IInv /\ [Next]_vars => [RowsOnlyGrow]_vars
  BY RowsGrow
<1>. QED
  BY Invariance, <1>1, PTL DEF Spec
=============================================================================
