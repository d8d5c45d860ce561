---------------------------- MODULE ReviewSession ----------------------------
(***************************************************************************)
(* The life of one review session around its review: intake before it,     *)
(* feedback and evaluation after it.                                       *)
(*                                                                         *)
(* Callers (API clients and workers) hand in a request; requests with the  *)
(* same caller, occurrence, evidence version and plan revision meet in one *)
(* session.  accept() is a series of transactions, and keeps the state it  *)
(* read when it created or found the session.  Methods that look a row up  *)
(* and insert it when it is missing are two steps.  Submitters hand in     *)
(* feedback, which is recorded in one transaction and evaluated in a later *)
(* one.  Every call may be lost between two steps and may be repeated.     *)
(*                                                                         *)
(* The review itself is the module Orchestrator; here it is `in_review'    *)
(* between the first transition of a run and its last one.                 *)
(***************************************************************************)
EXTENDS Naturals, Sequences, FiniteSets

CONSTANTS
    Callers,         \* concurrent calls of accept()
    Submitters,      \* concurrent submissions of feedback
    Documents,       \* requests: idempotency key, task pack, content, eligible
    Feedbacks,       \* feedback documents
    Requests,        \* which caller may hand in what
    Opinions,        \* which submitter may hand in what
    None,            \* no document, no feedback
    MaxAttempts,     \* bound: provider attempts recorded by runners
    MaxCrashes,      \* bound: calls lost between two transactions
    MaxRecoveries    \* bound: recoveries of a failed cross review

ASSUME SessionConstants ==
    /\ \A d \in Documents : d.eligible \in BOOLEAN /\ None \notin {d.key, d.pack}
    /\ None \notin Documents \cup Feedbacks
    /\ Requests \subseteq [Callers -> Documents]
    /\ Opinions \subseteq [Submitters -> Feedbacks]
    /\ MaxAttempts \in Nat /\ MaxCrashes \in Nat /\ MaxRecoveries \in Nat

VARIABLES
    \* tables
    packs,           \* task_pack_revisions
    session,         \* review_sessions: the key and the pack it was created with
    state,           \* its current_state
    snapshot,        \* request_snapshots: the document
    validations,     \* request_validated events
    result,          \* review_results: the document that was reviewed
    attempts,        \* telemetry of the reviewer invocations
    feedback,        \* review_feedback
    candidate,       \* reviewer_evaluation_candidates
    feedback_events, evaluation_events,
    \* calls: what a caller hands in, where it is, and the state it has read
    document, step, seen,
    \* submissions: what is handed in, where it is, and what it evaluated
    opinion, phase, draft,
    crashes, recoveries

intakeTables == <<packs, session, snapshot, validations>>
reviewTables == <<result, attempts>>
feedbackTables == <<feedback, candidate, feedback_events, evaluation_events>>
calls == <<document, step, seen>>
submissions == <<opinion, phase, draft>>
bounds == <<crashes, recoveries>>
vars == <<intakeTables, state, reviewTables, feedbackTables, calls,
          submissions, bounds>>

-----------------------------------------------------------------------------
(* Values *)

States == {"absent", "requested", "validated", "snapshotted",
           "stale_or_ineligible_evidence", "in_review", "review_failed",
           "result_returned", "feedback_pending", "evaluated"}

Keys == {d.key : d \in Documents}
Packs == {d.pack : d \in Documents}
NoSession == [key |-> None, pack |-> None]

\* What an evaluation rests on.
Candidates == [result : Documents, feedback : Feedbacks, attempts : 0 .. MaxAttempts]
NoCandidate == [result |-> None, feedback |-> None, attempts |-> 0]

CallSteps == {"idle", "insert_pack", "find_session", "insert_session", "validate",
              "find_snapshot", "insert_snapshot", "find_validation",
              "append_validation", "snapshot", "stale"}

TypeOK ==
    /\ packs \subseteq Packs
    /\ session \in [key : Keys, pack : Packs] \cup {NoSession}
    /\ state \in States
    /\ snapshot \in Documents \cup {None}
    /\ validations \in Seq(Documents)
    /\ result \in Documents \cup {None}
    /\ attempts \in 0 .. MaxAttempts
    /\ feedback \in Feedbacks \cup {None}
    /\ candidate \in Candidates \cup {NoCandidate}
    /\ feedback_events \in Seq(Feedbacks)
    /\ evaluation_events \in Seq(Candidates)
    /\ document \in [Callers -> Documents]
    /\ step \in [Callers -> CallSteps]
    /\ seen \in [Callers -> States]
    /\ opinion \in [Submitters -> Feedbacks]
    /\ phase \in [Submitters -> {"idle", "evaluate", "record_candidate"}]
    /\ draft \in [Submitters -> Candidates \cup {NoCandidate}]
    /\ crashes \in 0 .. MaxCrashes
    /\ recoveries \in 0 .. MaxRecoveries

Init ==
    /\ packs = {}
    /\ session = NoSession
    /\ state = "absent"
    /\ snapshot = None
    /\ validations = << >>
    /\ result = None
    /\ attempts = 0
    /\ feedback = None
    /\ candidate = NoCandidate
    /\ feedback_events = << >>
    /\ evaluation_events = << >>
    /\ document \in Requests
    /\ step = [c \in Callers |-> "idle"]
    /\ seen = [c \in Callers |-> "absent"]
    /\ opinion \in Opinions
    /\ phase = [s \in Submitters |-> "idle"]
    /\ draft = [s \in Submitters |-> NoCandidate]
    /\ crashes = 0
    /\ recoveries = 0

-----------------------------------------------------------------------------
(* accept *)

GoTo(c, next) ==
    /\ step' = [step EXCEPT ![c] = next]
    /\ UNCHANGED <<document, seen>>

\* The call has read or written the state of the session.
GoToWith(c, next, current) ==
    /\ step' = [step EXCEPT ![c] = next]
    /\ seen' = [seen EXCEPT ![c] = current]
    /\ UNCHANGED document

\* accept returns, or raises, and its locals are gone.
EndCall(c) == GoToWith(c, "idle", "absent")

\* validate_request has passed; register_task_pack_revision looks the pack up.
Accept(c) ==
    /\ step[c] = "idle"
    /\ GoTo(c, IF document[c].pack \in packs THEN "find_session" ELSE "insert_pack")
    /\ UNCHANGED <<intakeTables, state, reviewTables, feedbackTables,
                   submissions, bounds>>

InsertPack(c) ==
    /\ step[c] = "insert_pack"
    /\ document[c].pack \notin packs
    /\ packs' = packs \cup {document[c].pack}
    /\ GoTo(c, "find_session")
    /\ UNCHANGED <<session, snapshot, validations, state, reviewTables,
                   feedbackTables, submissions, bounds>>

\* Mutant of FindSession: a session that is there counts as accepted.
FindSessionAndStop(c) ==
    /\ step[c] = "find_session"
    /\ IF session = NoSession THEN GoTo(c, "insert_session") ELSE EndCall(c)
    /\ UNCHANGED <<intakeTables, state, reviewTables, feedbackTables,
                   submissions, bounds>>

\* create_session, the lookup.  A session of the same identity must have been
\* created with the same idempotency key and task pack.
FindSession(c) ==
    /\ step[c] = "find_session"
    /\ \/ /\ session = NoSession
          /\ GoTo(c, "insert_session")
       \/ /\ session.key = document[c].key /\ session.pack = document[c].pack
          /\ GoToWith(c, IF state = "requested" THEN "validate" ELSE "find_snapshot",
                      state)
    /\ UNCHANGED <<intakeTables, state, reviewTables, feedbackTables,
                   submissions, bounds>>

\* create_session, the insert, with its event.
InsertSession(c) ==
    /\ step[c] = "insert_session"
    /\ session = NoSession
    /\ session' = [key |-> document[c].key, pack |-> document[c].pack]
    /\ state' = "requested"
    /\ GoToWith(c, "validate", "requested")
    /\ UNCHANGED <<packs, snapshot, validations, reviewTables, feedbackTables,
                   submissions, bounds>>

\* transition_session of a call: legal from one state only.
Transition(c, source, target, next) ==
    /\ state = source
    /\ state' = target
    /\ GoToWith(c, next, target)
    /\ UNCHANGED <<intakeTables, reviewTables, feedbackTables, submissions, bounds>>

Validate(c) ==
    /\ step[c] = "validate"
    /\ Transition(c, "requested", "validated", "find_snapshot")

\* store_snapshot, the lookup.
FindSnapshot(c) ==
    /\ step[c] = "find_snapshot"
    /\ \/ snapshot = None /\ GoTo(c, "insert_snapshot")
       \/ snapshot = document[c] /\ GoTo(c, "find_validation")
    /\ UNCHANGED <<intakeTables, state, reviewTables, feedbackTables,
                   submissions, bounds>>

\* Mutant of InsertSnapshot: the last one wins.
UpsertSnapshot(c) ==
    /\ step[c] = "insert_snapshot"
    /\ snapshot' = document[c]
    /\ GoTo(c, "find_validation")
    /\ UNCHANGED <<packs, session, validations, state, reviewTables,
                   feedbackTables, submissions, bounds>>

\* store_snapshot, the insert; a session has one snapshot.
InsertSnapshot(c) ==
    /\ step[c] = "insert_snapshot"
    /\ snapshot = None
    /\ snapshot' = document[c]
    /\ GoTo(c, "find_validation")
    /\ UNCHANGED <<packs, session, validations, state, reviewTables,
                   feedbackTables, submissions, bounds>>

\* What accept does after the validation is recorded, by the state it has
\* read before: finish the transition to snapshotted, divert evidence that is
\* not eligible, or return.
AfterValidation(c) ==
    IF seen[c] = "validated" THEN GoTo(c, "snapshot")
    ELSE IF seen[c] = "snapshotted" /\ ~document[c].eligible THEN GoTo(c, "stale")
    ELSE EndCall(c)

\* record_request_validation, the lookup; the payload is a function of the
\* document.
FindValidation(c) ==
    /\ step[c] = "find_validation"
    /\ \/ validations = << >> /\ GoTo(c, "append_validation")
       \/ /\ validations # << >> /\ Head(validations) = document[c]
          /\ AfterValidation(c)
    /\ UNCHANGED <<intakeTables, state, reviewTables, feedbackTables,
                   submissions, bounds>>

\* record_request_validation, the append; no key makes the event unique.
AppendValidation(c) ==
    /\ step[c] = "append_validation"
    /\ validations' = Append(validations, document[c])
    /\ AfterValidation(c)
    /\ UNCHANGED <<packs, session, snapshot, state, reviewTables,
                   feedbackTables, submissions, bounds>>

\* The transition to snapshotted, a transaction before the diversion.
Snapshotted(c) ==
    /\ step[c] = "snapshot"
    /\ IF document[c].eligible
       THEN /\ state = "validated"
            /\ state' = "snapshotted"
            /\ EndCall(c)
            /\ UNCHANGED <<intakeTables, reviewTables, feedbackTables,
                           submissions, bounds>>
       ELSE Transition(c, "validated", "snapshotted", "stale")

\* accept: the last transition of a request whose evidence is stale.
MarkStale(c) ==
    /\ step[c] = "stale"
    /\ state = "snapshotted"
    /\ state' = "stale_or_ineligible_evidence"
    /\ EndCall(c)
    /\ UNCHANGED <<intakeTables, reviewTables, feedbackTables, submissions, bounds>>

\* A lookup finds other content, an insert finds the row, or a transition
\* finds a state from which it is not legal: accept raises.
AcceptRefused(c) ==
    /\ \/ step[c] = "insert_pack" /\ document[c].pack \in packs
       \/ /\ step[c] = "find_session" /\ session # NoSession
          /\ session.key # document[c].key \/ session.pack # document[c].pack
       \/ step[c] = "insert_session" /\ session # NoSession
       \/ step[c] = "validate" /\ state # "requested"
       \/ step[c] = "find_snapshot" /\ snapshot \notin {None, document[c]}
       \/ step[c] = "insert_snapshot" /\ snapshot # None
       \/ /\ step[c] = "find_validation" /\ validations # << >>
          /\ Head(validations) # document[c]
       \/ step[c] = "snapshot" /\ state # "validated"
       \/ step[c] = "stale" /\ state # "snapshotted"
    /\ EndCall(c)
    /\ UNCHANGED <<intakeTables, state, reviewTables, feedbackTables,
                   submissions, bounds>>

-----------------------------------------------------------------------------
(* The review, as Orchestrator and its contract have it *)

\* run() loads a session that has a snapshot and is in a resumable state.
BeginReview ==
    /\ state = "snapshotted"
    /\ snapshot # None
    /\ state' = "in_review"
    /\ UNCHANGED <<intakeTables, reviewTables, feedbackTables, calls,
                   submissions, bounds>>

ReturnResult ==
    /\ state = "in_review"
    /\ state' = "result_returned"
    /\ result' = snapshot
    /\ UNCHANGED <<intakeTables, attempts, feedbackTables, calls, submissions, bounds>>

FailReview ==
    /\ state = "in_review"
    /\ state' = "review_failed"
    /\ UNCHANGED <<intakeTables, reviewTables, feedbackTables, calls,
                   submissions, bounds>>

Recover ==
    /\ state = "review_failed"
    /\ recoveries < MaxRecoveries
    /\ state' = "in_review"
    /\ recoveries' = recoveries + 1
    /\ UNCHANGED <<intakeTables, reviewTables, feedbackTables, calls,
                   submissions, crashes>>

\* A runner reports its provider attempts; a slow one also after the result.
RecordAttempts ==
    /\ state \in {"in_review", "result_returned", "feedback_pending", "evaluated"}
    /\ attempts < MaxAttempts
    /\ attempts' = attempts + 1
    /\ UNCHANGED <<intakeTables, state, result, feedbackTables, calls,
                   submissions, bounds>>

-----------------------------------------------------------------------------
(* Feedback and evaluation *)

Continue(s, next, d) ==
    /\ phase' = [phase EXCEPT ![s] = next]
    /\ draft' = [draft EXCEPT ![s] = d]
    /\ UNCHANGED opinion

\* Mutant of RecordFeedback: later feedback replaces the recorded one.
ReplaceFeedback(s) ==
    /\ phase[s] = "idle"
    /\ state \in {"result_returned", "feedback_pending", "evaluated"}
    /\ feedback' = opinion[s]
    /\ feedback_events' = Append(feedback_events, opinion[s])
    /\ state' = IF state = "result_returned" THEN "feedback_pending" ELSE state
    /\ Continue(s, "evaluate", NoCandidate)
    /\ UNCHANGED <<intakeTables, reviewTables, candidate, evaluation_events,
                   calls, bounds>>

\* Mutant of RecordFeedback: recorded feedback counts as evaluated.
RecordFeedbackOnce(s) ==
    /\ phase[s] = "idle"
    /\ feedback = None
    /\ result # None /\ state = "result_returned"
    /\ feedback' = opinion[s]
    /\ feedback_events' = Append(feedback_events, opinion[s])
    /\ state' = "feedback_pending"
    /\ Continue(s, "evaluate", NoCandidate)
    /\ UNCHANGED <<intakeTables, reviewTables, candidate, evaluation_events,
                   calls, bounds>>

\* record_feedback, under the row lock of the session: the first feedback of
\* a returned result is recorded with both its events, the same one again
\* is accepted, another one is refused.
RecordFeedback(s) ==
    /\ phase[s] = "idle"
    /\ \/ /\ feedback = opinion[s]
          /\ UNCHANGED <<feedback, feedback_events, state>>
       \/ /\ feedback = None
          /\ result # None /\ state = "result_returned"
          /\ feedback' = opinion[s]
          /\ feedback_events' = Append(feedback_events, opinion[s])
          /\ state' = "feedback_pending"
    /\ Continue(s, "evaluate", NoCandidate)
    /\ UNCHANGED <<intakeTables, reviewTables, candidate, evaluation_events,
                   calls, bounds>>

\* evaluate reads result, feedback and the telemetry of the invocations.
Evaluate(s) ==
    /\ phase[s] = "evaluate"
    /\ result # None /\ feedback # None /\ snapshot # None
    /\ Continue(s, "record_candidate",
                [result |-> result, feedback |-> feedback, attempts |-> attempts])
    /\ UNCHANGED <<intakeTables, state, reviewTables, feedbackTables, calls, bounds>>

\* record_evaluation_candidate, under the row lock: the first candidate ends
\* the session, the same one again is accepted.
RecordCandidate(s) ==
    /\ phase[s] = "record_candidate"
    /\ \/ /\ candidate = draft[s]
          /\ UNCHANGED <<candidate, evaluation_events, state>>
       \/ /\ candidate = NoCandidate
          /\ draft[s].result = result /\ draft[s].feedback = feedback
          /\ state = "feedback_pending"
          /\ candidate' = draft[s]
          /\ evaluation_events' = Append(evaluation_events, draft[s])
          /\ state' = "evaluated"
    /\ Continue(s, "idle", NoCandidate)
    /\ UNCHANGED <<intakeTables, reviewTables, feedback, feedback_events, calls,
                   bounds>>

\* "reviewer evaluation candidate is immutable": the recorded one differs.
CandidateRefused(s) ==
    /\ phase[s] = "record_candidate"
    /\ candidate \notin {NoCandidate, draft[s]}
    /\ Continue(s, "idle", NoCandidate)
    /\ UNCHANGED <<intakeTables, state, reviewTables, feedbackTables, calls, bounds>>

-----------------------------------------------------------------------------
(* Lost calls and the specification *)

CallLost(c) ==
    /\ step[c] # "idle"
    /\ crashes < MaxCrashes
    /\ crashes' = crashes + 1
    /\ EndCall(c)
    /\ UNCHANGED <<intakeTables, state, reviewTables, feedbackTables,
                   submissions, recoveries>>

SubmissionLost(s) ==
    /\ phase[s] # "idle"
    /\ crashes < MaxCrashes
    /\ crashes' = crashes + 1
    /\ Continue(s, "idle", NoCandidate)
    /\ UNCHANGED <<intakeTables, state, reviewTables, feedbackTables, calls,
                   recoveries>>

AcceptStep(c) ==
    \/ Accept(c) \/ InsertPack(c) \/ FindSession(c) \/ InsertSession(c)
    \/ Validate(c) \/ FindSnapshot(c) \/ InsertSnapshot(c)
    \/ FindValidation(c) \/ AppendValidation(c) \/ Snapshotted(c)
    \/ MarkStale(c) \/ AcceptRefused(c)

SubmitStep(s) ==
    RecordFeedback(s) \/ Evaluate(s) \/ RecordCandidate(s) \/ CandidateRefused(s)

Next ==
    \/ \E c \in Callers : AcceptStep(c) \/ CallLost(c)
    \/ \E s \in Submitters : SubmitStep(s) \/ SubmissionLost(s)
    \/ BeginReview \/ ReturnResult \/ FailReview \/ Recover \/ RecordAttempts

Spec == Init /\ [][Next]_vars

\* A call that is not lost goes on, and callers and submitters repeat theirs.
LiveSpec ==
    /\ Spec
    /\ \A c \in Callers : WF_vars(AcceptStep(c))
    /\ \A s \in Submitters : WF_vars(SubmitStep(s))

-----------------------------------------------------------------------------
(* Properties *)

\* Whoever created the session, a session past intake rests on one document:
\* its snapshot has the key and the pack the session was created with, every
\* validation event, also the second one that a race can append, describes
\* that snapshot, and so does the result.
EvidenceIsPinned ==
    /\ snapshot # None =>
         session = [key |-> snapshot.key, pack |-> snapshot.pack]
    /\ \A i \in 1 .. Len(validations) : validations[i] = snapshot
    /\ state \notin {"absent", "requested", "validated"} =>
         snapshot # None /\ validations # << >>
    /\ result \in {None, snapshot}

\* What verify_session demands of feedback and evaluation: at every instant
\* after the result is returned, the state, the rows and the events of both
\* agree, and the candidate rests on the recorded result and feedback.
VerifyFeedback ==
    IF feedback = None
    THEN /\ state = "result_returned"
         /\ candidate = NoCandidate
         /\ feedback_events = << >> /\ evaluation_events = << >>
    ELSE /\ state = IF candidate = NoCandidate THEN "feedback_pending" ELSE "evaluated"
         /\ feedback_events = <<feedback>>
         /\ IF candidate = NoCandidate
            THEN evaluation_events = << >>
            ELSE /\ candidate.result = result /\ candidate.feedback = feedback
                 /\ evaluation_events = <<candidate>>

FeedbackVerifies ==
    \/ state \in {"result_returned", "feedback_pending", "evaluated"}
    \/ feedback # None \/ candidate # NoCandidate
    => VerifyFeedback

\* A request whose intake was lost or lost a race is taken out of intake by a
\* repetition: its session does not stay requested or validated.
RequestLeavesIntake ==
    session # NoSession ~> state \notin {"requested", "validated"}

\* Feedback that was recorded and whose submission was lost before the
\* evaluation is evaluated by a repetition.
FeedbackIsEvaluated == feedback # None ~> state = "evaluated"

\* "Stale evidence enters `stale_or_ineligible_evidence`"
\* (MVP_build_roadmap.md): it is never reviewed.
StaleEvidenceIsNotReviewed ==
    snapshot # None /\ ~snapshot.eligible =>
        state \in {"requested", "validated", "snapshotted",
                   "stale_or_ineligible_evidence"}
=============================================================================
