---------------------------- MODULE Phase8Safety ----------------------------
(***************************************************************************)
(* The Phase 8 pilot boundary: what stands between a batch runner and a    *)
(* paid provider.  Two files are shared by every process of the pilot: the *)
(* runtime state (gate, budgets, cases, the pending reservation) and the   *)
(* revocation record.  A read-modify-write of one file under its lock is   *)
(* one action; a check of the revocation record and the transaction that   *)
(* follows are two, so a revocation may come between them.                 *)
(*                                                                         *)
(* A process runs cases: the orchestrator, which is outside this module,   *)
(* asks for any stage at any time; review() then runs the retry loop of    *)
(* ProviderRegistryRuntime with the boundary as its attempt guard.  One    *)
(* session belongs to one case.                                            *)
(***************************************************************************)
EXTENDS Naturals, Sequences

CONSTANTS
    Processes,
    Gates,           \* <<first, second>>: the two approvals, in order
    Eligible,        \* eligible_case_ids of each gate
    Controls,        \* control_case_ids of each gate
    RouteOf,         \* the frozen stage sequence of an eligible case
    Reserved,        \* what one attempt of a stage reserves of each meter
    Usages,          \* what a provider may report for an attempt of a stage
    BatchCap,        \* caps of a gate's approval, per meter
    PhaseCap,        \* caps of the whole pilot, per meter
    RouteCost,       \* cost ceiling of the route of a case
    Numbers,         \* attempt numbers the ledger may ask for first
    MaxAttempts,     \* attempts of one call
    Reviews,         \* gate reviews a batch may be completed with
    PriorReview,     \* prior_gate_review_hash of the second approval
    MayExpire,       \* bound: the approvals that may expire during the pilot
    MayRunLate,      \* bound: the cases that may exceed their wall time
    None

\* What is budgeted.
Meters == {"attempts", "tokens", "cost"}
Amounts == [Meters -> Nat]
NoUsage == [m \in Meters |-> 0]
Plus(a, b) == [m \in Meters |-> a[m] + b[m]]
Within(a, b) == \A m \in Meters : a[m] <= b[m]

GateSet == {Gates[1], Gates[2]}
Approved(g) == Eligible[g] \cup Controls[g]
Cases == UNION {Approved(g) : g \in GateSet}
EligibleCases == UNION {Eligible[g] : g \in GateSet}
Stages == DOMAIN Reserved

\* How an attempt is reported.  A response that exceeds the cost ceiling takes
\* the path of a success whose settlement is refused.
Outcomes == {"succeeded", "invalid_output", "permanent_failure", "retryable_failure"}

ASSUME Phase8Constants ==
    /\ Gates[1] # Gates[2]
    /\ None \notin GateSet \cup Cases \cup Stages \cup Reviews \cup Outcomes
    /\ None \notin EligibleCases \X Stages \X Nat
    /\ \A g \in GateSet : Eligible[g] \cap Controls[g] = {}
    /\ EligibleCases \cap UNION {Controls[g] : g \in GateSet} = {}
    /\ \A c \in EligibleCases : RouteOf[c] \in Seq(Stages)
    /\ Reserved \in [Stages -> Amounts]
    /\ \A s \in Stages : Reserved[s]["attempts"] = 1
    /\ \A s \in Stages : \A u \in Usages[s] : u \in Amounts /\ u["attempts"] = 1
    /\ BatchCap \in [GateSet -> Amounts]
    /\ PhaseCap \in Amounts
    /\ RouteCost \in [EligibleCases -> Nat]
    /\ Numbers \subseteq Nat
    /\ MaxAttempts \in Nat \ {0}
    /\ MayExpire \subseteq GateSet
    /\ MayRunLate \subseteq Cases

VARIABLES
    \* the runtime-state file
    gate, batch_completed, gate_review, phase_used, batch_used,
    invalid_outputs, failed_cases, phase_completed,
    started, stage_ids, case_used, completed, valid_result,
    reservation,     \* (case, stage, attempt number) of the pending attempt
    \* the revocation file, and the outside world
    revoked, expired, overtime,
    \* the processes
    pc, approval, case, stage, number, left, status, usage, verdict,
    \* provider calls begun, and those each process began after the revocation
    calls, late

ledgerVars == <<gate, batch_completed, gate_review, failed_cases, phase_completed,
                completed, valid_result>>
accountVars == <<phase_used, batch_used, invalid_outputs, started, stage_ids,
                 case_used, reservation>>
stateVars == <<ledgerVars, accountVars>>
worldVars == <<revoked, expired, overtime>>
localVars == <<approval, case, stage, number, left, status, usage, verdict>>
callVars == <<calls, late>>
vars == <<stateVars, worldVars, pc, localVars, callVars>>

Steps == {"idle", "activate", "ready", "case", "guard", "reserve", "call",
          "waiting", "settle", "recheck", "violate", "unwind", "closing", "close",
          "finish"}

TypeOK ==
    /\ gate \in GateSet \cup {None}
    /\ batch_completed \in BOOLEAN
    /\ gate_review \in Reviews \cup {None}
    /\ phase_used \in Amounts
    /\ batch_used \in Amounts
    /\ invalid_outputs \in Nat
    /\ failed_cases \in Nat
    /\ phase_completed \subseteq Cases
    /\ started \in [Cases -> BOOLEAN]
    /\ stage_ids \in [Cases -> Seq(Stages)]
    /\ case_used \in [Cases -> Amounts]
    /\ completed \in [Cases -> BOOLEAN]
    /\ valid_result \in [Cases -> BOOLEAN]
    /\ reservation \in (EligibleCases \X Stages \X Nat) \cup {None}
    /\ revoked \in BOOLEAN
    /\ expired \subseteq GateSet
    /\ overtime \subseteq Cases
    /\ pc \in [Processes -> Steps]
    /\ approval \in [Processes -> GateSet \cup {None}]
    /\ case \in [Processes -> Cases \cup {None}]
    /\ stage \in [Processes -> Stages \cup {None}]
    /\ number \in [Processes -> Nat]
    /\ left \in [Processes -> Nat]
    /\ status \in [Processes -> Outcomes \cup {None}]
    /\ usage \in [Processes -> Amounts]
    /\ verdict \in [Processes -> BOOLEAN]
    /\ calls \in Nat
    /\ late \in [Processes -> Nat]

Init ==
    /\ gate = None
    /\ batch_completed = FALSE
    /\ gate_review = None
    /\ phase_used = NoUsage
    /\ batch_used = NoUsage
    /\ invalid_outputs = 0
    /\ failed_cases = 0
    /\ phase_completed = {}
    /\ started = [c \in Cases |-> FALSE]
    /\ stage_ids = [c \in Cases |-> << >>]
    /\ case_used = [c \in Cases |-> NoUsage]
    /\ completed = [c \in Cases |-> FALSE]
    /\ valid_result = [c \in Cases |-> FALSE]
    /\ reservation = None
    /\ revoked = FALSE
    /\ expired = {}
    /\ overtime = {}
    /\ pc = [p \in Processes |-> "idle"]
    /\ approval = [p \in Processes |-> None]
    /\ case = [p \in Processes |-> None]
    /\ stage = [p \in Processes |-> None]
    /\ number = [p \in Processes |-> 0]
    /\ left = [p \in Processes |-> 0]
    /\ status = [p \in Processes |-> None]
    /\ usage = [p \in Processes |-> NoUsage]
    /\ verdict = [p \in Processes |-> FALSE]
    /\ calls = 0
    /\ late = [p \in Processes |-> 0]

-----------------------------------------------------------------------------
(* Moves of a process *)

GoTo(p, step) ==
    /\ pc' = [pc EXCEPT ![p] = step]
    /\ UNCHANGED localVars

\* The process is at `step' with authority g and nothing else in hand.
ResetTo(p, step, g) ==
    /\ pc' = [pc EXCEPT ![p] = step]
    /\ approval' = [approval EXCEPT ![p] = g]
    /\ case' = [case EXCEPT ![p] = None]
    /\ stage' = [stage EXCEPT ![p] = None]
    /\ number' = [number EXCEPT ![p] = 0]
    /\ left' = [left EXCEPT ![p] = 0]
    /\ status' = [status EXCEPT ![p] = None]
    /\ usage' = [usage EXCEPT ![p] = NoUsage]
    /\ verdict' = [verdict EXCEPT ![p] = FALSE]

\* run_case is left, by its result or by an exception.
LeaveCase(p) == ResetTo(p, "ready", approval[p])

-----------------------------------------------------------------------------
(* prepare_phase8_safety_boundary *)

\* The artifacts of gate g validate and no revocation, of any batch, exists.
Prepare(p, g) ==
    /\ pc[p] = "idle"
    /\ ~revoked
    /\ g \notin expired
    /\ ResetTo(p, "activate", g)
    /\ UNCHANGED <<stateVars, worldVars, callVars>>

\* Mutant of MayReplace: the second gate starts over whatever is pending.
MayReplaceUnreviewed(g) ==
    \/ gate = None /\ g = Gates[1]
    \/ gate = Gates[1] /\ g = Gates[2]

MayReplace(g) ==
    \/ gate = None /\ g = Gates[1]
    \/ /\ gate = Gates[1] /\ g = Gates[2]
       /\ batch_completed
       /\ gate_review = PriorReview
       /\ reservation = None
       /\ Eligible[g] \cap phase_completed = {}

\* activate: join the active batch, or start the next one.
Activate(p) ==
    /\ pc[p] = "activate"
    /\ \/ gate = approval[p] /\ UNCHANGED stateVars
       \/ /\ gate # approval[p] /\ MayReplace(approval[p])
          /\ gate' = approval[p]
          /\ batch_completed' = FALSE
          /\ gate_review' = None
          /\ batch_used' = NoUsage
          /\ started' = [c \in Cases |-> FALSE]
          /\ stage_ids' = [c \in Cases |-> << >>]
          /\ case_used' = [c \in Cases |-> NoUsage]
          /\ completed' = [c \in Cases |-> FALSE]
          /\ valid_result' = [c \in Cases |-> FALSE]
          /\ reservation' = None
          /\ UNCHANGED <<phase_used, invalid_outputs, failed_cases, phase_completed>>
    /\ GoTo(p, "ready")
    /\ UNCHANGED <<worldVars, callVars>>

ActivateRefused(p) ==
    /\ pc[p] = "activate"
    /\ gate # approval[p] /\ ~MayReplace(approval[p])
    /\ ResetTo(p, "idle", None)
    /\ UNCHANGED <<stateVars, worldVars, callVars>>

-----------------------------------------------------------------------------
(* review() and its attempt guard *)

\* run_case for an approved case; what follows is inside its scope.
RunCase(p, c) ==
    /\ pc[p] = "ready"
    /\ c \in Approved(approval[p])
    /\ case' = [case EXCEPT ![p] = c]
    /\ pc' = [pc EXCEPT ![p] = "case"]
    /\ UNCHANGED <<stateVars, worldVars, approval, stage, number, left, status,
                   usage, verdict, callVars>>

\* _ensure_live_authority, and then `next'.
EnsureLiveAuthority(p, next) ==
    pc' = [pc EXCEPT ![p] = IF revoked THEN "unwind"
                            ELSE IF approval[p] \in expired THEN "violate"
                            ELSE next]

\* review(): the orchestrator asks for stage s, attempts numbered from n.
Review(p, s, n) ==
    /\ pc[p] = "case"
    /\ EnsureLiveAuthority(p, IF case[p] \in EligibleCases THEN "guard" ELSE "violate")
    /\ stage' = [stage EXCEPT ![p] = s]
    /\ number' = [number EXCEPT ![p] = n]
    /\ left' = [left EXCEPT ![p] = MaxAttempts]
    /\ UNCHANGED <<stateVars, worldVars, approval, case, status, usage, verdict,
                   callVars>>

\* before_provider_attempt, up to its transaction.
Guard(p) ==
    /\ pc[p] = "guard"
    /\ EnsureLiveAuthority(p, "reserve")
    /\ status' = [status EXCEPT ![p] = None]
    /\ usage' = [usage EXCEPT ![p] = NoUsage]
    /\ UNCHANGED <<stateVars, worldVars, approval, case, stage, number, left,
                   verdict, callVars>>

\* _validate_call: the call differs from the manifest or the snapshot.
CallDiffers(p) ==
    /\ pc[p] = "guard"
    /\ ~revoked
    /\ GoTo(p, "violate")
    /\ UNCHANGED <<stateVars, worldVars, callVars>>

\* _reservation_id.
Id(p) == <<case[p], stage[p], number[p]>>

\* The stage was reserved before, or is the next one of the frozen route.
StageIsLegal(p) ==
    LET ids == stage_ids[case[p]] IN
        \/ \E i \in DOMAIN ids : ids[i] = stage[p]
        \/ /\ Len(ids) < Len(RouteOf[case[p]])
           /\ RouteOf[case[p]][Len(ids) + 1] = stage[p]

\* Mutant of BudgetCovers: what is already used is compared, not what it may
\* become.
BudgetCoversUsed(p) ==
    /\ case_used[case[p]]["cost"] <= RouteCost[case[p]]
    /\ Within(batch_used, BatchCap[approval[p]])
    /\ Within(phase_used, PhaseCap)

\* Route, batch and phase ceilings cover the whole reservation.
BudgetCovers(p) ==
    LET r == Reserved[stage[p]] IN
        /\ case_used[case[p]]["cost"] + r["cost"] <= RouteCost[case[p]]
        /\ Within(Plus(batch_used, r), BatchCap[approval[p]])
        /\ Within(Plus(phase_used, r), PhaseCap)

\* Mutant of CanReserve: a pending attempt does not block the next one.
CanReserveInParallel(p) ==
    /\ gate = approval[p]
    /\ ~batch_completed
    /\ ~completed[case[p]]
    /\ case[p] \notin overtime
    /\ StageIsLegal(p)
    /\ BudgetCovers(p)

CanReserve(p) ==
    /\ gate = approval[p]
    /\ ~batch_completed
    /\ reservation = None
    /\ ~completed[case[p]]
    /\ case[p] \notin overtime
    /\ StageIsLegal(p)
    /\ BudgetCovers(p)

\* reserve_attempt.
ReserveAttempt(p) ==
    /\ pc[p] = "reserve"
    /\ CanReserve(p)
    /\ started' = [started EXCEPT ![case[p]] = TRUE]
    /\ stage_ids' = [stage_ids EXCEPT ![case[p]] =
                       IF \E i \in DOMAIN @ : @[i] = stage[p] THEN @
                       ELSE Append(@, stage[p])]
    /\ reservation' = Id(p)
    /\ GoTo(p, "call")
    /\ UNCHANGED <<ledgerVars, phase_used, batch_used, invalid_outputs, case_used,
                   worldVars, callVars>>

ReserveRefused(p) ==
    /\ pc[p] = "reserve"
    /\ ~CanReserve(p)
    /\ GoTo(p, "violate")
    /\ UNCHANGED <<stateVars, worldVars, callVars>>

\* provider.invoke: the request leaves the process.
Invoke(p) ==
    /\ pc[p] = "call"
    /\ GoTo(p, "waiting")
    /\ calls' = calls + 1
    /\ late' = IF revoked THEN [late EXCEPT ![p] = @ + 1] ELSE late
    /\ UNCHANGED <<stateVars, worldVars>>

OneAttempt == [NoUsage EXCEPT !["attempts"] = 1]

\* The provider answers, or fails; a failure is reported without usage.
Answer(p, outcome, u) ==
    /\ pc[p] = "waiting"
    /\ outcome \in {"permanent_failure", "retryable_failure"} => u = OneAttempt
    /\ pc' = [pc EXCEPT ![p] = "settle"]
    /\ status' = [status EXCEPT ![p] = outcome]
    /\ usage' = [usage EXCEPT ![p] = u]
    /\ UNCHANGED <<stateVars, worldVars, approval, case, stage, number, left,
                   verdict, callVars>>

\* after_provider_attempt: the telemetry breaks the timeout or the contract.
TelemetryUnsound(p) ==
    /\ pc[p] = "settle"
    /\ GoTo(p, "violate")
    /\ UNCHANGED <<stateVars, worldVars, callVars>>

InvalidAfter(p) == invalid_outputs + (IF status[p] = "invalid_output" THEN 1 ELSE 0)

CanSettle(p) ==
    /\ gate = approval[p]
    /\ reservation = Id(p)
    /\ Within(usage[p], Reserved[stage[p]])
    /\ case[p] \notin overtime
    /\ case_used[case[p]]["cost"] + usage[p]["cost"] <= RouteCost[case[p]]
    /\ InvalidAfter(p) <= 1

\* Mutant of Settle: an attempt without a usable answer is not counted.
SettleAnswered(p) ==
    /\ pc[p] = "settle"
    /\ CanSettle(p)
    /\ reservation' = None
    /\ IF status[p] = "succeeded"
       THEN /\ phase_used' = Plus(phase_used, usage[p])
            /\ batch_used' = Plus(batch_used, usage[p])
            /\ case_used' = [case_used EXCEPT ![case[p]] = Plus(@, usage[p])]
       ELSE UNCHANGED <<phase_used, batch_used, case_used>>
    /\ invalid_outputs' = InvalidAfter(p)
    /\ GoTo(p, "recheck")
    /\ UNCHANGED <<ledgerVars, started, stage_ids, worldVars, callVars>>

\* settle_attempt; a success without token telemetry does not get here.
Settle(p) ==
    /\ pc[p] = "settle"
    /\ status[p] = "succeeded" => usage[p]["tokens"] > 0
    /\ CanSettle(p)
    /\ reservation' = None
    /\ phase_used' = Plus(phase_used, usage[p])
    /\ batch_used' = Plus(batch_used, usage[p])
    /\ case_used' = [case_used EXCEPT ![case[p]] = Plus(@, usage[p])]
    /\ invalid_outputs' = InvalidAfter(p)
    /\ GoTo(p, "recheck")
    /\ UNCHANGED <<ledgerVars, started, stage_ids, worldVars, callVars>>

SettleRefused(p) ==
    /\ pc[p] = "settle"
    /\ ~CanSettle(p)
    /\ GoTo(p, "violate")
    /\ UNCHANGED <<stateVars, worldVars, callVars>>

\* An exception of after_provider_attempt.  On the path of a success it is
\* raised inside the try block of the retry loop, which takes it for invalid
\* output and reports the attempt a second time; otherwise it leaves the loop.
Raise(p) ==
    IF status[p] = "succeeded"
    THEN /\ pc' = [pc EXCEPT ![p] = "settle"]
         /\ status' = [status EXCEPT ![p] = "invalid_output"]
         /\ UNCHANGED <<approval, case, stage, number, left, usage, verdict>>
    ELSE GoTo(p, "unwind")

\* Mutant of Recheck: the next attempt is reserved without asking for a
\* revocation.
RecheckNothing(p) ==
    /\ pc[p] = "recheck"
    /\ \/ /\ status[p] = "retryable_failure" /\ left[p] > 1
          /\ pc' = [pc EXCEPT ![p] = "reserve"]
          /\ number' = [number EXCEPT ![p] = @ + 1]
          /\ left' = [left EXCEPT ![p] = @ - 1]
          /\ UNCHANGED <<approval, case, stage, status, usage, verdict>>
       \/ status[p] = "succeeded" /\ GoTo(p, "case")
       \/ /\ status[p] # "succeeded"
          /\ status[p] = "retryable_failure" => left[p] <= 1
          /\ GoTo(p, "unwind")
    /\ UNCHANGED <<stateVars, worldVars, callVars>>

\* _ensure_not_revoked after the settlement; then the result, the next attempt
\* of the loop, or ReviewerProviderExhaustedError.
Recheck(p) ==
    /\ pc[p] = "recheck"
    /\ \/ revoked /\ Raise(p)
       \/ /\ ~revoked /\ status[p] = "retryable_failure" /\ left[p] > 1
          /\ pc' = [pc EXCEPT ![p] = "guard"]
          /\ number' = [number EXCEPT ![p] = @ + 1]
          /\ left' = [left EXCEPT ![p] = @ - 1]
          /\ UNCHANGED <<approval, case, stage, status, usage, verdict>>
       \/ /\ ~revoked /\ status[p] = "succeeded"
          /\ pc' = [pc EXCEPT ![p] = "case"]
          /\ status' = [status EXCEPT ![p] = None]
          /\ UNCHANGED <<approval, case, stage, number, left, usage, verdict>>
       \/ /\ ~revoked /\ status[p] # "succeeded"
          /\ status[p] = "retryable_failure" => left[p] <= 1
          /\ GoTo(p, "unwind")
    /\ UNCHANGED <<stateVars, worldVars, callVars>>

\* _violate: write the revocation record unless there is one, and raise.
Violate(p) ==
    /\ pc[p] = "violate"
    /\ revoked' = TRUE
    /\ Raise(p)
    /\ UNCHANGED <<stateVars, expired, overtime, callVars>>

-----------------------------------------------------------------------------
(* The end of a case, of a batch and of the authority *)

\* complete_case is called: a verdict on the case in hand.
Conclude(p, valid) ==
    /\ pc[p] = "case"
    /\ case[p] \in EligibleCases \/ valid
    /\ pc' = [pc EXCEPT ![p] = "closing"]
    /\ verdict' = [verdict EXCEPT ![p] = valid]
    /\ UNCHANGED <<stateVars, worldVars, approval, case, stage, number, left, status,
                   usage, callVars>>

\* A control did not stop at its frozen disposition.
ControlDiffers(p) ==
    /\ pc[p] = "case"
    /\ case[p] \notin EligibleCases
    /\ ~revoked
    /\ GoTo(p, "violate")
    /\ UNCHANGED <<stateVars, worldVars, callVars>>

\* The orchestrator, or the audit after it, raises: the case ends here.
CaseFails(p) ==
    /\ pc[p] = "case"
    /\ GoTo(p, "unwind")
    /\ UNCHANGED <<stateVars, worldVars, callVars>>

\* The exception handler of run_case: an attempted case that is still open is
\* closed as failed, unless an attempt is pending.
Unwind(p) ==
    /\ pc[p] = "unwind"
    /\ IF started[case[p]] /\ ~completed[case[p]] /\ reservation = None
       THEN /\ pc' = [pc EXCEPT ![p] = "closing"]
            /\ verdict' = [verdict EXCEPT ![p] = FALSE]
            /\ UNCHANGED <<approval, case, stage, number, left, status, usage>>
       ELSE LeaveCase(p)
    /\ UNCHANGED <<stateVars, worldVars, callVars>>

\* _ensure_not_revoked of complete_case.
Closing(p) ==
    /\ pc[p] = "closing"
    /\ IF revoked THEN LeaveCase(p) ELSE GoTo(p, "close")
    /\ UNCHANGED <<stateVars, worldVars, callVars>>

FailedAfter(p) ==
    IF case[p] \notin EligibleCases THEN failed_cases
    ELSE IF verdict[p] THEN 0 ELSE failed_cases + 1

\* Mutant of CanClose: a case may be closed while an attempt is pending.
CanCloseEarly(p) ==
    LET c == case[p] IN
        /\ gate = approval[p]
        /\ c \in EligibleCases => started[c]
        /\ IF completed[c] THEN valid_result[c] = verdict[p]
           ELSE /\ c \in EligibleCases /\ verdict[p] => stage_ids[c] = RouteOf[c]
                /\ FailedAfter(p) < 2

CanClose(p) ==
    LET c == case[p] IN
        /\ gate = approval[p]
        /\ reservation = None
        /\ c \in EligibleCases => started[c]
        /\ IF completed[c] THEN valid_result[c] = verdict[p]
           ELSE /\ c \in EligibleCases /\ verdict[p] => stage_ids[c] = RouteOf[c]
                /\ FailedAfter(p) < 2

\* The transaction of complete_case; a completed case stays as it is.
Close(p) ==
    /\ pc[p] = "close"
    /\ CanClose(p)
    /\ IF completed[case[p]]
       THEN UNCHANGED <<failed_cases, phase_completed, started, completed, valid_result>>
       ELSE /\ failed_cases' = FailedAfter(p)
            /\ phase_completed' = phase_completed \cup {case[p]}
            /\ started' = [started EXCEPT ![case[p]] = TRUE]
            /\ completed' = [completed EXCEPT ![case[p]] = TRUE]
            /\ valid_result' = [valid_result EXCEPT ![case[p]] = verdict[p]]
    /\ LeaveCase(p)
    /\ UNCHANGED <<gate, batch_completed, gate_review, phase_used, batch_used,
                   invalid_outputs, stage_ids, case_used, reservation, worldVars,
                   callVars>>

CloseRefused(p) ==
    /\ pc[p] = "close"
    /\ ~CanClose(p)
    /\ GoTo(p, "violate")
    /\ UNCHANGED <<stateVars, worldVars, callVars>>

\* complete_batch, up to its transaction.
FinishBatch(p) ==
    /\ pc[p] = "ready"
    /\ ~revoked
    /\ GoTo(p, "finish")
    /\ UNCHANGED <<stateVars, worldVars, callVars>>

\* Mutant of CanFinish: the results of the canary are not looked at.
CanFinishAnyhow(g) ==
    /\ gate = g
    /\ reservation = None
    /\ {c \in Cases : completed[c]} = Approved(g)

CanFinish(g) ==
    /\ gate = g
    /\ reservation = None
    /\ {c \in Cases : completed[c]} = Approved(g)
    /\ g = Gates[1] => \A c \in Eligible[g] : valid_result[c]

\* The transaction of complete_batch; the provider is detached afterwards.
Finish(p, review) ==
    /\ pc[p] = "finish"
    /\ CanFinish(approval[p])
    /\ batch_completed' = TRUE
    /\ gate_review' = review
    /\ ResetTo(p, "idle", None)
    /\ UNCHANGED <<gate, failed_cases, phase_completed, completed, valid_result,
                   accountVars, worldVars, callVars>>

FinishRefused(p) ==
    /\ pc[p] = "finish"
    /\ ~CanFinish(approval[p])
    /\ revoked' = TRUE
    /\ ResetTo(p, "ready", approval[p])
    /\ UNCHANGED <<stateVars, expired, overtime, callVars>>

\* runtime.revoke, by run_case or by whoever holds the stop authority.
Revoke(p) ==
    /\ pc[p] \in {"ready", "case"}
    /\ ~revoked
    /\ revoked' = TRUE
    /\ LeaveCase(p)
    /\ UNCHANGED <<stateVars, expired, overtime, callVars>>

-----------------------------------------------------------------------------
(* The environment *)

\* An approval expires.
Expire(g) ==
    /\ g \in MayExpire \ expired
    /\ expired' = expired \cup {g}
    /\ UNCHANGED <<stateVars, revoked, overtime, pc, localVars, callVars>>

\* A case has taken longer than its route may.
RunsLate(c) ==
    /\ started[c] /\ c \in MayRunLate \ overtime
    /\ overtime' = overtime \cup {c}
    /\ UNCHANGED <<stateVars, revoked, expired, pc, localVars, callVars>>

\* A process ends or is lost.
Stop(p) ==
    /\ pc[p] # "idle"
    /\ ResetTo(p, "idle", None)
    /\ UNCHANGED <<stateVars, worldVars, callVars>>

Attempt(p) ==
    \/ \E s \in Stages, n \in Numbers : Review(p, s, n)
    \/ Guard(p) \/ CallDiffers(p)
    \/ ReserveAttempt(p) \/ ReserveRefused(p)
    \/ Invoke(p)
    \/ /\ pc[p] = "waiting"
       /\ \E o \in Outcomes, u \in Usages[stage[p]] \cup {OneAttempt} : Answer(p, o, u)
    \/ TelemetryUnsound(p) \/ Settle(p) \/ SettleRefused(p)
    \/ Recheck(p)
    \/ Violate(p)

Next ==
    \/ \E p \in Processes :
         \/ \E g \in GateSet : Prepare(p, g)
         \/ Activate(p) \/ ActivateRefused(p)
         \/ \E c \in Cases : RunCase(p, c)
         \/ Attempt(p)
         \/ \E valid \in BOOLEAN : Conclude(p, valid)
         \/ ControlDiffers(p)
         \/ CaseFails(p)
         \/ Unwind(p)
         \/ Closing(p) \/ Close(p) \/ CloseRefused(p)
         \/ FinishBatch(p) \/ FinishRefused(p)
         \/ \E review \in Reviews : Finish(p, review)
         \/ Revoke(p)
         \/ Stop(p)
    \/ \E g \in GateSet : Expire(g)
    \/ \E c \in Cases : RunsLate(c)

Spec == Init /\ [][Next]_vars

-----------------------------------------------------------------------------
(* Properties *)

Pending == IF reservation = None THEN NoUsage ELSE Reserved[reservation[2]]

\* "Attempt, token, spend ... counters survive process restarts": what is used,
\* together with all that the pending attempt may still use, never exceeds the
\* caps of the batch, of the pilot and of the route, whatever processes were
\* lost, restarted or moved on to the next gate.
BudgetsHold ==
    /\ Within(Plus(phase_used, Pending), PhaseCap)
    /\ gate # None => Within(Plus(batch_used, Pending), BatchCap[gate])
    /\ \A c \in EligibleCases :
         case_used[c]["cost"] + (IF reservation # None /\ reservation[1] = c
                                 THEN Pending["cost"] ELSE 0) <= RouteCost[c]

\* "Every provider attempt is ... durably reserved before network access, then
\* settled": every request that ever left a process is counted or pending.
EveryCallIsAccounted ==
    calls <= phase_used["attempts"] + (IF reservation = None THEN 0 ELSE 1)

InFlight(p) == pc[p] \in {"call", "waiting"}

\* "parallel calls are blocked": until the batch is revoked the process that is
\* about to call, or waits for its provider, is alone, holds the pending
\* reservation, and works on an open case of the active batch.
CallsAreSerial ==
    ~revoked => \A p \in Processes :
        InFlight(p) => /\ reservation = Id(p)
                       /\ gate = approval[p]
                       /\ ~batch_completed
                       /\ ~completed[case[p]]
                       /\ \A q \in Processes : InFlight(q) => q = p

\* "Hard violations create an immutable revocation record and block all later
\* provider access": no request leaves once the record is there.  The code does
\* not keep this.  before_provider_attempt reads the record before it reserves,
\* nothing reads it again before the request leaves, and by then another process
\* may have written it.
RevocationBlocksAccess == [][revoked => calls' = calls]_vars

\* What does hold: whoever asks after the revocation is turned away, so that a
\* process lets at most the one request slip for which it had asked before,
\* whatever it retries, resumes or begins afterwards.
AtMostOneLateCall == \A p \in Processes : late[p] <= 1

\* The pending attempt has no process any more that could settle it.
Lost == reservation # None
          /\ \A p \in Processes : ~(pc[p] \in {"call", "waiting", "settle"} /\ Id(p) = reservation)

\* "Pending uncertain attempts block further calls until reconciliation": when
\* the process of an attempt is lost, no request is made and the reservation stays
\* in every step up to the revocation of the batch.
LostAttemptBlocks ==
    [][Lost /\ ~revoked => calls' = calls /\ reservation' = reservation]_vars

\* "Gate 2 cannot ... repeat a Gate 1 case, or proceed without the exact
\* completed Gate 1 review": it begins with every canary case closed and valid
\* and no attempt pending, whatever the processes of the canary were doing.
GateTwoFollowsValidCanary ==
    [][gate = Gates[1] /\ gate' = Gates[2]
         => /\ reservation = None
            /\ Approved(Gates[1]) \subseteq phase_completed
            /\ \A c \in Eligible[Gates[1]] : completed[c] /\ valid_result[c]]_vars
=============================================================================
