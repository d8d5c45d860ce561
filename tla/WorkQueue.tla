----------------------------- MODULE WorkQueue -----------------------------
(***************************************************************************)
(* The leased work queue of the ledger (scheduler_work_items) and the      *)
(* worker processes that drain it.                                         *)
(*                                                                         *)
(* Every repository method is one database transaction on a row locked     *)
(* FOR UPDATE, so every method is one action.  A worker reads the wall     *)
(* clock once, before it claims, and hands that frozen instant to every    *)
(* later call of the same run_once: `started' keeps it.  What happens      *)
(* between the claim and the end of the run (intake and orchestration) is  *)
(* abstracted here to its outcome: success, a retryable error or a         *)
(* permanent error.  Orchestrator models that part.                        *)
(***************************************************************************)
EXTENDS Naturals

CONSTANTS
    Items,             \* work items, numbered in (due_at, work_item_id) order
    Workers,           \* worker ids; a restarted process keeps its id
    NoWorker,          \* claimed_by IS NULL
    NoItem,            \* a worker without a claim
    LeaseSeconds,      \* worker_lease_seconds
    RetryDelay,        \* worker_retry_delay_seconds
    MaxAttempts,       \* worker_max_attempts
    MaxClock,          \* bound: the clock stops here
    MaxCrashes,        \* bound: worker processes lost
    MaxManualRetries   \* bound: operator retries of dead-letter work

ASSUME WorkQueueConstants ==
    /\ Items \subseteq Nat
    /\ NoWorker \notin Workers
    /\ NoItem \notin Items
    /\ LeaseSeconds \in Nat \ {0}
    /\ RetryDelay \in Nat
    /\ MaxAttempts \in Nat \ {0}
    /\ MaxClock \in Nat
    /\ MaxCrashes \in Nat
    /\ MaxManualRetries \in Nat

VARIABLES
    \* columns of scheduler_work_items, one function per column
    status, claimed_by, attempts, max_attempts, available_at, lease_expires_at,
    \* the worker processes
    pc, job, started, retryable,
    \* the environment
    clock, crashes, manualRetries

itemVars == <<status, claimed_by, attempts, max_attempts, available_at,
              lease_expires_at>>
workerVars == <<pc, job, started, retryable>>
envVars == <<clock, crashes, manualRetries>>
vars == <<itemVars, workerVars, envVars>>

Statuses == {"absent", "pending", "claimed", "retry", "completed",
             "dead_letter", "cancelled"}

\* No instant a lease can end at is 0, so 0 stands for NULL.
NoInstant == 0

TypeOK ==
    /\ status \in [Items -> Statuses]
    /\ claimed_by \in [Items -> Workers \cup {NoWorker}]
    /\ attempts \in [Items -> Nat]
    /\ max_attempts \in [Items -> Nat]
    /\ available_at \in [Items -> Nat]
    /\ lease_expires_at \in [Items -> Nat]
    /\ pc \in [Workers -> {"idle", "running", "failing"}]
    /\ job \in [Workers -> Items \cup {NoItem}]
    /\ started \in [Workers -> Nat]
    /\ retryable \in [Workers -> BOOLEAN]
    /\ clock \in Nat
    /\ crashes \in Nat
    /\ manualRetries \in Nat

Init ==
    /\ status = [i \in Items |-> "absent"]
    /\ claimed_by = [i \in Items |-> NoWorker]
    /\ attempts = [i \in Items |-> 0]
    /\ max_attempts = [i \in Items |-> MaxAttempts]
    /\ available_at = [i \in Items |-> 0]
    /\ lease_expires_at = [i \in Items |-> NoInstant]
    /\ pc = [w \in Workers |-> "idle"]
    /\ job = [w \in Workers |-> NoItem]
    /\ started = [w \in Workers |-> 0]
    /\ retryable = [w \in Workers |-> FALSE]
    /\ clock = 0
    /\ crashes = 0
    /\ manualRetries = 0

(***************************************************************************)
(* The queue                                                               *)
(***************************************************************************)

\* enqueue_occurrence for a new occurrence; for a known one it changes nothing.
Enqueue(i) ==
    /\ status[i] = "absent"
    /\ status' = [status EXCEPT ![i] = "pending"]
    /\ available_at' = [available_at EXCEPT ![i] = clock]
    /\ UNCHANGED <<claimed_by, attempts, max_attempts, lease_expires_at,
                   workerVars, envVars>>

\* Mutants of Claimable: a claim is handed out although its lease still runs;
\* a claim whose lease ended is not handed out again.
ClaimableInsideLease(i) ==
    \/ status[i] \in {"pending", "retry"} /\ available_at[i] <= clock
    \/ status[i] = "claimed"

ClaimableNeverReclaims(i) ==
    status[i] \in {"pending", "retry"} /\ available_at[i] <= clock

\* The WHERE clause of claim_next_work_item.
Claimable(i) ==
    \/ status[i] \in {"pending", "retry"} /\ available_at[i] <= clock
    \/ status[i] = "claimed" /\ lease_expires_at[i] <= clock

\* ORDER BY due_at, work_item_id LIMIT 1.
NextClaimable(i) ==
    /\ Claimable(i)
    /\ \A j \in Items : Claimable(j) => i <= j

\* Mutant of Claim: the lease ends when it begins.
ClaimWithoutLease(w, i) ==
    /\ pc[w] = "idle"
    /\ NextClaimable(i)
    /\ status' = [status EXCEPT ![i] = "claimed"]
    /\ claimed_by' = [claimed_by EXCEPT ![i] = w]
    /\ lease_expires_at' = [lease_expires_at EXCEPT ![i] = clock]
    /\ attempts' = [attempts EXCEPT ![i] = @ + 1]
    /\ pc' = [pc EXCEPT ![w] = "running"]
    /\ job' = [job EXCEPT ![w] = i]
    /\ started' = [started EXCEPT ![w] = clock]
    /\ UNCHANGED <<max_attempts, available_at, retryable, envVars>>

\* claim_next_work_item, the first call of run_once.
Claim(w, i) ==
    /\ pc[w] = "idle"
    /\ NextClaimable(i)
    /\ status' = [status EXCEPT ![i] = "claimed"]
    /\ claimed_by' = [claimed_by EXCEPT ![i] = w]
    /\ lease_expires_at' = [lease_expires_at EXCEPT ![i] = clock + LeaseSeconds]
    /\ attempts' = [attempts EXCEPT ![i] = @ + 1]
    /\ pc' = [pc EXCEPT ![w] = "running"]
    /\ job' = [job EXCEPT ![w] = i]
    /\ started' = [started EXCEPT ![w] = clock]
    /\ UNCHANGED <<max_attempts, available_at, retryable, envVars>>

\* run_once is left and its local variables are gone.
EndRun(w) ==
    /\ pc' = [pc EXCEPT ![w] = "idle"]
    /\ job' = [job EXCEPT ![w] = NoItem]
    /\ started' = [started EXCEPT ![w] = 0]
    /\ retryable' = [retryable EXCEPT ![w] = FALSE]

\* Mutant of Holds: any worker may report on a claimed row.
HoldsByStatusOnly(w) == status[job[w]] = "claimed"

\* The holder test that complete, fail and extend share.
Holds(w) ==
    /\ status[job[w]] = "claimed"
    /\ claimed_by[job[w]] = w

\* complete_work_item also refuses a lease that had ended at the frozen instant.
MayComplete(w) == Holds(w) /\ ~(lease_expires_at[job[w]] < started[w])

\* The run succeeded and complete_work_item accepts it; claimed_by stays set.
Complete(w) ==
    /\ pc[w] = "running"
    /\ MayComplete(w)
    /\ status' = [status EXCEPT ![job[w]] = "completed"]
    /\ lease_expires_at' = [lease_expires_at EXCEPT ![job[w]] = NoInstant]
    /\ EndRun(w)
    /\ UNCHANGED <<claimed_by, attempts, max_attempts, available_at, envVars>>

\* complete_work_item raises WorkItemClaimError, which run_once takes for a
\* retryable failure of the run.
CompleteRefused(w) ==
    /\ pc[w] = "running"
    /\ ~MayComplete(w)
    /\ pc' = [pc EXCEPT ![w] = "failing"]
    /\ retryable' = [retryable EXCEPT ![w] = TRUE]
    /\ UNCHANGED <<itemVars, job, started, envVars>>

\* Intake or orchestration raised: the exception type decides `retryable'.
RunFails(w, r) ==
    /\ pc[w] = "running"
    /\ pc' = [pc EXCEPT ![w] = "failing"]
    /\ retryable' = [retryable EXCEPT ![w] = r]
    /\ UNCHANGED <<itemVars, job, started, envVars>>

DeadLettered(w) ==
    ~retryable[w] \/ attempts[job[w]] >= max_attempts[job[w]]

\* fail_work_item by the holder.
FailWorkItem(w) ==
    /\ pc[w] = "failing"
    /\ Holds(w)
    /\ status' = [status EXCEPT ![job[w]] =
                    IF DeadLettered(w) THEN "dead_letter" ELSE "retry"]
    /\ available_at' = [available_at EXCEPT ![job[w]] = started[w] + RetryDelay]
    /\ lease_expires_at' = [lease_expires_at EXCEPT ![job[w]] = NoInstant]
    /\ claimed_by' = [claimed_by EXCEPT ![job[w]] = NoWorker]
    /\ EndRun(w)
    /\ UNCHANGED <<attempts, max_attempts, envVars>>

\* fail_work_item raises inside the handler; the process loop logs it.
FailRefused(w) ==
    /\ pc[w] = "failing"
    /\ ~Holds(w)
    /\ EndRun(w)
    /\ UNCHANGED <<itemVars, envVars>>

\* extend_work_item_lease; the ledger offers it, run_once never calls it.
ExtendLease(w) ==
    /\ pc[w] = "running"
    /\ Holds(w)
    /\ lease_expires_at' =
         [lease_expires_at EXCEPT ![job[w]] = clock + LeaseSeconds]
    /\ UNCHANGED <<status, claimed_by, attempts, max_attempts, available_at,
                   workerVars, envVars>>

(***************************************************************************)
(* The operator                                                            *)
(***************************************************************************)

\* retry_dead_letter with additional_attempts = k.
RetryDeadLetter(i, k) ==
    /\ manualRetries < MaxManualRetries
    /\ status[i] = "dead_letter"
    /\ status' = [status EXCEPT ![i] = "retry"]
    /\ max_attempts' = [max_attempts EXCEPT ![i] = @ + k]
    /\ available_at' = [available_at EXCEPT ![i] = clock]
    /\ manualRetries' = manualRetries + 1
    /\ UNCHANGED <<claimed_by, attempts, lease_expires_at, workerVars, clock,
                   crashes>>

\* Mutants of Cancel: completed work can be cancelled; the row gets a status
\* nobody else knows.
CancelCompleted(i) ==
    /\ status[i] \notin {"absent", "cancelled"}
    /\ status' = [status EXCEPT ![i] = "cancelled"]
    /\ lease_expires_at' = [lease_expires_at EXCEPT ![i] = NoInstant]
    /\ claimed_by' = [claimed_by EXCEPT ![i] = NoWorker]
    /\ UNCHANGED <<attempts, max_attempts, available_at, workerVars, envVars>>

CancelUnknownStatus(i) ==
    /\ status[i] \notin {"absent", "completed", "cancelled"}
    /\ status' = [status EXCEPT ![i] = "canceled"]
    /\ lease_expires_at' = [lease_expires_at EXCEPT ![i] = NoInstant]
    /\ claimed_by' = [claimed_by EXCEPT ![i] = NoWorker]
    /\ UNCHANGED <<attempts, max_attempts, available_at, workerVars, envVars>>

\* cancel_work_item: anything unfinished, claimed work included.
Cancel(i) ==
    /\ status[i] \notin {"absent", "completed", "cancelled"}
    /\ status' = [status EXCEPT ![i] = "cancelled"]
    /\ lease_expires_at' = [lease_expires_at EXCEPT ![i] = NoInstant]
    /\ claimed_by' = [claimed_by EXCEPT ![i] = NoWorker]
    /\ UNCHANGED <<attempts, max_attempts, available_at, workerVars, envVars>>

(***************************************************************************)
(* The environment                                                         *)
(***************************************************************************)

\* The process is lost; its successor starts idle under the same worker id.
Crash(w) ==
    /\ crashes < MaxCrashes
    /\ pc[w] # "idle"
    /\ EndRun(w)
    /\ crashes' = crashes + 1
    /\ UNCHANGED <<itemVars, clock, manualRetries>>

Tick ==
    /\ clock < MaxClock
    /\ clock' = clock + 1
    /\ UNCHANGED <<itemVars, workerVars, crashes, manualRetries>>

ClaimNext(w) == \E i \in Items : Claim(w, i)

RunEnds(w) ==
    \/ Complete(w)
    \/ CompleteRefused(w)
    \/ \E r \in BOOLEAN : RunFails(w, r)

Failing(w) == FailWorkItem(w) \/ FailRefused(w)

Next ==
    \/ \E i \in Items : Enqueue(i) \/ Cancel(i)
    \/ \E i \in Items, k \in 1..2 : RetryDeadLetter(i, k)
    \/ \E w \in Workers :
         \/ ClaimNext(w)
         \/ RunEnds(w)
         \/ Failing(w)
         \/ ExtendLease(w)
         \/ Crash(w)
    \/ Tick

Spec == Init /\ [][Next]_vars

(***************************************************************************)
(* Fairness: time passes, a polling worker keeps polling, every run ends   *)
(* (provider calls time out) and the exception handler runs.  Operators    *)
(* and crashes are not fair.                                               *)
(***************************************************************************)
Fairness ==
    /\ WF_vars(Tick)
    /\ \A w \in Workers :
         /\ WF_vars(ClaimNext(w))
         /\ WF_vars(RunEnds(w))
         /\ WF_vars(Failing(w))

LiveSpec == Spec /\ Fairness

(***************************************************************************)
(* Properties                                                              *)
(***************************************************************************)

Busy(w) == pc[w] # "idle"

\* The row is consistent in every state: a claim always carries a holder and
\* an end of lease, so a lost worker can never leave work that nobody may
\* take; a row that is not claimed carries no lease, and outside `completed'
\* no holder.
ClaimCanLapse ==
    \A i \in Items :
        /\ status[i] = "claimed" => /\ claimed_by[i] \in Workers
                                    /\ lease_expires_at[i] # NoInstant
        /\ status[i] # "claimed" => lease_expires_at[i] = NoInstant
        /\ status[i] \notin {"claimed", "completed"} => claimed_by[i] = NoWorker

\* Until its lease ends, a running worker loses its work to nobody but the
\* operator: a second worker can enter the same item only after the lease
\* granted by claim_next_work_item has run out.
LeaseProtects ==
    \A w \in Workers :
        Busy(w) /\ clock < started[w] + LeaseSeconds
            => Holds(w) \/ status[job[w]] = "cancelled"

\* The expiry test of complete_work_item compares the lease with the instant
\* at which the claim was made, so for a holder it never refuses: what keeps
\* a late worker from completing is only that its row was taken over.
FrozenClockNeverExpires ==
    \A w \in Workers : Busy(w) /\ Holds(w) => started[w] < lease_expires_at[job[w]]

\* If this step ends the claim on row i, it is the operator's cancellation,
\* the next claim after the lease ended, or the end of the holder's own run.
ClaimEndsRightly(i) ==
    status[i] = "claimed" /\ (status'[i] # "claimed" \/ claimed_by'[i] # claimed_by[i])
      => \/ status'[i] = "cancelled"
         \/ status'[i] = "claimed" /\ lease_expires_at[i] <= clock
         \/ \E w \in Workers : /\ w = claimed_by[i]
                               /\ Busy(w) /\ job[w] = i
                               /\ pc'[w] = "idle"

\* A worker that was overtaken, or whose item was cancelled, changes no row:
\* a row leaves `claimed' only by a step of its holder, of the operator, or
\* of the next claimer after the lease ended.
OnlyHolderOrOperatorEndsClaim == [][\A i \in Items : ClaimEndsRightly(i)]_vars

\* This step revives row i only as an operator may.
StaysFinal(i) ==
    /\ status[i] \in {"completed", "cancelled"} => status'[i] = status[i]
    /\ status[i] = "dead_letter" /\ status'[i] # "dead_letter"
         => status'[i] \in {"retry", "cancelled"} /\ UNCHANGED workerVars

\* Completed and cancelled work is never revived, and dead-letter work leaves
\* that status only through the operator (retry or cancel), whatever late
\* workers still try to write.
FinalStatusIsFinal == [][\A i \in Items : StaysFinal(i)]_vars

\* "Recoverable work can retry; exhausted or permanent work is dead-lettered":
\* no item is handed out more often than its max_attempts. The code does not
\* keep this: a lapsed claim is handed out without a look at the budget.
AttemptsWithinBudget == \A i \in Items : attempts[i] <= max_attempts[i]

Settled(i) == status[i] \in {"completed", "dead_letter", "cancelled"}

\* What the clock bound leaves undecided: the item waits for an instant that
\* lies beyond the last tick, and nobody works on it.
PastHorizon(i) ==
    /\ \A w \in Workers : job[w] # i
    /\ \/ status[i] \in {"pending", "retry"} /\ available_at[i] > MaxClock
       \/ status[i] = "claimed" /\ lease_expires_at[i] > MaxClock

\* Every enqueued item is eventually completed, dead-lettered or cancelled,
\* although its workers may be lost or overrun their lease and their late
\* reports are refused.
EveryItemSettles ==
    \A i \in Items : status[i] # "absent" ~> Settled(i) \/ PastHorizon(i)
=============================================================================
