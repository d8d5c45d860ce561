--------------------------- MODULE WorkQueueProofs ---------------------------
(***************************************************************************)
(* The safety properties of the work queue, for any set of items and of    *)
(* workers, any lease, retry delay and attempt budget, and any number of   *)
(* crashes, retries and clock ticks.                                       *)
(***************************************************************************)
EXTENDS WorkQueue, TLAPS

\* What a worker inside run_once knows of the row it works on.  The lease of a
\* row it still holds lasts at least LeaseSeconds from its own claim, so the
\* row can only be taken from it afterwards; before that only a cancellation
\* ends the claim.
Knows(w) ==
    Busy(w) =>
        /\ job[w] \in Items
        /\ started[w] <= clock
        /\ Holds(w) => started[w] + LeaseSeconds <= lease_expires_at[job[w]]
        /\ \/ Holds(w)
           \/ status[job[w]] = "cancelled"
           \/ started[w] + LeaseSeconds <= clock

WorkerInv == \A w \in Workers : Knows(w)

IInv == TypeOK /\ ClaimCanLapse /\ WorkerInv

-----------------------------------------------------------------------------
\* The initial state satisfies the inductive invariant.
LEMMA InitIInv == Init => IInv
  BY WorkQueueConstants DEF Init, IInv, TypeOK, ClaimCanLapse, WorkerInv, Knows, Busy,
     Holds, Statuses, NoInstant

\* Every step keeps the columns and the worker variables in their types.
LEMMA TypeStep == TypeOK /\ WorkerInv /\ [Next]_vars => TypeOK'
<1> SUFFICES ASSUME TypeOK, WorkerInv, [Next]_vars PROVE TypeOK'
  OBVIOUS
<1> USE WorkQueueConstants DEF TypeOK, Statuses, NoInstant
<1>1. ASSUME NEW i \in Items, Enqueue(i) PROVE TypeOK'
  BY <1>1 DEF Enqueue, workerVars, envVars
<1>2. ASSUME NEW i \in Items, Cancel(i) PROVE TypeOK'
  BY <1>2 DEF Cancel, workerVars, envVars
<1>3. ASSUME NEW i \in Items, NEW k \in 1..2, RetryDeadLetter(i, k) PROVE TypeOK'
  BY <1>3 DEF RetryDeadLetter, workerVars
<1>4. ASSUME NEW w \in Workers, NEW i \in Items, Claim(w, i) PROVE TypeOK'
  BY <1>4 DEF Claim, envVars
<1>5. ASSUME NEW w \in Workers, Complete(w) PROVE TypeOK'
  BY <1>5 DEF Complete, EndRun, envVars
<1>6. ASSUME NEW w \in Workers, CompleteRefused(w) PROVE TypeOK'
  BY <1>6 DEF CompleteRefused, itemVars, envVars
<1>7. ASSUME NEW w \in Workers, NEW r \in BOOLEAN, RunFails(w, r) PROVE TypeOK'
  BY <1>7 DEF RunFails, itemVars, envVars
<1>8. ASSUME NEW w \in Workers, FailWorkItem(w) PROVE TypeOK'
  <2>1. (IF DeadLettered(w) THEN "dead_letter" ELSE "retry") \in Statuses
    OBVIOUS
  <2>2. started[w] + RetryDelay \in Nat
    OBVIOUS
  <2>. QED
    BY <1>8, <2>1, <2>2 DEF FailWorkItem, EndRun, envVars
<1>9. ASSUME NEW w \in Workers, FailRefused(w) PROVE TypeOK'
  BY <1>9 DEF FailRefused, EndRun, itemVars, envVars
<1>10. ASSUME NEW w \in Workers, ExtendLease(w) PROVE TypeOK'
  <2>1. clock + LeaseSeconds \in Nat
    OBVIOUS
  <2>. QED
    BY <1>10, <2>1 DEF ExtendLease, workerVars, envVars
<1>11. ASSUME NEW w \in Workers, Crash(w) PROVE TypeOK'
  BY <1>11 DEF Crash, EndRun, itemVars
<1>12. CASE Tick
  BY <1>12 DEF Tick, itemVars, workerVars
<1>13. CASE UNCHANGED vars
  BY <1>13 DEF vars, itemVars, workerVars, envVars
<1>. QED
  BY <1>1, <1>2, <1>3, <1>4, <1>5, <1>6, <1>7, <1>8, <1>9, <1>10, <1>11,
     <1>12, <1>13 DEF Next, ClaimNext, RunEnds, Failing

\* Every step keeps the rows consistent: a claim carries its holder and the end
\* of its lease.
LEMMA ClaimStep == IInv /\ [Next]_vars => ClaimCanLapse'
<1> SUFFICES ASSUME IInv, [Next]_vars PROVE ClaimCanLapse'
  OBVIOUS
<1> USE WorkQueueConstants DEF IInv, TypeOK, ClaimCanLapse, NoInstant
<1>1. ASSUME NEW i \in Items, Enqueue(i) PROVE ClaimCanLapse'
  BY <1>1 DEF Enqueue
<1>2. ASSUME NEW i \in Items, Cancel(i) PROVE ClaimCanLapse'
  BY <1>2 DEF Cancel
<1>3. ASSUME NEW i \in Items, NEW k \in 1..2, RetryDeadLetter(i, k)
      PROVE ClaimCanLapse'
  BY <1>3 DEF RetryDeadLetter
<1>4. ASSUME NEW w \in Workers, NEW i \in Items, Claim(w, i)
      PROVE ClaimCanLapse'
  <2>1. clock + LeaseSeconds # 0
    OBVIOUS
  <2>. QED
    BY <1>4, <2>1 DEF Claim
<1>5. ASSUME NEW w \in Workers, Complete(w) PROVE ClaimCanLapse'
  BY <1>5 DEF Complete, MayComplete, Holds
<1>6. ASSUME NEW w \in Workers, FailWorkItem(w) PROVE ClaimCanLapse'
  BY <1>6 DEF FailWorkItem, Holds
<1>7. ASSUME NEW w \in Workers, ExtendLease(w) PROVE ClaimCanLapse'
  <2>1. clock + LeaseSeconds # 0
    OBVIOUS
  <2>. QED
    BY <1>7, <2>1 DEF ExtendLease, Holds
<1>8. CASE UNCHANGED itemVars
  BY <1>8 DEF itemVars
<1>9. ASSUME NEW w \in Workers,
             CompleteRefused(w) \/ (\E r \in BOOLEAN : RunFails(w, r))
               \/ FailRefused(w) \/ Crash(w)
      PROVE ClaimCanLapse'
  BY <1>8, <1>9 DEF CompleteRefused, RunFails, FailRefused, Crash
<1>10. CASE Tick \/ UNCHANGED vars
  BY <1>8, <1>10 DEF Tick, vars
<1>. QED
  BY <1>1, <1>2, <1>3, <1>4, <1>5, <1>6, <1>7, <1>9, <1>10
     DEF Next, ClaimNext, RunEnds, Failing

-----------------------------------------------------------------------------
\* Every step keeps what the workers know of their rows.
LEMMA WorkerStep == IInv /\ [Next]_vars => WorkerInv'
<1> SUFFICES ASSUME IInv, [Next]_vars, NEW v \in Workers PROVE Knows(v)'
  BY DEF WorkerInv
<1>0. Knows(v)
  BY DEF IInv, WorkerInv
<1> USE <1>0, WorkQueueConstants
        DEF IInv, TypeOK, Knows, Busy, Holds, NoInstant
<1>1. ASSUME NEW i \in Items, Enqueue(i) PROVE Knows(v)'
  BY <1>1 DEF Enqueue, workerVars, envVars
<1>2. ASSUME NEW i \in Items, Cancel(i) PROVE Knows(v)'
  BY <1>2 DEF Cancel, workerVars, envVars
<1>3. ASSUME NEW i \in Items, NEW k \in 1..2, RetryDeadLetter(i, k)
      PROVE Knows(v)'
  BY <1>3 DEF RetryDeadLetter, workerVars
<1>4. ASSUME NEW w \in Workers, NEW i \in Items, Claim(w, i) PROVE Knows(v)'
  <2>1. CASE v = w
    BY <1>4, <2>1 DEF Claim, envVars
  <2>2. CASE v # w
    <3>1. UNCHANGED <<pc[v], job[v], started[v], clock>>
      BY <1>4, <2>2 DEF Claim, envVars
    <3>2. CASE Busy(v) /\ job[v] = i
      <4>1. Holds(v) => lease_expires_at[i] <= clock
        BY <1>4, <3>2 DEF Claim, NextClaimable, Claimable
      <4>2. status[i] # "cancelled"
        BY <1>4 DEF Claim, NextClaimable, Claimable
      <4>3. started[v] + LeaseSeconds <= clock
        BY <3>2, <4>1, <4>2
      <4>4. ~Holds(v)'
        BY <1>4, <2>2, <3>1, <3>2 DEF Claim
      <4>. QED
        BY <3>1, <3>2, <4>3, <4>4
    <3>3. CASE Busy(v) /\ job[v] # i
      BY <1>4, <3>1, <3>3 DEF Claim
    <3>. QED
      BY <3>1, <3>2, <3>3
  <2>. QED
    BY <2>1, <2>2
<1>5. ASSUME NEW w \in Workers, Complete(w) PROVE Knows(v)'
  BY <1>5 DEF Complete, MayComplete, EndRun, envVars
<1>6. ASSUME NEW w \in Workers, CompleteRefused(w) PROVE Knows(v)'
  BY <1>6 DEF CompleteRefused, itemVars, envVars
<1>7. ASSUME NEW w \in Workers, NEW r \in BOOLEAN, RunFails(w, r)
      PROVE Knows(v)'
  BY <1>7 DEF RunFails, itemVars, envVars
<1>8. ASSUME NEW w \in Workers, FailWorkItem(w) PROVE Knows(v)'
  BY <1>8 DEF FailWorkItem, EndRun, envVars
<1>9. ASSUME NEW w \in Workers, FailRefused(w) PROVE Knows(v)'
  BY <1>9 DEF FailRefused, EndRun, itemVars, envVars
<1>10. ASSUME NEW w \in Workers, ExtendLease(w) PROVE Knows(v)'
  BY <1>10 DEF ExtendLease, workerVars, envVars
<1>11. ASSUME NEW w \in Workers, Crash(w) PROVE Knows(v)'
  BY <1>11 DEF Crash, EndRun, itemVars
<1>12. CASE Tick
  BY <1>12 DEF Tick, itemVars, workerVars
<1>13. CASE UNCHANGED vars
  BY <1>13 DEF vars, itemVars, workerVars, envVars
<1>. QED
  BY <1>1, <1>2, <1>3, <1>4, <1>5, <1>6, <1>7, <1>8, <1>9, <1>10, <1>11,
     <1>12, <1>13 DEF Next, ClaimNext, RunEnds, Failing

\* The invariant is inductive.
LEMMA NextIInv == IInv /\ [Next]_vars => IInv'
  BY TypeStep, ClaimStep, WorkerStep DEF IInv

\* IInv holds in every reachable state of the queue.
THEOREM Invariance == Spec => []IInv
<1>. QED
  BY InitIInv, NextIInv, PTL DEF Spec

-----------------------------------------------------------------------------
\* Type correctness of rows, workers and clock.
THEOREM TypeCorrect == Spec => []TypeOK
<1>1. IInv => TypeOK
  BY DEF IInv
<1>. QED
  BY Invariance, <1>1, PTL

\* Work never gets lost in a claim: whoever claimed it, the row names a holder
\* and an instant after which claim_next_work_item hands it out again.
THEOREM ClaimsLapse == Spec => []ClaimCanLapse
<1>1. IInv => ClaimCanLapse
  BY DEF IInv
<1>. QED
  BY Invariance, <1>1, PTL

\* Two workers never work on one item inside the lease of the first.
THEOREM LeaseIsExclusive == Spec => []LeaseProtects
<1>1. IInv => LeaseProtects
  BY WorkQueueConstants DEF IInv, TypeOK, WorkerInv, Knows, LeaseProtects
<1>. QED
  BY Invariance, <1>1, PTL

\* The expiry test of complete_work_item never refuses a holder.
THEOREM ExpiryTestIsVacuous == Spec => []FrozenClockNeverExpires
<1>1. IInv => FrozenClockNeverExpires
  <2>. SUFFICES ASSUME IInv, NEW w \in Workers, Busy(w), Holds(w)
                PROVE started[w] < lease_expires_at[job[w]]
    BY DEF FrozenClockNeverExpires
  <2>1. /\ job[w] \in Items
        /\ started[w] + LeaseSeconds <= lease_expires_at[job[w]]
    BY DEF IInv, WorkerInv, Knows
  <2>2. started[w] \in Nat /\ lease_expires_at[job[w]] \in Nat
    BY <2>1 DEF IInv, TypeOK
  <2>. QED
    BY <2>1, <2>2, WorkQueueConstants
<1>. QED
  BY Invariance, <1>1, PTL

\* An overtaken worker changes no row: only the holder, the operator, or the
\* next claimer after the lease ends a claim.
THEOREM LateWorkersAreHarmless == Spec => OnlyHolderOrOperatorEndsClaim
<1>1. ASSUME IInv, [Next]_vars, NEW i \in Items PROVE ClaimEndsRightly(i)
  <2> USE <1>1 DEF IInv, TypeOK, ClaimEndsRightly
  <2>1. ASSUME NEW j \in Items, Enqueue(j) PROVE ClaimEndsRightly(i)
    BY <2>1 DEF Enqueue
  <2>2. ASSUME NEW j \in Items, Cancel(j) PROVE ClaimEndsRightly(i)
    BY <2>2 DEF Cancel
  <2>3. ASSUME NEW j \in Items, NEW k \in 1..2, RetryDeadLetter(j, k)
        PROVE ClaimEndsRightly(i)
    BY <2>3 DEF RetryDeadLetter
  <2>4. ASSUME NEW w \in Workers, NEW j \in Items, Claim(w, j)
        PROVE ClaimEndsRightly(i)
    BY <2>4 DEF Claim, NextClaimable, Claimable
  <2>5. ASSUME NEW w \in Workers, Complete(w) PROVE ClaimEndsRightly(i)
    BY <2>5 DEF Complete, MayComplete, Holds, EndRun, Busy
  <2>6. ASSUME NEW w \in Workers, FailWorkItem(w) PROVE ClaimEndsRightly(i)
    BY <2>6 DEF FailWorkItem, Holds, EndRun, Busy
  <2>7. CASE UNCHANGED <<status, claimed_by>>
    BY <2>7
  <2>8. ASSUME NEW w \in Workers,
               CompleteRefused(w) \/ (\E r \in BOOLEAN : RunFails(w, r))
                 \/ FailRefused(w) \/ ExtendLease(w) \/ Crash(w)
        PROVE ClaimEndsRightly(i)
    BY <2>7, <2>8 DEF CompleteRefused, RunFails, FailRefused, ExtendLease,
                      Crash, itemVars
  <2>9. CASE Tick \/ UNCHANGED vars
    BY <2>7, <2>9 DEF Tick, vars, itemVars
  <2>. QED
    BY <2>1, <2>2, <2>3, <2>4, <2>5, <2>6, <2>8, <2>9
       DEF Next, ClaimNext, RunEnds, Failing
<1>2. IInv /\ [Next]_vars => [\A i \in Items : ClaimEndsRightly(i)]_vars
  BY <1>1
<1>. QED
  BY Invariance, <1>2, PTL DEF Spec, OnlyHolderOrOperatorEndsClaim

\* No late report of a worker revives finished, cancelled or dead-letter work.
THEOREM FinalWorkStaysFinal == Spec => FinalStatusIsFinal
<1>1. ASSUME IInv, [Next]_vars, NEW i \in Items PROVE StaysFinal(i)
  <2> USE <1>1 DEF IInv, TypeOK, StaysFinal
  <2>1. ASSUME NEW j \in Items, Enqueue(j) PROVE StaysFinal(i)
    BY <2>1 DEF Enqueue
  <2>2. ASSUME NEW j \in Items, Cancel(j) PROVE StaysFinal(i)
    BY <2>2 DEF Cancel
  <2>3. ASSUME NEW j \in Items, NEW k \in 1..2, RetryDeadLetter(j, k)
        PROVE StaysFinal(i)
    BY <2>3 DEF RetryDeadLetter
  <2>4. ASSUME NEW w \in Workers, NEW j \in Items, Claim(w, j)
        PROVE StaysFinal(i)
    BY <2>4 DEF Claim, NextClaimable, Claimable
  <2>5. ASSUME NEW w \in Workers, Complete(w) \/ FailWorkItem(w)
        PROVE StaysFinal(i)
    BY <2>5 DEF Complete, FailWorkItem, MayComplete, Holds
  <2>6. CASE UNCHANGED status
    BY <2>6
  <2>7. ASSUME NEW w \in Workers,
               CompleteRefused(w) \/ (\E r \in BOOLEAN : RunFails(w, r))
                 \/ FailRefused(w) \/ ExtendLease(w) \/ Crash(w)
        PROVE StaysFinal(i)
    BY <2>6, <2>7 DEF CompleteRefused, RunFails, FailRefused, ExtendLease,
                      Crash, itemVars
  <2>8. CASE Tick \/ UNCHANGED vars
    BY <2>6, <2>8 DEF Tick, vars, itemVars
  <2>. QED
    BY <2>1, <2>2, <2>3, <2>4, <2>5, <2>7, <2>8
       DEF Next, ClaimNext, RunEnds, Failing
<1>2. IInv /\ [Next]_vars => [\A i \in Items : StaysFinal(i)]_vars
  BY <1>1
<1>. QED
  BY Invariance, <1>2, PTL DEF Spec, FinalStatusIsFinal
=============================================================================
