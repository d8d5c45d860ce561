--------------------------- MODULE Phase8SafetyProofs ---------------------------
(***************************************************************************)
(* The pilot boundary holds for any number of processes, cases and stages, *)
(* any routes and budgets, and any number of lost, restarted and revoked   *)
(* processes.                                                              *)
(***************************************************************************)
EXTENDS Phase8Safety, FiniteSets, FiniteSetTheorems, TLAPS

\* A process between the guard of its retry loop and the result of an attempt.
Attempting == {"guard", "reserve", "call", "waiting", "settle", "recheck"}

\* A process that may still settle the pending attempt.
Holding(p) == pc[p] \in {"call", "waiting", "settle"}

\* A process at work has an approval, and a process that runs a case has a case.
CaseInHand(p) ==
    /\ pc[p] # "idle" => approval[p] \in GateSet
    /\ pc[p] \in Attempting \cup {"case", "violate", "unwind", "closing", "close"} => case[p] \in Cases

\* What the retry loop knows of the attempt in hand.  An attempt whose
\* settlement raised on the path of a success is settled again, so its telemetry
\* is remembered until the loop has ended.
AttemptInHand(p) ==
    /\ pc[p] \in Attempting => case[p] \in EligibleCases /\ stage[p] \in Stages
    /\ status[p] = "succeeded" => /\ pc[p] \in {"settle", "recheck", "violate"}
                                  /\ case[p] \in EligibleCases /\ stage[p] \in Stages
    /\ pc[p] = "settle" \/ status[p] = "succeeded" => usage[p]["attempts"] = 1

LocalInv == \A p \in Processes : CaseInHand(p) /\ AttemptInHand(p)

\* Up to the revocation a process that may settle an attempt is alone, the
\* attempt is the pending one, of an open case of the active batch.
Serial ==
    ~revoked => \A p \in Processes :
        Holding(p) => /\ reservation = Id(p)
                      /\ gate = approval[p]
                      /\ ~batch_completed
                      /\ ~completed[case[p]]
                      /\ \A q \in Processes : Holding(q) => q = p

\* Nothing is pending before the first activation.
IdleUntilActive == gate = None => reservation = None

Callers == {p \in Processes : pc[p] = "call"}

\* Every request made and every request a process may yet make without asking
\* again is covered by a settled attempt or by the pending one.
Covered ==
    /\ IsFiniteSet(Callers)
    /\ calls + Cardinality(Callers) <= phase_used["attempts"] + (IF reservation = None THEN 0 ELSE 1)

\* A process that may still make a request after the revocation has made none.
LateOK(p) ==
    /\ late[p] <= 1
    /\ ~revoked \/ pc[p] \in {"reserve", "call"} => late[p] = 0

LateInv == \A p \in Processes : LateOK(p)

\* A completed canary is complete, valid and remembered.
CanaryInv ==
    /\ \A c \in Cases : completed[c] => c \in phase_completed
    /\ batch_completed /\ gate = Gates[1]
         => /\ \A c \in Approved(Gates[1]) : completed[c]
            /\ \A c \in Eligible[Gates[1]] : valid_result[c]

IInv ==
    /\ TypeOK /\ LocalInv
    /\ IdleUntilActive /\ Serial /\ BudgetsHold /\ Covered /\ LateInv /\ CanaryInv

-----------------------------------------------------------------------------
\* The caps, the reservations and what is used are amounts.
LEMMA Arithmetic ==
    /\ NoUsage \in Amounts /\ OneAttempt \in Amounts /\ OneAttempt["attempts"] = 1
    /\ \A a, b \in Amounts : Plus(a, b) \in Amounts
    /\ \A s \in Stages : Reserved[s] \in Amounts
    /\ \A g \in GateSet : BatchCap[g] \in Amounts
    /\ EligibleCases \subseteq Cases
<1>1. NoUsage \in Amounts
  BY DEF NoUsage, Amounts
<1>2. OneAttempt \in Amounts /\ OneAttempt["attempts"] = 1
  BY DEF OneAttempt, NoUsage, Amounts, Meters
<1>3. \A a, b \in Amounts : Plus(a, b) \in Amounts
  BY DEF Plus, Amounts
<1>4. /\ \A s \in Stages : Reserved[s] \in Amounts
      /\ \A g \in GateSet : BatchCap[g] \in Amounts
  BY Phase8Constants
<1>5. EligibleCases \subseteq Cases
  BY DEF EligibleCases, Cases, Approved
<1>. QED
  BY <1>1, <1>2, <1>3, <1>4, <1>5

\* The initial state satisfies the inductive invariant.
LEMMA InitIInv == Init => IInv
<1> SUFFICES ASSUME Init PROVE IInv
  OBVIOUS
<1>0. NoUsage \in Amounts /\ NoUsage["attempts"] = 0
  BY Arithmetic DEF NoUsage, Meters
<1>1. TypeOK
  <2>1. << >> \in Seq(Stages)
    OBVIOUS
  <2>. QED
    BY <1>0, <2>1 DEF Init, TypeOK, Steps
<1>2. LocalInv
  BY Phase8Constants DEF Init, LocalInv, CaseInHand, AttemptInHand, Attempting, Outcomes
<1>3. IdleUntilActive /\ Serial
  BY DEF Init, IdleUntilActive, Serial, Holding
<1>4. BudgetsHold
  <2>1. \A c \in EligibleCases : case_used[c] = NoUsage /\ RouteCost[c] \in Nat
    BY Arithmetic, Phase8Constants DEF Init
  <2>2. \A m \in Meters : PhaseCap[m] \in Nat
    BY Phase8Constants DEF Amounts
  <2>3. phase_used = NoUsage /\ Pending = NoUsage /\ reservation = None /\ gate = None
    BY DEF Init, Pending
  <2>4. Within(Plus(phase_used, Pending), PhaseCap)
    BY <2>2, <2>3 DEF Within, Plus, NoUsage
  <2>5. \A c \in EligibleCases : case_used[c]["cost"] = 0
    BY <2>1 DEF NoUsage, Meters
  <2>. QED
    BY <2>1, <2>3, <2>4, <2>5 DEF BudgetsHold
<1>5. LateInv
  <2>1. late = [p \in Processes |-> 0]
    BY DEF Init
  <2>2. ASSUME NEW p \in Processes
        PROVE  LateOK(p)
    BY <2>1 DEF LateOK
  <2>. QED
    BY <2>2 DEF LateInv
<1>6. CanaryInv
  BY DEF CanaryInv, Init
<1>7. Covered
  <2>1. Callers = {}
    BY DEF Callers, Init
  <2>2. calls = 0 /\ phase_used["attempts"] = 0 /\ reservation = None
    BY <1>0 DEF Init
  <2>. QED
    BY <2>1, <2>2, FS_EmptySet DEF Covered
<1>. QED
  BY <1>1, <1>2, <1>3, <1>4, <1>5, <1>6, <1>7 DEF IInv

-----------------------------------------------------------------------------
\* What a step does, by the parts of the state it may change.

\* A step of a process that leaves the runtime-state file alone.
Quiet(p) ==
    \/ \E g \in GateSet : Prepare(p, g)
    \/ ActivateRefused(p)
    \/ \E c \in Cases : RunCase(p, c)
    \/ \E s \in Stages, n \in Numbers : Review(p, s, n)
    \/ Guard(p) \/ CallDiffers(p)
    \/ ReserveRefused(p)
    \/ Invoke(p)
    \/ /\ pc[p] = "waiting"
       /\ \E o \in Outcomes, u \in Usages[stage[p]] \cup {OneAttempt} : Answer(p, o, u)
    \/ TelemetryUnsound(p) \/ SettleRefused(p)
    \/ Recheck(p)
    \/ Violate(p)
    \/ \E valid \in BOOLEAN : Conclude(p, valid)
    \/ ControlDiffers(p) \/ CaseFails(p) \/ Unwind(p)
    \/ Closing(p) \/ CloseRefused(p)
    \/ FinishBatch(p) \/ FinishRefused(p)
    \/ Revoke(p) \/ Stop(p)

\* A step of a process that may write the runtime-state file.
Writes(p) ==
    \/ Activate(p)
    \/ ReserveAttempt(p)
    \/ Settle(p)
    \/ Close(p)
    \/ \E review \in Reviews : Finish(p, review)

World == (\E g \in GateSet : Expire(g)) \/ (\E c \in Cases : RunsLate(c))

\* Every step is a quiet one, a write, or one of the outside world.
LEMMA NextCases ==
    Next => (\E p \in Processes : Quiet(p) \/ Writes(p)) \/ World
  BY DEF Next, Attempt, Quiet, Writes, World

\* A quiet step changes the file in no respect, and of the processes only p.
LEMMA QuietFrame ==
    ASSUME NEW p \in Processes, Quiet(p)
    PROVE  UNCHANGED stateVars
<1> USE DEF stateVars, ledgerVars, accountVars
<1>1. CASE \E g \in GateSet : Prepare(p, g)
  BY <1>1 DEF Prepare
<1>2. CASE ActivateRefused(p) \/ (\E c \in Cases : RunCase(p, c))
  BY <1>2 DEF ActivateRefused, RunCase
<1>3. CASE \E s \in Stages, n \in Numbers : Review(p, s, n)
  BY <1>3 DEF Review
<1>4. CASE Guard(p) \/ CallDiffers(p) \/ ReserveRefused(p) \/ Invoke(p)
  BY <1>4 DEF Guard, CallDiffers, ReserveRefused, Invoke
<1>5. CASE \E o \in Outcomes, u \in Usages[stage[p]] \cup {OneAttempt} : Answer(p, o, u)
  BY <1>5 DEF Answer
<1>6. CASE TelemetryUnsound(p) \/ SettleRefused(p) \/ Recheck(p) \/ Violate(p)
  BY <1>6 DEF TelemetryUnsound, SettleRefused, Recheck, Violate
<1>7. CASE (\E valid \in BOOLEAN : Conclude(p, valid)) \/ ControlDiffers(p) \/ CaseFails(p) \/ Unwind(p)
  BY <1>7 DEF Conclude, ControlDiffers, CaseFails, Unwind
<1>8. CASE Closing(p) \/ CloseRefused(p) \/ FinishBatch(p) \/ FinishRefused(p) \/ Revoke(p) \/ Stop(p)
  BY <1>8 DEF Closing, CloseRefused, FinishBatch, FinishRefused, Revoke, Stop
<1>. QED
  BY <1>1, <1>2, <1>3, <1>4, <1>5, <1>6, <1>7, <1>8 DEF Quiet

-----------------------------------------------------------------------------
\* The types of the processes' variables.
LocalTypes ==
    /\ pc \in [Processes -> Steps]
    /\ approval \in [Processes -> GateSet \cup {None}]
    /\ case \in [Processes -> Cases \cup {None}]
    /\ stage \in [Processes -> Stages \cup {None}]
    /\ number \in [Processes -> Nat]
    /\ left \in [Processes -> Nat]
    /\ status \in [Processes -> Outcomes \cup {None}]
    /\ usage \in [Processes -> Amounts]
    /\ verdict \in [Processes -> BOOLEAN]

\* The types of the shared files.
FileTypes ==
    /\ gate \in GateSet \cup {None}
    /\ batch_completed \in BOOLEAN
    /\ gate_review \in Reviews \cup {None}
    /\ phase_used \in Amounts
    /\ batch_used \in Amounts
    /\ invalid_outputs \in Nat
    /\ failed_cases \in Nat
    /\ phase_completed \subseteq Cases
    /\ started \in [Cases -> BOOLEAN]
    /\ stage_ids \in [Cases -> Seq(Stages)]
    /\ case_used \in [Cases -> Amounts]
    /\ completed \in [Cases -> BOOLEAN]
    /\ valid_result \in [Cases -> BOOLEAN]
    /\ reservation \in (EligibleCases \X Stages \X Nat) \cup {None}

WorldTypes ==
    /\ revoked \in BOOLEAN
    /\ expired \subseteq GateSet
    /\ overtime \subseteq Cases
    /\ calls \in Nat
    /\ late \in [Processes -> Nat]
\* The type invariant, by who owns the variable.
LEMMA TypeParts == TypeOK <=> LocalTypes /\ FileTypes /\ WorldTypes
  BY DEF TypeOK, LocalTypes, FileTypes, WorldTypes

\* A process that resets itself, or goes elsewhere, keeps the types.
LEMMA MoveTypes ==
    ASSUME LocalTypes, NEW p \in Processes, NEW step \in Steps
    PROVE  /\ GoTo(p, step) => LocalTypes'
           /\ \A g \in GateSet \cup {None} : ResetTo(p, step, g) => LocalTypes'
           /\ LeaveCase(p) => LocalTypes'
<1>0. NoUsage \in Amounts /\ approval[p] \in GateSet \cup {None} /\ "ready" \in Steps
  BY Arithmetic DEF LocalTypes, Steps
<1>1. GoTo(p, step) => LocalTypes'
  BY DEF GoTo, localVars, LocalTypes
<1>2. ASSUME NEW s \in Steps, NEW g \in GateSet \cup {None}, ResetTo(p, s, g)
      PROVE  LocalTypes'
  BY <1>0, <1>2 DEF ResetTo, LocalTypes
<1>. QED
  BY <1>0, <1>1, <1>2 DEF LeaveCase
\* Every step of a process keeps the types of the processes' variables.
LEMMA LocalTypeStep ==
    ASSUME IInv, NEW p \in Processes, Quiet(p) \/ Writes(p)
    PROVE  LocalTypes'
<1> LocalTypes /\ CaseInHand(p) /\ AttemptInHand(p)
  BY TypeParts DEF IInv, LocalInv
<1>0. /\ None \in GateSet \cup {None} /\ approval[p] \in GateSet \cup {None}
      /\ NoUsage \in Amounts /\ OneAttempt \in Amounts
  BY Arithmetic DEF LocalTypes
<1> USE DEF Steps
<1>1. CASE \E g \in GateSet : Prepare(p, g)
  BY <1>1, MoveTypes DEF Prepare
<1>2. CASE ActivateRefused(p) \/ Activate(p)
  BY <1>2, MoveTypes DEF ActivateRefused, Activate
<1>3. CASE \E c \in Cases : RunCase(p, c)
  BY <1>3 DEF RunCase, LocalTypes
<1>4. CASE \E s \in Stages, n \in Numbers : Review(p, s, n)
  BY <1>4, Phase8Constants DEF Review, EnsureLiveAuthority, LocalTypes
<1>5. CASE Guard(p)
  BY <1>0, <1>5 DEF Guard, EnsureLiveAuthority, LocalTypes
<1>6. CASE CallDiffers(p) \/ ReserveRefused(p) \/ Invoke(p) \/ ReserveAttempt(p)
  BY <1>6, MoveTypes DEF CallDiffers, ReserveRefused, Invoke, ReserveAttempt
<1>7. CASE /\ pc[p] = "waiting"
           /\ \E o \in Outcomes, u \in Usages[stage[p]] \cup {OneAttempt} : Answer(p, o, u)
  <2>1. stage[p] \in Stages
    BY <1>7 DEF AttemptInHand, Attempting
  <2>2. \A u \in Usages[stage[p]] \cup {OneAttempt} : u \in Amounts
    BY <1>0, <2>1, Phase8Constants
  <2>. QED
    BY <1>7, <2>2 DEF Answer, LocalTypes
<1>8. CASE TelemetryUnsound(p) \/ SettleRefused(p) \/ Settle(p)
  BY <1>8, MoveTypes DEF TelemetryUnsound, SettleRefused, Settle
<1>9. Raise(p) => LocalTypes'
  <2>1. CASE status[p] = "succeeded"
    BY <2>1 DEF Raise, LocalTypes, Outcomes
  <2>2. CASE status[p] # "succeeded"
    BY <2>2, MoveTypes DEF Raise
  <2>. QED
    BY <2>1, <2>2
<1>10. CASE Recheck(p)
  <2>1. CASE /\ left[p] > 1
             /\ pc' = [pc EXCEPT ![p] = "guard"]
             /\ number' = [number EXCEPT ![p] = @ + 1]
             /\ left' = [left EXCEPT ![p] = @ - 1]
             /\ UNCHANGED <<approval, case, stage, status, usage, verdict>>
    <3>1. number[p] + 1 \in Nat /\ left[p] - 1 \in Nat
      BY <2>1 DEF LocalTypes
    <3>. QED
      BY <2>1, <3>1 DEF LocalTypes
  <2>2. CASE /\ pc' = [pc EXCEPT ![p] = "case"]
             /\ status' = [status EXCEPT ![p] = None]
             /\ UNCHANGED <<approval, case, stage, number, left, usage, verdict>>
    BY <2>2 DEF LocalTypes
  <2>3. CASE GoTo(p, "unwind") \/ Raise(p)
    BY <2>3, <1>9, MoveTypes
  <2>. QED
    BY <1>10, <2>1, <2>2, <2>3 DEF Recheck
<1>11. CASE Violate(p)
  BY <1>9, <1>11 DEF Violate
<1>12. CASE \E valid \in BOOLEAN : Conclude(p, valid)
  BY <1>12 DEF Conclude, LocalTypes
<1>13. CASE ControlDiffers(p) \/ CaseFails(p) \/ Closing(p) \/ CloseRefused(p) \/ Close(p)
  BY <1>13, MoveTypes DEF ControlDiffers, CaseFails, Closing, CloseRefused, Close
<1>14. CASE Unwind(p)
  <2>1. CASE LeaveCase(p)
    BY <2>1, MoveTypes
  <2>2. CASE pc' = [pc EXCEPT ![p] = "closing"] /\ ~LeaveCase(p)
    BY <1>14, <2>2 DEF Unwind, LocalTypes
  <2>. QED
    BY <1>14, <2>1, <2>2 DEF Unwind
<1>15. CASE FinishBatch(p) \/ FinishRefused(p) \/ (\E review \in Reviews : Finish(p, review))
  BY <1>0, <1>15, MoveTypes DEF FinishBatch, FinishRefused, Finish
<1>16. CASE Revoke(p) \/ Stop(p)
  BY <1>0, <1>16, MoveTypes DEF Revoke, Stop
<1>. QED
  BY <1>1, <1>2, <1>3, <1>4, <1>5, <1>6, <1>7, <1>8, <1>10, <1>11, <1>12, <1>13, <1>14,
     <1>15, <1>16 DEF Quiet, Writes

\* A write of the runtime-state file keeps its types.
LEMMA FileTypeStep ==
    ASSUME IInv, NEW p \in Processes, Quiet(p) \/ Writes(p)
    PROVE  FileTypes'
<1> FileTypes /\ LocalTypes /\ CaseInHand(p) /\ AttemptInHand(p)
  BY TypeParts DEF IInv, LocalInv
<1>0. NoUsage \in Amounts /\ usage[p] \in Amounts /\ (\A a, b \in Amounts : Plus(a, b) \in Amounts)
  BY Arithmetic DEF LocalTypes
<1>1. CASE Quiet(p)
  BY <1>1, QuietFrame DEF stateVars, ledgerVars, accountVars, FileTypes
<1>2. CASE Activate(p)
  <2>1. CASE UNCHANGED stateVars
    BY <2>1 DEF stateVars, ledgerVars, accountVars, FileTypes
  <2>2. CASE ~UNCHANGED stateVars
    <3>1. approval[p] \in GateSet
      BY <1>2, <2>2 DEF Activate, MayReplace, GateSet
    <3>2. << >> \in Seq(Stages)
      OBVIOUS
    <3>. QED
      BY <1>0, <1>2, <2>2, <3>1, <3>2 DEF Activate, FileTypes
  <2>. QED
    BY <2>1, <2>2
<1>3. CASE ReserveAttempt(p)
  <2>1. case[p] \in EligibleCases /\ stage[p] \in Stages /\ number[p] \in Nat
    BY <1>3 DEF ReserveAttempt, AttemptInHand, Attempting, LocalTypes
  <2>2. reservation' \in EligibleCases \X Stages \X Nat
    BY <1>3, <2>1 DEF ReserveAttempt, Id
  <2>3. \A ids \in Seq(Stages) : Append(ids, stage[p]) \in Seq(Stages)
    BY <2>1
  <2>4. stage_ids' \in [Cases -> Seq(Stages)]
    BY <1>3, <2>3 DEF ReserveAttempt, FileTypes
  <2>. QED
    BY <1>3, <2>2, <2>4 DEF ReserveAttempt, FileTypes, ledgerVars
<1>4. CASE Settle(p)
  <2>1. InvalidAfter(p) \in Nat
    BY DEF InvalidAfter, FileTypes
  <2>2. /\ phase_used' \in Amounts /\ batch_used' \in Amounts
        /\ case_used' \in [Cases -> Amounts]
    BY <1>0, <1>4 DEF Settle, FileTypes
  <2>. QED
    BY <1>4, <2>1, <2>2 DEF Settle, FileTypes, ledgerVars
<1>5. CASE Close(p)
  <2>1. case[p] \in Cases /\ verdict[p] \in BOOLEAN
    BY <1>5 DEF Close, CaseInHand, LocalTypes
  <2>2. FailedAfter(p) \in Nat
    BY DEF FailedAfter, FileTypes
  <2>3. phase_completed' \subseteq Cases /\ failed_cases' \in Nat
    BY <1>5, <2>1, <2>2 DEF Close, FileTypes
  <2>4. /\ started' \in [Cases -> BOOLEAN] /\ completed' \in [Cases -> BOOLEAN]
        /\ valid_result' \in [Cases -> BOOLEAN]
    BY <1>5, <2>1 DEF Close, FileTypes
  <2>. QED
    BY <1>5, <2>3, <2>4 DEF Close, FileTypes
<1>6. CASE \E review \in Reviews : Finish(p, review)
  BY <1>6 DEF Finish, FileTypes, accountVars
<1>. QED
  BY <1>1, <1>2, <1>3, <1>4, <1>5, <1>6 DEF Writes
\* What a step does to the revocation file, the clock and the calls.
LEMMA WorldStep ==
    ASSUME NEW p \in Processes, Quiet(p) \/ Writes(p)
    PROVE  /\ expired' = expired /\ overtime' = overtime
           /\ revoked' = revoked \/ revoked' = TRUE
           /\ \/ pc[p] = "call" /\ Invoke(p)
              \/ calls' = calls /\ late' = late
<1> USE DEF worldVars, callVars
<1>1. CASE (\E g \in GateSet : Prepare(p, g)) \/ ActivateRefused(p) \/ (\E c \in Cases : RunCase(p, c))
  BY <1>1 DEF Prepare, ActivateRefused, RunCase
<1>2. CASE \E s \in Stages, n \in Numbers : Review(p, s, n)
  BY <1>2 DEF Review
<1>3. CASE Guard(p) \/ CallDiffers(p) \/ ReserveRefused(p) \/ Invoke(p)
  BY <1>3 DEF Guard, CallDiffers, ReserveRefused, Invoke
<1>4. CASE \E o \in Outcomes, u \in Usages[stage[p]] \cup {OneAttempt} : Answer(p, o, u)
  BY <1>4 DEF Answer
<1>5. CASE TelemetryUnsound(p) \/ SettleRefused(p) \/ Recheck(p) \/ Violate(p)
  BY <1>5 DEF TelemetryUnsound, SettleRefused, Recheck, Violate
<1>6. CASE (\E valid \in BOOLEAN : Conclude(p, valid)) \/ ControlDiffers(p) \/ CaseFails(p) \/ Unwind(p)
  BY <1>6 DEF Conclude, ControlDiffers, CaseFails, Unwind
<1>7. CASE Closing(p) \/ CloseRefused(p) \/ FinishBatch(p) \/ FinishRefused(p) \/ Revoke(p) \/ Stop(p)
  BY <1>7 DEF Closing, CloseRefused, FinishBatch, FinishRefused, Revoke, Stop
<1>8. CASE Activate(p) \/ ReserveAttempt(p) \/ Settle(p)
  BY <1>8 DEF Activate, ReserveAttempt, Settle
<1>9. CASE Close(p) \/ (\E review \in Reviews : Finish(p, review))
  BY <1>9 DEF Close, Finish
<1>. QED
  BY <1>1, <1>2, <1>3, <1>4, <1>5, <1>6, <1>7, <1>8, <1>9 DEF Quiet, Writes

\* The environment changes the clock alone.
LEMMA WorldFrame ==
    ASSUME World
    PROVE  /\ UNCHANGED <<stateVars, revoked, pc, localVars, callVars>>
           /\ TypeOK => expired' \subseteq GateSet /\ overtime' \subseteq Cases
<1>1. CASE \E g \in GateSet : Expire(g)
  BY <1>1 DEF Expire, TypeOK
<1>2. CASE \E c \in Cases : RunsLate(c)
  BY <1>2 DEF RunsLate, TypeOK
<1>. QED
  BY <1>1, <1>2 DEF World

\* Every step keeps the types.
LEMMA TypeStep == IInv /\ [Next]_vars => TypeOK'
<1> SUFFICES ASSUME IInv, [Next]_vars PROVE TypeOK'
  OBVIOUS
<1>0. TypeOK /\ LocalTypes /\ FileTypes /\ WorldTypes
  BY TypeParts DEF IInv
<1>1. ASSUME NEW p \in Processes, Quiet(p) \/ Writes(p)
      PROVE  TypeOK'
  <2>1. LocalTypes' /\ FileTypes'
    BY <1>1, LocalTypeStep, FileTypeStep
  <2>2. calls' \in Nat /\ late' \in [Processes -> Nat]
    <3>1. CASE Invoke(p)
      BY <1>0, <3>1 DEF Invoke, WorldTypes
    <3>2. CASE calls' = calls /\ late' = late
      BY <1>0, <3>2 DEF WorldTypes
    <3>. QED
      BY <1>1, <3>1, <3>2, WorldStep
  <2>3. WorldTypes'
    BY <1>0, <1>1, <2>2, WorldStep DEF WorldTypes
  <2>. QED
    BY <2>1, <2>3, TypeParts DEF TypeOK, LocalTypes, FileTypes, WorldTypes
<1>2. CASE World
  BY <1>0, <1>2, WorldFrame DEF TypeOK, stateVars, ledgerVars, accountVars, localVars, callVars
<1>3. CASE UNCHANGED vars
  BY <1>0, <1>3 DEF TypeOK, vars, stateVars, ledgerVars, accountVars, localVars, callVars, worldVars
<1>. QED
  BY <1>1, <1>2, <1>3, NextCases
-----------------------------------------------------------------------------
\* A step of one process changes no local variable of another.
LEMMA OthersKeep ==
    ASSUME LocalTypes, NEW p \in Processes, NEW q \in Processes, q # p, Quiet(p) \/ Writes(p)
    PROVE  /\ pc'[q] = pc[q] /\ approval'[q] = approval[q] /\ case'[q] = case[q]
           /\ stage'[q] = stage[q] /\ number'[q] = number[q]
           /\ status'[q] = status[q] /\ usage'[q] = usage[q] /\ verdict'[q] = verdict[q]
<1> USE DEF LocalTypes, GoTo, LeaveCase, ResetTo, localVars
<1>1. CASE (\E g \in GateSet : Prepare(p, g)) \/ ActivateRefused(p) \/ Activate(p)
  BY <1>1 DEF Prepare, ActivateRefused, Activate
<1>2. CASE \E c \in Cases : RunCase(p, c)
  BY <1>2 DEF RunCase
<1>3. CASE \E s \in Stages, n \in Numbers : Review(p, s, n)
  BY <1>3 DEF Review, EnsureLiveAuthority
<1>4. CASE Guard(p)
  BY <1>4 DEF Guard, EnsureLiveAuthority
<1>5. CASE CallDiffers(p) \/ ReserveRefused(p) \/ ReserveAttempt(p) \/ Invoke(p)
  BY <1>5 DEF CallDiffers, ReserveRefused, ReserveAttempt, Invoke
<1>6. CASE \E o \in Outcomes, u \in Usages[stage[p]] \cup {OneAttempt} : Answer(p, o, u)
  BY <1>6 DEF Answer
<1>7. CASE TelemetryUnsound(p) \/ SettleRefused(p) \/ Settle(p)
  BY <1>7 DEF TelemetryUnsound, SettleRefused, Settle
<1>8. CASE Recheck(p)
  BY <1>8 DEF Recheck, Raise
<1>9. CASE Violate(p)
  BY <1>9 DEF Violate, Raise
<1>10. CASE \E valid \in BOOLEAN : Conclude(p, valid)
  BY <1>10 DEF Conclude
<1>11. CASE ControlDiffers(p) \/ CaseFails(p) \/ Closing(p) \/ CloseRefused(p) \/ Close(p)
  BY <1>11 DEF ControlDiffers, CaseFails, Closing, CloseRefused, Close
<1>12. CASE Unwind(p)
  BY <1>12 DEF Unwind
<1>13. CASE FinishBatch(p) \/ FinishRefused(p) \/ (\E review \in Reviews : Finish(p, review))
  BY <1>13 DEF FinishBatch, FinishRefused, Finish
<1>14. CASE Revoke(p) \/ Stop(p)
  BY <1>14 DEF Revoke, Stop
<1>. QED
  BY <1>1, <1>2, <1>3, <1>4, <1>5, <1>6, <1>7, <1>8, <1>9, <1>10, <1>11, <1>12, <1>13, <1>14
     DEF Quiet, Writes

\* A step of a process keeps what it knows of its case and its attempt.
LEMMA OwnStep ==
    ASSUME IInv, NEW p \in Processes, Quiet(p) \/ Writes(p)
    PROVE  CaseInHand(p)' /\ AttemptInHand(p)'
<1>0. LocalTypes /\ CaseInHand(p) /\ AttemptInHand(p)
  BY TypeParts DEF IInv, LocalInv
<1>a. EligibleCases \subseteq Cases /\ None \notin Outcomes
  BY Arithmetic, Phase8Constants
<1> USE <1>0, <1>a DEF LocalTypes, GoTo, LeaveCase, ResetTo, localVars, CaseInHand, AttemptInHand,
        Attempting, Outcomes
<1>1. CASE (\E g \in GateSet : Prepare(p, g)) \/ ActivateRefused(p) \/ Activate(p)
  BY <1>1 DEF Prepare, ActivateRefused, Activate
<1>2. CASE \E c \in Cases : RunCase(p, c)
  BY <1>2 DEF RunCase
<1>3. CASE \E s \in Stages, n \in Numbers : Review(p, s, n)
  BY <1>3 DEF Review, EnsureLiveAuthority
<1>4. CASE Guard(p)
  BY <1>4 DEF Guard, EnsureLiveAuthority
<1>5. CASE CallDiffers(p) \/ ReserveRefused(p) \/ ReserveAttempt(p) \/ Invoke(p)
  BY <1>5 DEF CallDiffers, ReserveRefused, ReserveAttempt, Invoke
<1>6. CASE \E o \in Outcomes, u \in Usages[stage[p]] \cup {OneAttempt} : Answer(p, o, u)
  <2>1. pc[p] = "waiting"
    BY <1>6 DEF Answer
  <2>2. \A u \in Usages[stage[p]] \cup {OneAttempt} : u["attempts"] = 1
    BY <2>1, Phase8Constants, Arithmetic
  <2>. QED
    BY <1>6, <2>1, <2>2 DEF Answer
<1>7. CASE TelemetryUnsound(p) \/ SettleRefused(p) \/ Settle(p)
  BY <1>7 DEF TelemetryUnsound, SettleRefused, Settle
<1>8. CASE Recheck(p)
  BY <1>8 DEF Recheck, Raise
<1>9. CASE Violate(p)
  BY <1>9 DEF Violate, Raise
<1>10. CASE \E valid \in BOOLEAN : Conclude(p, valid)
  BY <1>10 DEF Conclude
<1>11. CASE ControlDiffers(p) \/ CaseFails(p) \/ Closing(p) \/ CloseRefused(p) \/ Close(p)
  BY <1>11 DEF ControlDiffers, CaseFails, Closing, CloseRefused, Close
<1>12. CASE Unwind(p)
  BY <1>12 DEF Unwind
<1>13. CASE FinishBatch(p) \/ FinishRefused(p) \/ (\E review \in Reviews : Finish(p, review))
  BY <1>13 DEF FinishBatch, FinishRefused, Finish
<1>14. CASE Revoke(p) \/ Stop(p)
  BY <1>14 DEF Revoke, Stop
<1>. QED
  BY <1>1, <1>2, <1>3, <1>4, <1>5, <1>6, <1>7, <1>8, <1>9, <1>10, <1>11, <1>12, <1>13, <1>14
     DEF Quiet, Writes
\* Every step keeps what the processes know.
LEMMA LocalStep == IInv /\ [Next]_vars => LocalInv'
<1> SUFFICES ASSUME IInv, [Next]_vars, NEW q \in Processes
             PROVE  CaseInHand(q)' /\ AttemptInHand(q)'
  BY DEF LocalInv
<1>0. LocalTypes /\ CaseInHand(q) /\ AttemptInHand(q)
  BY TypeParts DEF IInv, LocalInv
<1>1. ASSUME NEW p \in Processes, Quiet(p) \/ Writes(p)
      PROVE  CaseInHand(q)' /\ AttemptInHand(q)'
  <2>1. CASE q = p
    BY <1>1, <2>1, OwnStep
  <2>2. CASE q # p
    BY <1>0, <1>1, <2>2, OthersKeep DEF CaseInHand, AttemptInHand
  <2>. QED
    BY <2>1, <2>2
<1>2. CASE World \/ UNCHANGED vars
  <2>1. UNCHANGED <<pc, localVars>>
    BY <1>2, WorldFrame DEF vars
  <2>. QED
    BY <1>0, <2>1 DEF localVars, CaseInHand, AttemptInHand
<1>. QED
  BY <1>1, <1>2, NextCases

\* The only ways to the transaction of reserve_attempt, to the request, and to the
\* settlement.
LEMMA PcStep ==
    ASSUME LocalTypes, NEW p \in Processes, Quiet(p) \/ Writes(p)
    PROVE  /\ pc'[p] = "reserve" => ~revoked
           /\ pc'[p] = "call" => ReserveAttempt(p)
           /\ Holding(p)' => \/ ReserveAttempt(p)
                             \/ revoked'
                             \/ /\ Holding(p) /\ Id(p)' = Id(p)
                                /\ approval'[p] = approval[p] /\ case'[p] = case[p]
<1> USE DEF LocalTypes, GoTo, LeaveCase, ResetTo, localVars, worldVars, Holding, Id
<1>1. CASE (\E g \in GateSet : Prepare(p, g)) \/ ActivateRefused(p) \/ Activate(p)
  BY <1>1 DEF Prepare, ActivateRefused, Activate
<1>2. CASE \E c \in Cases : RunCase(p, c)
  BY <1>2 DEF RunCase
<1>3. CASE \E s \in Stages, n \in Numbers : Review(p, s, n)
  BY <1>3 DEF Review, EnsureLiveAuthority
<1>4. CASE Guard(p)
  BY <1>4 DEF Guard, EnsureLiveAuthority
<1>5. CASE CallDiffers(p) \/ ReserveRefused(p) \/ ReserveAttempt(p) \/ Invoke(p)
  BY <1>5 DEF CallDiffers, ReserveRefused, ReserveAttempt, Invoke
<1>6. CASE \E o \in Outcomes, u \in Usages[stage[p]] \cup {OneAttempt} : Answer(p, o, u)
  BY <1>6 DEF Answer
<1>7. CASE TelemetryUnsound(p) \/ SettleRefused(p) \/ Settle(p)
  BY <1>7 DEF TelemetryUnsound, SettleRefused, Settle
<1>8. CASE Recheck(p)
  BY <1>8 DEF Recheck, Raise
<1>9. CASE Violate(p)
  BY <1>9 DEF Violate, Raise
<1>10. CASE \E valid \in BOOLEAN : Conclude(p, valid)
  BY <1>10 DEF Conclude
<1>11. CASE ControlDiffers(p) \/ CaseFails(p) \/ Closing(p) \/ CloseRefused(p) \/ Close(p)
  BY <1>11 DEF ControlDiffers, CaseFails, Closing, CloseRefused, Close
<1>12. CASE Unwind(p)
  BY <1>12 DEF Unwind
<1>13. CASE FinishBatch(p) \/ FinishRefused(p) \/ (\E review \in Reviews : Finish(p, review))
  BY <1>13 DEF FinishBatch, FinishRefused, Finish
<1>14. CASE Revoke(p) \/ Stop(p)
  BY <1>14 DEF Revoke, Stop
<1>. QED
  BY <1>1, <1>2, <1>3, <1>4, <1>5, <1>6, <1>7, <1>8, <1>9, <1>10, <1>11, <1>12, <1>13, <1>14
     DEF Quiet, Writes

-----------------------------------------------------------------------------
\* A late request is a request of a process that passed its last check before the
\* revocation.
LEMMA LateStep == IInv /\ [Next]_vars => LateInv'
<1> SUFFICES ASSUME IInv, [Next]_vars, NEW q \in Processes
             PROVE  LateOK(q)'
  BY DEF LateInv
<1>0. LocalTypes /\ WorldTypes /\ LateOK(q)
  BY TypeParts DEF IInv, LateInv
<1>1. ASSUME NEW p \in Processes, Quiet(p) \/ Writes(p)
      PROVE  LateOK(q)'
  <2>0. revoked => revoked'
    BY <1>1, WorldStep
  <2>1. CASE q # p
    <3>1. late'[q] = late[q] /\ pc'[q] = pc[q]
      BY <1>0, <1>1, <2>1, WorldStep, OthersKeep DEF Invoke, WorldTypes
    <3>. QED
      BY <1>0, <2>0, <3>1 DEF LateOK
  <2>2. CASE q = p /\ Invoke(p)
    <3>1. late[p] = 0 /\ pc'[p] = "waiting" /\ revoked' = revoked
      BY <1>0, <2>2 DEF Invoke, LateOK, LocalTypes, GoTo, worldVars
    <3>2. late'[p] = IF revoked THEN 1 ELSE 0
      BY <1>0, <2>2, <3>1 DEF Invoke, WorldTypes
    <3>. QED
      BY <2>2, <3>1, <3>2 DEF LateOK
  <2>3. CASE q = p /\ ~Invoke(p)
    <3>1. late' = late
      BY <1>1, <2>3, WorldStep
    <3>2. revoked /\ pc'[p] \in {"reserve", "call"} => pc[p] \in {"reserve", "call"}
      BY <1>0, <1>1, PcStep DEF ReserveAttempt
    <3>. QED
      BY <1>0, <2>0, <2>3, <3>1, <3>2 DEF LateOK
  <2>. QED
    BY <2>1, <2>2, <2>3
<1>2. CASE World \/ UNCHANGED vars
  <2>1. UNCHANGED <<pc, late, revoked>>
    BY <1>2, WorldFrame DEF vars, worldVars, callVars
  <2>. QED
    BY <1>0, <2>1 DEF LateOK
<1>. QED
  BY <1>1, <1>2, NextCases
-----------------------------------------------------------------------------
\* What identifies an attempt is no null value.
LEMMA IdIsAttempt ==
    ASSUME IInv, NEW p \in Processes, pc[p] \in Attempting
    PROVE  /\ Id(p) \in EligibleCases \X Stages \X Nat /\ Id(p) # None
           /\ Id(p)[1] = case[p] /\ Id(p)[2] = stage[p]
<1>1. case[p] \in EligibleCases /\ stage[p] \in Stages /\ number[p] \in Nat
  BY TypeParts DEF IInv, LocalInv, AttemptInHand, LocalTypes
<1>. QED
  BY <1>1, Phase8Constants DEF Id

\* Up to the revocation nobody holds an attempt while none is pending.
LEMMA NonePending ==
    ASSUME IInv, ~revoked, reservation = None, NEW p \in Processes
    PROVE  ~Holding(p)
  BY IdIsAttempt DEF IInv, Serial, Holding, Attempting

\* Only a gate with nothing pending is replaced.
LEMMA ReplaceNeedsNone ==
    ASSUME IInv, NEW g \in GateSet, gate # g, MayReplace(g)
    PROVE  reservation = None
  BY DEF IInv, IdleUntilActive, MayReplace

\* Attempts stay serial up to the revocation.
LEMMA SerialStep == IInv /\ [Next]_vars => IdleUntilActive' /\ Serial'
<1> SUFFICES ASSUME IInv, [Next]_vars
             PROVE  IdleUntilActive' /\ Serial'
  OBVIOUS
<1>0. LocalTypes /\ FileTypes /\ Serial /\ IdleUntilActive
  BY TypeParts DEF IInv
<1>1. ASSUME NEW p \in Processes, Quiet(p) \/ Writes(p), ~revoked'
      PROVE  Serial'
  <2>0. ~revoked
    BY <1>1, WorldStep
  <2>1. ASSUME NEW q \in Processes, Holding(q)', ~ReserveAttempt(p)
        PROVE  /\ Holding(q) /\ Id(q)' = Id(q)
               /\ approval'[q] = approval[q] /\ case'[q] = case[q]
    <3>1. CASE q = p
      BY <1>0, <1>1, <2>1, <3>1, PcStep
    <3>2. CASE q # p
      BY <1>0, <1>1, <2>1, <3>2, OthersKeep DEF Holding, Id
    <3>. QED
      BY <3>1, <3>2
  <2>2. CASE /\ gate' = gate /\ reservation' = reservation /\ batch_completed' = batch_completed
             /\ completed' = completed /\ ~ReserveAttempt(p)
    BY <1>0, <2>0, <2>1, <2>2 DEF Serial
  <2>3. CASE reservation = None /\ ~ReserveAttempt(p)
    BY <2>0, <2>1, <2>3, NonePending DEF Serial
  <2>4. CASE Quiet(p) /\ ~ReserveAttempt(p)
    BY <2>2, <2>4, <1>1, QuietFrame DEF stateVars, ledgerVars, accountVars
  <2>5. CASE Activate(p)
    <3>1. ~ReserveAttempt(p)
      BY <2>5 DEF Activate, ReserveAttempt
    <3>2. CASE UNCHANGED stateVars
      BY <2>2, <3>1, <3>2 DEF stateVars, ledgerVars, accountVars
    <3>3. CASE gate # approval[p] /\ MayReplace(approval[p])
      <4>1. approval[p] \in GateSet
        BY <3>3 DEF MayReplace, GateSet
      <4>. QED
        BY <2>3, <3>1, <3>3, <4>1, ReplaceNeedsNone
    <3>. QED
      BY <2>5, <3>2, <3>3 DEF Activate
  <2>6. CASE ReserveAttempt(p)
    <3>1. /\ gate = approval[p] /\ ~batch_completed /\ reservation = None /\ ~completed[case[p]]
      BY <2>6 DEF ReserveAttempt, CanReserve
    <3>2. /\ reservation' = Id(p) /\ gate' = gate /\ batch_completed' = batch_completed
          /\ completed' = completed /\ approval' = approval /\ case' = case /\ Id(p)' = Id(p)
      BY <2>6 DEF ReserveAttempt, ledgerVars, GoTo, localVars, Id
    <3>3. ASSUME NEW q \in Processes, Holding(q)'
          PROVE  q = p
      <4>1. ~Holding(q)
        BY <2>0, <3>1, NonePending
      <4>. QED
        BY <1>0, <1>1, <3>3, <4>1, OthersKeep DEF Holding
    <3>. QED
      BY <3>1, <3>2, <3>3 DEF Serial
  <2>7. CASE Settle(p)
    <3>1. Holding(p) /\ ~Holding(p)' /\ ~ReserveAttempt(p)
      BY <1>0, <2>7 DEF Settle, Holding, GoTo, LocalTypes, ReserveAttempt
    <3>. QED
      BY <1>0, <2>0, <2>1, <3>1 DEF Serial
  <2>8. CASE Close(p)
    <3>1. reservation = None /\ ~ReserveAttempt(p)
      BY <2>8 DEF Close, CanClose, ReserveAttempt
    <3>. QED
      BY <2>3, <3>1
  <2>9. CASE \E review \in Reviews : Finish(p, review)
    <3>1. reservation = None /\ ~ReserveAttempt(p)
      BY <2>9 DEF Finish, CanFinish, ReserveAttempt
    <3>. QED
      BY <2>3, <3>1
  <2>. QED
    BY <1>1, <2>4, <2>5, <2>6, <2>7, <2>8, <2>9 DEF Writes
<1>2. ASSUME NEW p \in Processes, Quiet(p) \/ Writes(p)
      PROVE  IdleUntilActive'
  <2>1. CASE Quiet(p)
    BY <1>0, <2>1, QuietFrame DEF stateVars, ledgerVars, accountVars, IdleUntilActive
  <2>2. CASE Activate(p)
    BY <1>0, <2>2, Phase8Constants DEF Activate, IdleUntilActive, stateVars, ledgerVars, accountVars
  <2>3. CASE ReserveAttempt(p)
    <3>1. gate' # None
      <4>1. approval[p] = gate /\ gate' = gate /\ pc[p] = "reserve"
        BY <2>3 DEF ReserveAttempt, CanReserve, ledgerVars
      <4>2. approval[p] \in GateSet
        BY <4>1 DEF IInv, LocalInv, CaseInHand
      <4>. QED
        BY <4>1, <4>2, Phase8Constants
    <3>. QED
      BY <3>1 DEF IdleUntilActive
  <2>4. CASE Settle(p)
    BY <2>4 DEF Settle, IdleUntilActive
  <2>5. CASE Close(p) \/ (\E review \in Reviews : Finish(p, review))
    BY <1>0, <2>5 DEF Close, Finish, IdleUntilActive, accountVars
  <2>. QED
    BY <1>2, <2>1, <2>2, <2>3, <2>4, <2>5 DEF Writes
<1>3. CASE World \/ UNCHANGED vars
  <2>1. /\ UNCHANGED <<gate, reservation, batch_completed, completed, revoked>>
        /\ UNCHANGED <<pc, approval, case, stage, number>>
    BY <1>3, WorldFrame DEF vars, stateVars, ledgerVars, accountVars, worldVars, localVars
  <2>. QED
    BY <1>0, <2>1 DEF Serial, Holding, Id, IdleUntilActive
<1>. QED
  BY <1>1, <1>2, <1>3, NextCases DEF Serial
-----------------------------------------------------------------------------
\* A write of the file other than a reservation, a settlement or the next gate
\* leaves the accounts alone.
LEMMA AccountsKept ==
    ASSUME NEW p \in Processes,
           Close(p) \/ (\E review \in Reviews : Finish(p, review))
    PROVE  UNCHANGED <<gate, phase_used, batch_used, case_used, reservation>>
  BY DEF Close, Finish, accountVars

\* What is used and pending stays within the caps.
LEMMA BudgetStep == IInv /\ [Next]_vars => BudgetsHold'
<1> SUFFICES ASSUME IInv, [Next]_vars PROVE BudgetsHold'
  OBVIOUS
<1>0. LocalTypes /\ FileTypes /\ BudgetsHold
  BY TypeParts DEF IInv
<1>1. ASSUME UNCHANGED <<gate, phase_used, batch_used, case_used, reservation>>
      PROVE  BudgetsHold'
  BY <1>0, <1>1 DEF BudgetsHold, Pending
<1>2. ASSUME NEW p \in Processes, Quiet(p) \/ Writes(p)
      PROVE  BudgetsHold'
  <2>1. CASE Quiet(p)
    BY <1>1, <2>1, QuietFrame DEF stateVars, ledgerVars, accountVars
  <2>2. CASE Close(p) \/ (\E review \in Reviews : Finish(p, review))
    BY <1>1, <2>2, AccountsKept
  <2>3. CASE Activate(p)
    <3>1. CASE UNCHANGED stateVars
      BY <1>1, <3>1 DEF stateVars, ledgerVars, accountVars
    <3>2. CASE gate # approval[p] /\ MayReplace(approval[p]) /\ ~UNCHANGED stateVars
      <4>1. approval[p] \in GateSet
        BY <3>2 DEF MayReplace, GateSet
      <4>2. reservation = None
        BY <3>2, <4>1, ReplaceNeedsNone
      <4>3. /\ gate' = approval[p] /\ batch_used' = NoUsage /\ reservation' = None
            /\ case_used' = [c \in Cases |-> NoUsage] /\ phase_used' = phase_used
        BY <2>3, <3>2 DEF Activate
      <4>4. Pending = NoUsage /\ Pending' = NoUsage
        BY <4>2, <4>3 DEF Pending
      <4>5. Within(Plus(phase_used, Pending), PhaseCap)'
        BY <1>0, <4>3, <4>4 DEF BudgetsHold
      <4>6. Within(Plus(batch_used, Pending), BatchCap[gate])'
        <5>1. BatchCap[approval[p]] \in Amounts
          BY <4>1, Arithmetic
        <5>. QED
          BY <4>3, <4>4, <5>1 DEF Within, Plus, NoUsage, Amounts
      <4>7. ASSUME NEW c \in EligibleCases
            PROVE  case_used'[c]["cost"] = 0 /\ RouteCost[c] \in Nat
        BY <4>3, Arithmetic, Phase8Constants DEF NoUsage, Meters
      <4>. QED
        BY <4>3, <4>5, <4>6, <4>7 DEF BudgetsHold
    <3>. QED
      BY <2>3, <3>1, <3>2 DEF Activate
  <2>4. CASE ReserveAttempt(p)
    <3>1. pc[p] \in Attempting /\ stage[p] \in Stages /\ case[p] \in EligibleCases
      BY <2>4 DEF ReserveAttempt, Attempting, IInv, LocalInv, AttemptInHand
    <3>2. /\ gate = approval[p] /\ reservation = None /\ BudgetCovers(p)
          /\ gate' = gate /\ phase_used' = phase_used /\ batch_used' = batch_used
          /\ case_used' = case_used /\ reservation' = Id(p)
      BY <2>4 DEF ReserveAttempt, CanReserve, ledgerVars
    <3>3. Pending' = Reserved[stage[p]]
      BY <3>1, <3>2, IdIsAttempt DEF Pending
    <3>4. ASSUME NEW c \in EligibleCases, c # case[p]
          PROVE  case_used[c]["cost"] + 0 <= RouteCost[c]
      BY <1>0, <3>2 DEF BudgetsHold
    <3>5. ASSUME NEW c \in EligibleCases
          PROVE  (case_used[c]["cost"] + (IF reservation # None /\ reservation[1] = c
                                          THEN Pending["cost"] ELSE 0) <= RouteCost[c])'
      <4>1. CASE c = case[p]
        BY <3>1, <3>2, <3>3, <4>1, IdIsAttempt DEF BudgetCovers
      <4>2. CASE c # case[p]
        BY <3>1, <3>2, <3>4, <4>2, IdIsAttempt
      <4>. QED
        BY <4>1, <4>2
    <3>. QED
      BY <3>2, <3>3, <3>5 DEF BudgetsHold, BudgetCovers
  <2>5. CASE Settle(p)
    <3>1. pc[p] \in Attempting /\ stage[p] \in Stages /\ case[p] \in EligibleCases
      BY <2>5 DEF Settle, Attempting, IInv, LocalInv, AttemptInHand
    <3>2. /\ gate = approval[p] /\ reservation = Id(p) /\ Within(usage[p], Reserved[stage[p]])
          /\ gate' = gate /\ phase_used' = Plus(phase_used, usage[p])
          /\ batch_used' = Plus(batch_used, usage[p])
          /\ case_used' = [case_used EXCEPT ![case[p]] = Plus(@, usage[p])]
          /\ reservation' = None
          /\ case_used[case[p]]["cost"] + usage[p]["cost"] <= RouteCost[case[p]]
      BY <2>5 DEF Settle, CanSettle, ledgerVars
    <3>3. Pending = Reserved[stage[p]] /\ Pending' = NoUsage
      BY <3>1, <3>2, IdIsAttempt DEF Pending
    <3>4. /\ usage[p] \in Amounts /\ Reserved[stage[p]] \in Amounts
          /\ phase_used \in Amounts /\ batch_used \in Amounts /\ PhaseCap \in Amounts
      BY <1>0, <3>1, Arithmetic, Phase8Constants DEF LocalTypes, FileTypes
    <3>5. ASSUME NEW used \in Amounts, NEW cap \in Amounts,
                 Within(Plus(used, Pending), cap)
          PROVE  Within(Plus(Plus(used, usage[p]), NoUsage), cap)
      BY <3>2, <3>3, <3>4, <3>5 DEF Within, Plus, NoUsage, Amounts
    <3>6. gate \in GateSet /\ BatchCap[gate] \in Amounts
      BY <3>1, <3>2, Arithmetic DEF Attempting, IInv, LocalInv, CaseInHand
    <3>7. ASSUME NEW c \in EligibleCases
          PROVE  case_used'[c]["cost"] + 0 <= RouteCost[c]
      <4>0. c \in Cases /\ case[p] \in Cases /\ case_used \in [Cases -> Amounts]
        BY <1>0, <3>1, Arithmetic DEF FileTypes
      <4>1. CASE c = case[p]
        <5>1. case_used'[c]["cost"] = case_used[c]["cost"] + usage[p]["cost"]
          BY <3>2, <4>0, <4>1 DEF Plus, Meters
        <5>2. case_used[c]["cost"] \in Nat /\ usage[p]["cost"] \in Nat
          BY <3>4, <4>0 DEF Amounts, Meters
        <5>. QED
          BY <3>2, <4>1, <5>1, <5>2
      <4>2. CASE c # case[p]
        <5>1. reservation[1] # c
          BY <3>1, <3>2, <4>2, IdIsAttempt
        <5>. QED
          BY <1>0, <3>2, <4>0, <4>2, <5>1 DEF BudgetsHold
      <4>. QED
        BY <4>1, <4>2
    <3>8. Within(Plus(phase_used, Pending), PhaseCap)' /\ Within(Plus(batch_used, Pending), BatchCap[gate])'
      <4>1. /\ Within(Plus(phase_used, Pending), PhaseCap)
            /\ Within(Plus(batch_used, Pending), BatchCap[gate])
        BY <1>0, <3>6, Phase8Constants DEF BudgetsHold
      <4>. QED
        BY <3>2, <3>3, <3>4, <3>5, <3>6, <4>1
    <3>. QED
      BY <3>2, <3>7, <3>8 DEF BudgetsHold
  <2>. QED
    BY <1>2, <2>1, <2>2, <2>3, <2>4, <2>5 DEF Writes
<1>3. CASE World \/ UNCHANGED vars
  BY <1>1, <1>3, WorldFrame DEF vars, stateVars, ledgerVars, accountVars
<1>. QED
  BY <1>2, <1>3, NextCases

-----------------------------------------------------------------------------
\* A completed canary stays complete and valid.
LEMMA CanaryStep == IInv /\ [Next]_vars => CanaryInv'
<1> SUFFICES ASSUME IInv, [Next]_vars PROVE CanaryInv'
  OBVIOUS
<1>0. LocalTypes /\ FileTypes /\ CanaryInv
  BY TypeParts DEF IInv
<1>1. ASSUME UNCHANGED ledgerVars
      PROVE  CanaryInv'
  BY <1>0, <1>1 DEF CanaryInv, ledgerVars
<1>2. ASSUME NEW p \in Processes, Quiet(p) \/ Writes(p)
      PROVE  CanaryInv'
  <2>1. CASE Quiet(p)
    BY <1>1, <2>1, QuietFrame DEF stateVars
  <2>2. CASE ReserveAttempt(p) \/ Settle(p)
    BY <1>1, <2>2 DEF ReserveAttempt, Settle
  <2>3. CASE Activate(p)
    <3>1. CASE UNCHANGED stateVars
      BY <1>1, <3>1 DEF stateVars
    <3>2. CASE batch_completed' = FALSE /\ completed' = [c \in Cases |-> FALSE]
      BY <3>2 DEF CanaryInv
    <3>. QED
      BY <2>3, <3>1, <3>2 DEF Activate
  <2>4. CASE Close(p)
    <3>0. Eligible[Gates[1]] \subseteq Approved(Gates[1]) /\ Approved(Gates[1]) \subseteq Cases
      BY DEF Approved, Cases, GateSet
    <3>1. CASE completed[case[p]]
      BY <1>1, <2>4, <3>1 DEF Close, ledgerVars
    <3>2. CASE ~completed[case[p]]
      <4>1. /\ phase_completed' = phase_completed \cup {case[p]}
            /\ completed' = [completed EXCEPT ![case[p]] = TRUE]
            /\ valid_result' = [valid_result EXCEPT ![case[p]] = verdict[p]]
            /\ gate' = gate /\ batch_completed' = batch_completed
        BY <2>4, <3>2 DEF Close
      <4>2. \A c \in Cases : completed'[c] => c \in phase_completed'
        BY <1>0, <4>1 DEF CanaryInv, FileTypes
      <4>3. ASSUME batch_completed, gate = Gates[1]
            PROVE  /\ \A c \in Approved(Gates[1]) : completed'[c]
                   /\ \A c \in Eligible[Gates[1]] : valid_result'[c]
        <5>1. \A c \in Approved(Gates[1]) : completed[c] /\ c # case[p]
          BY <1>0, <3>2, <4>3 DEF CanaryInv
        <5>. QED
          BY <1>0, <3>0, <4>1, <4>3, <5>1 DEF CanaryInv, FileTypes
      <4>. QED
        BY <4>1, <4>2, <4>3 DEF CanaryInv
    <3>. QED
      BY <3>1, <3>2
  <2>5. CASE \E review \in Reviews : Finish(p, review)
    <3>1. /\ CanFinish(approval[p]) /\ gate' = gate
          /\ UNCHANGED <<completed, valid_result, phase_completed>>
      BY <2>5 DEF Finish
    <3>2. gate = Gates[1] => /\ \A c \in Approved(Gates[1]) : completed[c]
                             /\ \A c \in Eligible[Gates[1]] : valid_result[c]
      BY <3>1 DEF CanFinish
    <3>. QED
      BY <1>0, <3>1, <3>2 DEF CanaryInv
  <2>. QED
    BY <1>2, <2>1, <2>2, <2>3, <2>4, <2>5 DEF Writes
<1>3. CASE World \/ UNCHANGED vars
  BY <1>1, <1>3, WorldFrame DEF vars, stateVars
<1>. QED
  BY <1>2, <1>3, NextCases
-----------------------------------------------------------------------------
\* Only reserve_attempt lets a process make a request.
LEMMA CallersStep ==
    ASSUME LocalTypes, NEW p \in Processes, Quiet(p) \/ Writes(p)
    PROVE  Callers' = IF ReserveAttempt(p) THEN Callers \cup {p} ELSE Callers \ {p}
<1>1. \A q \in Processes : q # p => pc'[q] = pc[q]
  BY OthersKeep
<1>2. ReserveAttempt(p) => pc'[p] = "call"
  BY DEF ReserveAttempt, GoTo, LocalTypes
<1>3. ~ReserveAttempt(p) => pc'[p] # "call"
  BY PcStep
<1>. QED
  BY <1>1, <1>2, <1>3 DEF Callers

\* Every request stays covered: it was reserved, and a reservation is only given up
\* by a settlement, which counts an attempt.
LEMMA CoveredStep == IInv /\ [Next]_vars => Covered'
<1> SUFFICES ASSUME IInv, [Next]_vars PROVE Covered'
  OBVIOUS
<1>0. LocalTypes /\ FileTypes /\ Covered /\ WorldTypes
  BY TypeParts DEF IInv
<1>a. /\ IsFiniteSet(Callers) /\ Cardinality(Callers) \in Nat /\ calls \in Nat
      /\ phase_used["attempts"] \in Nat
      /\ calls + Cardinality(Callers)
           <= phase_used["attempts"] + (IF reservation = None THEN 0 ELSE 1)
  BY <1>0, FS_CardinalityType DEF Covered, WorldTypes, FileTypes, Amounts, Meters
<1>1. ASSUME NEW p \in Processes, Quiet(p) \/ Writes(p), ~ReserveAttempt(p)
      PROVE  /\ IsFiniteSet(Callers') /\ Cardinality(Callers') \in Nat
             /\ Cardinality(Callers') = Cardinality(Callers) - (IF pc[p] = "call" THEN 1 ELSE 0)
  <2>1. Callers' = Callers \ {p}
    BY <1>0, <1>1, CallersStep
  <2>2. /\ IsFiniteSet(Callers \ {p})
        /\ Cardinality(Callers \ {p})
             = IF p \in Callers THEN Cardinality(Callers) - 1 ELSE Cardinality(Callers)
    BY <1>a, FS_RemoveElement
  <2>3. p \in Callers <=> pc[p] = "call"
    BY DEF Callers
  <2>4. Cardinality(Callers \ {p}) \in Nat
    BY <2>2, FS_CardinalityType
  <2>. QED
    BY <1>a, <2>1, <2>2, <2>3, <2>4
<1>2. ASSUME NEW p \in Processes, Quiet(p) \/ Writes(p)
      PROVE  Covered'
  <2>1. CASE ReserveAttempt(p)
    <3>1. /\ pc[p] = "reserve" /\ reservation = None /\ reservation' = Id(p)
          /\ phase_used' = phase_used /\ calls' = calls
      BY <2>1 DEF ReserveAttempt, CanReserve, callVars
    <3>2. Id(p) # None
      BY <3>1, IdIsAttempt DEF Attempting
    <3>3. p \notin Callers /\ Callers' = Callers \cup {p}
      BY <1>0, <2>1, <3>1, <1>2, CallersStep DEF Callers
    <3>4. IsFiniteSet(Callers') /\ Cardinality(Callers') = Cardinality(Callers) + 1
      BY <1>a, <3>3, FS_AddElement
    <3>. QED
      BY <1>a, <3>1, <3>2, <3>4 DEF Covered
  <2>2. CASE Invoke(p) /\ ~ReserveAttempt(p)
    <3>1. /\ pc[p] = "call" /\ calls' = calls + 1
          /\ phase_used' = phase_used /\ reservation' = reservation
      BY <2>2 DEF Invoke, stateVars, accountVars
    <3>. QED
      BY <1>a, <1>1, <1>2, <2>2, <3>1 DEF Covered
  <2>3. CASE ~Invoke(p) /\ ~ReserveAttempt(p)
    <3>1. calls' = calls
      BY <1>2, <2>3, WorldStep
    <3>2. Cardinality(Callers') <= Cardinality(Callers)
      BY <1>a, <1>1, <1>2, <2>3
    <3>3. CASE UNCHANGED <<phase_used, reservation>>
      BY <1>a, <1>1, <1>2, <2>3, <3>1, <3>2, <3>3 DEF Covered
    <3>4. CASE Quiet(p)
      BY <3>3, <3>4, QuietFrame DEF stateVars, accountVars
    <3>5. CASE Close(p) \/ (\E review \in Reviews : Finish(p, review))
      BY <3>3, <3>5, AccountsKept
    <3>6. CASE Activate(p)
      <4>1. CASE UNCHANGED stateVars
        BY <3>3, <4>1 DEF stateVars, accountVars
      <4>2. CASE gate # approval[p] /\ MayReplace(approval[p]) /\ ~UNCHANGED stateVars
        <5>1. approval[p] \in GateSet
          BY <4>2 DEF MayReplace, GateSet
        <5>2. reservation = None /\ reservation' = None /\ phase_used' = phase_used
          BY <3>6, <4>2, <5>1, ReplaceNeedsNone DEF Activate
        <5>. QED
          BY <3>3, <5>2
      <4>. QED
        BY <3>6, <4>1, <4>2 DEF Activate
    <3>7. CASE Settle(p)
      <4>1. /\ pc[p] = "settle" /\ reservation = Id(p) /\ reservation' = None
            /\ phase_used' = Plus(phase_used, usage[p])
        BY <3>7 DEF Settle, CanSettle
      <4>2. Id(p) # None
        BY <4>1, IdIsAttempt DEF Attempting
      <4>3. usage[p]["attempts"] = 1
        BY <4>1 DEF IInv, LocalInv, AttemptInHand
      <4>4. phase_used'["attempts"] = phase_used["attempts"] + 1
        BY <4>1, <4>3 DEF Plus, Meters
      <4>. QED
        BY <1>a, <1>1, <1>2, <2>3, <3>1, <3>2, <4>1, <4>2, <4>4 DEF Covered
    <3>. QED
      BY <1>2, <2>3, <3>4, <3>5, <3>6, <3>7 DEF Writes
  <2>. QED
    BY <2>1, <2>2, <2>3
<1>3. CASE World \/ UNCHANGED vars
  <2>1. UNCHANGED <<pc, calls, phase_used, reservation>>
    BY <1>3, WorldFrame DEF vars, stateVars, accountVars, callVars
  <2>. QED
    BY <1>0, <2>1 DEF Covered, Callers
<1>. QED
  BY <1>2, <1>3, NextCases

-----------------------------------------------------------------------------
\* IInv is inductive.
THEOREM IInvHolds == Spec => []IInv
<1>1. IInv /\ [Next]_vars => IInv'
  BY TypeStep, LocalStep, SerialStep, BudgetStep, CoveredStep, LateStep, CanaryStep DEF IInv
<1>. QED
  BY InitIInv, <1>1, PTL DEF Spec

\* The files and the processes keep the types of their variables.
THEOREM TypeCorrect == Spec => []TypeOK
<1>1. IInv => TypeOK
  BY DEF IInv
<1>. QED
  BY <1>1, IInvHolds, PTL

\* Used plus pending never exceeds the caps of the route, the batch and the pilot,
\* for any number of processes, losses and restarts.
THEOREM BudgetsAlwaysHold == Spec => []BudgetsHold
<1>1. IInv => BudgetsHold
  BY DEF IInv
<1>. QED
  BY <1>1, IInvHolds, PTL

\* Every request that ever left a process is settled or pending, although after a
\* revocation one process may settle what another reserved.
THEOREM EveryCallAccounted == Spec => []EveryCallIsAccounted
<1>1. IInv => EveryCallIsAccounted
  <2> SUFFICES ASSUME IInv PROVE EveryCallIsAccounted
    OBVIOUS
  <2>1. /\ Cardinality(Callers) \in Nat /\ calls \in Nat /\ phase_used["attempts"] \in Nat
        /\ calls + Cardinality(Callers)
             <= phase_used["attempts"] + (IF reservation = None THEN 0 ELSE 1)
    BY TypeParts, FS_CardinalityType DEF IInv, Covered, WorldTypes, FileTypes, Amounts, Meters
  <2>. QED
    BY <2>1 DEF EveryCallIsAccounted
<1>. QED
  BY <1>1, IInvHolds, PTL

\* Up to the revocation one process at a time is about to call or waits, with the
\* pending reservation of an open case of the active batch.
THEOREM CallsStaySerial == Spec => []CallsAreSerial
<1>1. IInv => CallsAreSerial
  BY DEF IInv, Serial, CallsAreSerial, InFlight, Holding
<1>. QED
  BY <1>1, IInvHolds, PTL

\* No process makes a second request after the revocation.
THEOREM OneLateCall == Spec => []AtMostOneLateCall
<1>1. IInv => AtMostOneLateCall
  <2> SUFFICES ASSUME IInv, NEW p \in Processes PROVE late[p] <= 1
    BY DEF AtMostOneLateCall
  <2>. QED
    BY DEF IInv, LateInv, LateOK
<1>. QED
  BY <1>1, IInvHolds, PTL

\* The attempt of a lost process blocks every request, and stays pending, up to
\* the revocation.
THEOREM LostBlocks == Spec => LostAttemptBlocks
<1>1. IInv /\ [Next]_vars => [Lost /\ ~revoked => calls' = calls /\ reservation' = reservation]_vars
  <2> SUFFICES ASSUME IInv, Next, Lost, ~revoked
               PROVE  calls' = calls /\ reservation' = reservation
    OBVIOUS
  <2>1. ASSUME NEW p \in Processes PROVE ~Holding(p)
    BY DEF IInv, Serial, Lost, Holding
  <2>2. ASSUME NEW p \in Processes, Quiet(p) \/ Writes(p)
        PROVE  calls' = calls /\ reservation' = reservation
    <3>1. calls' = calls
      BY <2>1, <2>2, WorldStep DEF Holding
    <3>2. reservation # None
      BY DEF Lost
    <3>3. CASE Quiet(p)
      BY <3>1, <3>3, QuietFrame DEF stateVars, accountVars
    <3>4. CASE Close(p) \/ (\E review \in Reviews : Finish(p, review))
      BY <3>1, <3>4, AccountsKept
    <3>5. CASE Activate(p)
      <4>1. MayReplace(approval[p]) => approval[p] \in GateSet
        BY DEF MayReplace, GateSet
      <4>. QED
        BY <3>1, <3>2, <3>5, <4>1, ReplaceNeedsNone DEF Activate, stateVars, accountVars
    <3>6. ~ReserveAttempt(p) /\ ~Settle(p)
      BY <2>1, <3>2 DEF ReserveAttempt, CanReserve, Settle, Holding
    <3>. QED
      BY <2>2, <3>3, <3>4, <3>5, <3>6 DEF Writes
  <2>3. CASE World
    BY <2>3, WorldFrame DEF stateVars, accountVars, callVars
  <2>. QED
    BY <2>2, <2>3, NextCases
<1>. QED
  BY <1>1, IInvHolds, PTL DEF Spec, LostAttemptBlocks

\* The second gate begins with every canary case closed and valid, and nothing
\* pending.
THEOREM GateTwoAfterCanary == Spec => GateTwoFollowsValidCanary
<1>1. IInv /\ [Next]_vars
        => [gate = Gates[1] /\ gate' = Gates[2]
             => /\ reservation = None
                /\ Approved(Gates[1]) \subseteq phase_completed
                /\ \A c \in Eligible[Gates[1]] : completed[c] /\ valid_result[c]]_vars
  <2> SUFFICES ASSUME IInv, Next, gate = Gates[1], gate' = Gates[2]
               PROVE  /\ reservation = None
                      /\ Approved(Gates[1]) \subseteq phase_completed
                      /\ \A c \in Eligible[Gates[1]] : completed[c] /\ valid_result[c]
    OBVIOUS
  <2>0. gate' # gate
    BY Phase8Constants
  <2>1. ASSUME NEW p \in Processes, Quiet(p) \/ Writes(p)
        PROVE  batch_completed /\ reservation = None
    <3>1. ~Quiet(p)
      BY <2>0, QuietFrame DEF stateVars, ledgerVars
    <3>2. ~Close(p) /\ ~(\E review \in Reviews : Finish(p, review))
      BY <2>0, AccountsKept
    <3>3. ~ReserveAttempt(p) /\ ~Settle(p)
      BY <2>0 DEF ReserveAttempt, Settle, ledgerVars
    <3>4. CASE Activate(p)
      <4>1. approval[p] = Gates[2] /\ MayReplace(approval[p])
        BY <2>0, <3>4 DEF Activate, stateVars, ledgerVars
      <4>. QED
        BY <4>1, Phase8Constants DEF MayReplace, GateSet
    <3>. QED
      BY <2>1, <3>1, <3>2, <3>3, <3>4 DEF Writes
  <2>2. ~World
    BY <2>0, WorldFrame DEF stateVars, ledgerVars
  <2>3. batch_completed /\ reservation = None
    BY <2>1, <2>2, NextCases
  <2>4. Eligible[Gates[1]] \subseteq Approved(Gates[1]) /\ Approved(Gates[1]) \subseteq Cases
    BY DEF Approved, Cases, GateSet
  <2>. QED
    BY <2>3, <2>4 DEF IInv, CanaryInv
<1>. QED
  BY <1>1, IInvHolds, PTL DEF Spec, GateTwoFollowsValidCanary
=============================================================================
