----------------------------- MODULE MCScheduler -----------------------------
EXTENDS Scheduler, TLC

Slot(cadence, anchor) == [cadence |-> cadence, anchor_at |-> anchor]

Draft(p, d, n, effective, paused, a, b) ==
    [plan |-> p, deployment |-> d, revision |-> n, effective_at |-> effective,
     paused |-> paused, a |-> a, b |-> b]

\* Plan 1 is edited by a later number with an earlier date; plan 2 falls due
\* together with plan 1 at instant 1.
FirstRevision == Draft(1, 1, 1, 1, FALSE, Slot(1, 0), Slot(1, 1))
BackdatedEdit == Draft(1, 1, 2, 0, FALSE, Slot(1, 0), Slot(2, 0))
OtherPlan == Draft(2, 1, 1, 1, FALSE, Slot(1, 1), Slot(4, 1))
\* A pause, for another deployment of plan 1.
MovedPause == Draft(1, 2, 3, 0, TRUE, Slot(1, 0), Slot(1, 0))

RaceDrafts == {FirstRevision, BackdatedEdit, OtherPlan, MovedPause}

\* One plan: both slots fall due at instants 1 and 3.
OnePlan == {Draft(1, 1, 1, 0, FALSE, Slot(2, 1), Slot(4, 1))}

\* A caller registers the instant the first revision schedules.
OneRegistration == {[plan |-> 1, revision |-> 1, due_at |-> 1, kind |-> "scheduled_b"]}
=============================================================================
