------------------------ MODULE EventDeliveryProofs ------------------------
(***************************************************************************)
(* The safety properties of the outbox, for any events, streams and        *)
(* dispatchers, any lease and retry delay, and any number of crashes,      *)
(* publisher failures and outrun leases.                                   *)
(***************************************************************************)
EXTENDS EventDelivery, TLAPS

\* Writers of a stream are serialised.
StreamsCommitInOrder == \A e \in committed : Earlier(e) \subseteq committed

\* Rows are only ever made for committed events.
RowsAreCommitted == \A e \in Events : status[e] # "absent" => e \in committed

\* Nothing before e in its stream is left to deliver.
Cleared(e) == \A f \in Earlier(e) : status[f] = "delivered"

\* An event that is or was being delivered has nothing left before it.
ClaimsAreCleared ==
    \A e \in Events : status[e] \in {"claimed", "delivered"} => Cleared(e)

\* The same is true of the event a dispatcher works on, also after its lease
\* ended; and a dispatcher completes only what the subscriber has processed.
Knows(d) ==
    pc[d] # "idle" =>
        /\ job[d] \in Events
        /\ Cleared(job[d])
        /\ pc[d] = "completing" => job[d] \in handled

DispatcherInv == \A d \in Dispatchers : Knows(d)

IInv ==
    /\ TypeOK
    /\ StreamsCommitInOrder
    /\ RowsAreCommitted
    /\ ClaimsAreCleared
    /\ DispatcherInv
    /\ DeliveredWasHandled
    /\ HandledInOrder

-----------------------------------------------------------------------------
\* The initial state satisfies the inductive invariant.
LEMMA InitIInv == Init => IInv
<1> SUFFICES ASSUME Init PROVE IInv
  OBVIOUS
<1>1. TypeOK
  BY EventDeliveryConstants DEF Init, TypeOK, Statuses
<1>2. StreamsCommitInOrder /\ HandledInOrder
  BY DEF Init, StreamsCommitInOrder, HandledInOrder
<1>3. RowsAreCommitted /\ ClaimsAreCleared /\ DeliveredWasHandled
  BY DEF Init, RowsAreCommitted, ClaimsAreCleared, DeliveredWasHandled
<1>4. DispatcherInv
  BY DEF Init, DispatcherInv, Knows
<1>. QED
  BY <1>1, <1>2, <1>3, <1>4 DEF IInv

\* The delivery rows after a backfill are rows again.
LEMMA BackfillType == TypeOK => Backfilled \in [Events -> Statuses]
  BY DEF TypeOK, Backfilled, Statuses

\* What claim_next_event_delivery hands out has nothing left before it: the
\* backfill leaves no committed event without a row, so an earlier event can
\* hide neither behind a missing row nor behind an unfinished one.
LEMMA ClaimedIsCleared ==
    ASSUME IInv, NEW e \in Events, Claimable(e) PROVE Cleared(e)
<1> SUFFICES ASSUME NEW f \in Earlier(e) PROVE status[f] = "delivered"
  BY DEF Cleared
<1>1. f \in Events /\ Backfilled[f] \in {"absent", "delivered"}
  BY DEF Claimable, Blocks, Earlier
<1>2. e \in committed
  BY DEF IInv, RowsAreCommitted, Claimable, Available, Backfilled
<1>3. f \in committed
  BY <1>2 DEF IInv, StreamsCommitInOrder
<1>. QED
  BY <1>1, <1>3 DEF Backfilled

\* Every step keeps the rows, the dispatchers and the counters in their types.
LEMMA TypeStep == TypeOK /\ DispatcherInv /\ [Next]_vars => TypeOK'
<1> SUFFICES ASSUME TypeOK, DispatcherInv, [Next]_vars PROVE TypeOK'
  OBVIOUS
<1> USE EventDeliveryConstants DEF TypeOK, Statuses
<1>1. ASSUME NEW e \in Events, PersistEvent(e) PROVE TypeOK'
  BY <1>1 DEF PersistEvent, rowVars, dispatcherVars, boundVars
<1>2. CASE Register
  BY <1>2 DEF Register, rowVars, dispatcherVars, boundVars
<1>3. CASE Backfill
  BY <1>3, BackfillType DEF Backfill, dispatcherVars, boundVars
<1>4. ASSUME NEW d \in Dispatchers, NEW e \in Events, Claim(d, e) PROVE TypeOK'
  BY <1>4, BackfillType DEF Claim, boundVars
<1>5. ASSUME NEW d \in Dispatchers, Publish(d) PROVE TypeOK'
  BY <1>5 DEF Publish, DispatcherInv, Knows, rowVars, boundVars
<1>6. ASSUME NEW d \in Dispatchers, NEW p \in BOOLEAN, PublishRaises(d, p)
      PROVE TypeOK'
  <2>1. handled' \subseteq Events
    BY <1>6 DEF PublishRaises, DispatcherInv, Knows
  <2>2. pc' \in [Dispatchers -> {"idle", "publishing", "completing", "failing"}]
    BY <1>6 DEF PublishRaises
  <2>. QED
    BY <1>6, <2>1, <2>2 DEF PublishRaises, rowVars
<1>7. ASSUME NEW d \in Dispatchers, CompleteDelivery(d) PROVE TypeOK'
  BY <1>7 DEF CompleteDelivery, EndDispatch, boundVars
<1>8. ASSUME NEW d \in Dispatchers, CompleteRefused(d) PROVE TypeOK'
  BY <1>8 DEF CompleteRefused, EndDispatch, rowVars, boundVars
<1>9. ASSUME NEW d \in Dispatchers, FailDelivery(d) PROVE TypeOK'
  <2>1. (IF age[d] < RetryDelay THEN RetryDelay - age[d] ELSE 0) \in Nat
    OBVIOUS
  <2>. QED
    BY <1>9, <2>1 DEF FailDelivery, EndDispatch, boundVars
<1>10. ASSUME NEW d \in Dispatchers, FailRefused(d) PROVE TypeOK'
  BY <1>10 DEF FailRefused, EndDispatch, rowVars, boundVars
<1>11. ASSUME NEW d \in Dispatchers, Crash(d) PROVE TypeOK'
  BY <1>11 DEF Crash, EndDispatch, rowVars
<1>12. CASE Tick
  <2>1. wait' \in [Events -> Nat]
    BY <1>12 DEF Tick
  <2>2. held' \in [Events -> Nat]
    BY <1>12 DEF Tick
  <2>3. age' \in [Dispatchers -> Nat]
    BY <1>12 DEF Tick
  <2>4. overruns' \in Nat
    BY <1>12 DEF Tick
  <2>. QED
    BY <1>12, <2>1, <2>2, <2>3, <2>4 DEF Tick
<1>13. CASE UNCHANGED vars
  BY <1>13 DEF vars, rowVars, dispatcherVars, boundVars
<1>. QED
  BY <1>1, <1>2, <1>3, <1>4, <1>5, <1>6, <1>7, <1>8, <1>9, <1>10, <1>11,
     <1>12, <1>13 DEF Next, ClaimNext, Work

-----------------------------------------------------------------------------
\* Every step keeps the streams committed in order and rows behind commits.
LEMMA CommitStep ==
    IInv /\ [Next]_vars => StreamsCommitInOrder' /\ RowsAreCommitted'
<1> SUFFICES ASSUME IInv, [Next]_vars
             PROVE StreamsCommitInOrder' /\ RowsAreCommitted'
  OBVIOUS
<1> USE DEF IInv, TypeOK, StreamsCommitInOrder, RowsAreCommitted
<1>1. ASSUME NEW e \in Events, PersistEvent(e)
      PROVE StreamsCommitInOrder' /\ RowsAreCommitted'
  BY <1>1 DEF PersistEvent, rowVars, Earlier
<1>2. CASE Backfill
  BY <1>2 DEF Backfill, Backfilled
<1>3. ASSUME NEW d \in Dispatchers, NEW e \in Events, Claim(d, e)
      PROVE StreamsCommitInOrder' /\ RowsAreCommitted'
  <2>1. e \in committed
    BY <1>3 DEF Claim, NextClaimable, Claimable, Available, Backfilled
  <2>. QED
    BY <1>3, <2>1 DEF Claim, Backfilled
<1>4. ASSUME NEW d \in Dispatchers, CompleteDelivery(d) \/ FailDelivery(d)
      PROVE StreamsCommitInOrder' /\ RowsAreCommitted'
  BY <1>4 DEF CompleteDelivery, FailDelivery, Holds
<1>5. CASE UNCHANGED <<committed, status>>
  BY <1>5
<1>6. ASSUME NEW d \in Dispatchers,
             Publish(d) \/ (\E p \in BOOLEAN : PublishRaises(d, p))
               \/ CompleteRefused(d) \/ FailRefused(d) \/ Crash(d)
      PROVE UNCHANGED <<committed, status>>
  BY <1>6 DEF Publish, PublishRaises, CompleteRefused, FailRefused, Crash, rowVars
<1>7. CASE Register \/ Tick \/ UNCHANGED vars
  BY <1>5, <1>7 DEF Register, Tick, vars, rowVars
<1>. QED
  BY <1>1, <1>2, <1>3, <1>4, <1>5, <1>6, <1>7 DEF Next, ClaimNext, Work

\* No step reopens what has been delivered.
LEMMA DeliveredStep ==
    IInv /\ [Next]_vars =>
        \A e \in Events : status[e] = "delivered" => status'[e] = "delivered"
<1> SUFFICES ASSUME IInv, [Next]_vars, NEW e \in Events, status[e] = "delivered"
             PROVE status'[e] = "delivered"
  OBVIOUS
<1> USE DEF IInv, TypeOK
<1>1. CASE Backfill
  BY <1>1 DEF Backfill, Backfilled
<1>2. ASSUME NEW d \in Dispatchers, NEW f \in Events, Claim(d, f)
      PROVE status'[e] = "delivered"
  BY <1>2 DEF Claim, NextClaimable, Claimable, Available, Backfilled
<1>3. ASSUME NEW d \in Dispatchers, CompleteDelivery(d) \/ FailDelivery(d)
      PROVE status'[e] = "delivered"
  BY <1>3 DEF CompleteDelivery, FailDelivery, Holds
<1>4. ASSUME NEW d \in Dispatchers,
             Publish(d) \/ (\E p \in BOOLEAN : PublishRaises(d, p))
               \/ CompleteRefused(d) \/ FailRefused(d) \/ Crash(d)
      PROVE UNCHANGED status
  BY <1>4 DEF Publish, PublishRaises, CompleteRefused, FailRefused, Crash, rowVars
<1>5. ASSUME (\E f \in Events : PersistEvent(f)) \/ Register \/ Tick \/ UNCHANGED vars
      PROVE UNCHANGED status
  BY <1>5 DEF PersistEvent, Register, Tick, vars, rowVars
<1>. QED
  BY <1>1, <1>2, <1>3, <1>4, <1>5 DEF Next, ClaimNext, Work

\* Once cleared, an event stays cleared.
LEMMA ClearedStep ==
    ASSUME IInv, [Next]_vars, NEW e \in Events, Cleared(e) PROVE Cleared(e)'
  BY DeliveredStep DEF Cleared, Earlier

\* Every step keeps the claims cleared: only a claim starts a delivery, and
\* ClaimedIsCleared says what it may choose.
LEMMA ClaimStep == IInv /\ [Next]_vars => ClaimsAreCleared'
<1> SUFFICES ASSUME IInv, [Next]_vars, NEW e \in Events,
                    status'[e] \in {"claimed", "delivered"}
             PROVE Cleared(e)'
  BY DEF ClaimsAreCleared
<1>1. CASE status[e] \in {"claimed", "delivered"}
  BY <1>1, ClearedStep DEF IInv, ClaimsAreCleared
<1>2. CASE status[e] \notin {"claimed", "delivered"}
  <2> USE <1>2 DEF IInv, TypeOK
  <2>1. ASSUME NEW d \in Dispatchers, NEW f \in Events, Claim(d, f)
        PROVE Cleared(e)
    <3>1. f = e
      BY <2>1 DEF Claim, Backfilled
    <3>. QED
      BY <2>1, <3>1, ClaimedIsCleared DEF Claim, NextClaimable
  <2>2. ~Backfill
    BY DEF Backfill, Backfilled
  <2>3. ASSUME NEW d \in Dispatchers, CompleteDelivery(d) \/ FailDelivery(d)
        PROVE FALSE
    BY <2>3 DEF CompleteDelivery, FailDelivery, Holds
  <2>4. ASSUME NEW d \in Dispatchers,
               Publish(d) \/ (\E p \in BOOLEAN : PublishRaises(d, p))
                 \/ CompleteRefused(d) \/ FailRefused(d) \/ Crash(d)
        PROVE FALSE
    BY <2>4 DEF Publish, PublishRaises, CompleteRefused, FailRefused, Crash, rowVars
  <2>5. ASSUME (\E f \in Events : PersistEvent(f)) \/ Register \/ Tick
                 \/ UNCHANGED vars
        PROVE FALSE
    BY <2>5 DEF PersistEvent, Register, Tick, vars, rowVars
  <2>6. Cleared(e)
    BY <2>1, <2>2, <2>3, <2>4, <2>5 DEF Next, ClaimNext, Work
  <2>. QED
    BY <2>6, ClearedStep
<1>. QED
  BY <1>1, <1>2

\* Every step keeps what the dispatchers know of their events.
LEMMA DispatcherStep == IInv /\ [Next]_vars => DispatcherInv'
<1> SUFFICES ASSUME IInv, [Next]_vars, NEW v \in Dispatchers, pc'[v] # "idle"
             PROVE /\ job'[v] \in Events
                   /\ Cleared(job[v])'
                   /\ pc'[v] = "completing" => job'[v] \in handled'
  BY DEF DispatcherInv, Knows
<1> USE DEF IInv, TypeOK
<1>1. ASSUME NEW d \in Dispatchers, NEW e \in Events, Claim(d, e), v = d
      PROVE job'[v] \in Events /\ Cleared(job[v])' /\ pc'[v] # "completing"
  <2>1. job'[v] = e /\ pc'[v] = "publishing"
    BY <1>1 DEF Claim
  <2>2. Cleared(e)
    BY <1>1, ClaimedIsCleared DEF Claim, NextClaimable
  <2>3. Cleared(e)'
    BY <2>2, ClearedStep
  <2>. QED
    BY <2>1, <2>3 DEF Cleared
<1>2. CASE /\ pc[v] # "idle" /\ job'[v] = job[v]
           /\ pc'[v] = "completing" => job[v] \in handled'
  <2>1. job[v] \in Events /\ Cleared(job[v])
    BY <1>2 DEF DispatcherInv, Knows
  <2>2. \A f \in Earlier(job[v]) : status'[f] = "delivered"
    BY <2>1, DeliveredStep DEF Cleared, Earlier
  <2>. QED
    BY <1>2, <2>1, <2>2 DEF Cleared
<1>3. CASE /\ pc'[v] = pc[v] /\ job'[v] = job[v]
           /\ handled \subseteq handled'
  BY <1>2, <1>3 DEF DispatcherInv, Knows
<1>4. ASSUME NEW d \in Dispatchers, NEW e \in Events, Claim(d, e), v # d
      PROVE pc'[v] = pc[v] /\ job'[v] = job[v] /\ handled \subseteq handled'
  BY <1>4 DEF Claim
<1>5. ASSUME NEW d \in Dispatchers, Publish(d)
      PROVE \/ pc[v] # "idle" /\ job'[v] = job[v] /\ job[v] \in handled'
            \/ pc'[v] = pc[v] /\ job'[v] = job[v] /\ handled \subseteq handled'
  BY <1>5 DEF Publish
<1>6. ASSUME NEW d \in Dispatchers, NEW p \in BOOLEAN, PublishRaises(d, p)
      PROVE \/ pc[v] # "idle" /\ job'[v] = job[v] /\ pc'[v] = "failing"
            \/ pc'[v] = pc[v] /\ job'[v] = job[v] /\ handled \subseteq handled'
  BY <1>6 DEF PublishRaises
<1>7. ASSUME NEW d \in Dispatchers,
             CompleteDelivery(d) \/ CompleteRefused(d) \/ FailDelivery(d)
               \/ FailRefused(d) \/ Crash(d)
      PROVE pc'[v] = pc[v] /\ job'[v] = job[v] /\ handled \subseteq handled'
  BY <1>7 DEF CompleteDelivery, CompleteRefused, FailDelivery, FailRefused,
              Crash, EndDispatch
<1>8. ASSUME (\E e \in Events : PersistEvent(e)) \/ Register \/ Backfill \/ Tick
               \/ UNCHANGED vars
      PROVE pc'[v] = pc[v] /\ job'[v] = job[v] /\ handled \subseteq handled'
  BY <1>8 DEF PersistEvent, Register, Backfill, Tick, vars, dispatcherVars
<1>. QED
  BY <1>1, <1>2, <1>3, <1>4, <1>5, <1>6, <1>7, <1>8 DEF Next, ClaimNext, Work

\* Every step keeps the checkpoints behind the subscriber and the subscriber
\* in stream order.
LEMMA HandledStep == IInv /\ [Next]_vars => DeliveredWasHandled' /\ HandledInOrder'
<1> SUFFICES ASSUME IInv, [Next]_vars PROVE DeliveredWasHandled' /\ HandledInOrder'
  OBVIOUS
<1> USE DEF IInv, TypeOK, DeliveredWasHandled
<1>1. ASSUME NEW d \in Dispatchers,
             Publish(d) \/ (\E p \in BOOLEAN : PublishRaises(d, p))
      PROVE DeliveredWasHandled' /\ HandledInOrder'
  <2>1. status' = status /\ (handled' = handled \/ handled' = handled \cup {job[d]})
    BY <1>1 DEF Publish, PublishRaises, rowVars
  <2>2. job[d] \in Events /\ Cleared(job[d])
    BY <1>1 DEF Publish, PublishRaises, DispatcherInv, Knows
  <2>3. Earlier(job[d]) \subseteq handled
    BY <2>2 DEF Cleared, Earlier
  <2>4. DeliveredWasHandled'
    BY <2>1
  <2>5. HandledInOrder'
    BY <2>1, <2>3 DEF HandledInOrder, Earlier
  <2>. QED
    BY <2>4, <2>5
<1>2. CASE /\ handled' = handled
           /\ \A e \in Events : status'[e] = "delivered" => e \in handled
  BY <1>2 DEF HandledInOrder, Earlier
<1>3. ASSUME NEW d \in Dispatchers, CompleteDelivery(d)
      PROVE /\ handled' = handled
            /\ \A e \in Events : status'[e] = "delivered" => e \in handled
  BY <1>3 DEF CompleteDelivery, DispatcherInv, Knows
<1>4. ASSUME NEW d \in Dispatchers,
             (\E e \in Events : Claim(d, e)) \/ FailDelivery(d)
               \/ CompleteRefused(d) \/ FailRefused(d) \/ Crash(d)
      PROVE /\ handled' = handled
            /\ \A e \in Events : status'[e] = "delivered" => e \in handled
  BY <1>4 DEF Claim, FailDelivery, CompleteRefused, FailRefused, Crash,
              Backfilled, rowVars
<1>5. ASSUME (\E e \in Events : PersistEvent(e)) \/ Register \/ Backfill \/ Tick
               \/ UNCHANGED vars
      PROVE /\ handled' = handled
            /\ \A e \in Events : status'[e] = "delivered" => e \in handled
  BY <1>5 DEF PersistEvent, Register, Backfill, Backfilled, Tick, vars, rowVars
<1>. QED
  BY <1>1, <1>2, <1>3, <1>4, <1>5 DEF Next, ClaimNext, Work

\* The invariant is inductive.
LEMMA NextIInv == IInv /\ [Next]_vars => IInv'
  BY TypeStep, CommitStep, ClaimStep, DispatcherStep, HandledStep DEF IInv

\* IInv holds in every reachable state of the outbox.
THEOREM Invariance == Spec => []IInv
<1>. QED
  BY InitIInv, NextIInv, PTL DEF Spec

-----------------------------------------------------------------------------
\* Type correctness of events, rows and dispatchers.
THEOREM TypeCorrect == Spec => []TypeOK
<1>1. IInv => TypeOK
  BY DEF IInv
<1>. QED
  BY Invariance, <1>1, PTL

\* Whatever its dispatchers do, a subscriber that deduplicates by event_id
\* processes every stream in order and without a gap.
THEOREM SubscriberSeesStreamOrder == Spec => []HandledInOrder
<1>1. IInv => HandledInOrder
  BY DEF IInv
<1>. QED
  BY Invariance, <1>1, PTL

\* Delivery is at least once: no event is checkpointed that the subscriber has
\* not processed.
THEOREM NothingIsSkipped == Spec => []DeliveredWasHandled
<1>1. IInv => DeliveredWasHandled
  BY DEF IInv
<1>. QED
  BY Invariance, <1>1, PTL

\* Two dispatchers never hold claims on two events of one stream.
THEOREM StreamsAreSerial == Spec => []OneClaimPerStream
<1>1. IInv => OneClaimPerStream
  <2> SUFFICES ASSUME IInv, NEW e \in Events, NEW f \in Events,
                      status[e] = "claimed", status[f] = "claimed",
                      StreamOf[e] = StreamOf[f]
               PROVE e = f
    BY DEF OneClaimPerStream
  <2>1. e \in Nat /\ f \in Nat
    BY EventDeliveryConstants
  <2>2. ~(e < f)
    BY DEF IInv, ClaimsAreCleared, Cleared, Earlier
  <2>3. ~(f < e)
    BY DEF IInv, ClaimsAreCleared, Cleared, Earlier
  <2>. QED
    BY <2>1, <2>2, <2>3
<1>. QED
  BY Invariance, <1>1, PTL

\* An overtaken dispatcher changes no row, and nothing is delivered twice
\* according to the checkpoints.
THEOREM LateDispatchersAreHarmless == Spec => LateReportsChangeNothing
<1>1. ASSUME IInv, [Next]_vars, NEW e \in Events PROVE ClaimEndsRightly(e)
  <2> USE <1>1 DEF IInv, TypeOK, ClaimEndsRightly
  <2>1. CASE Backfill
    BY <2>1 DEF Backfill, Backfilled
  <2>2. ASSUME NEW d \in Dispatchers, NEW f \in Events, Claim(d, f)
        PROVE ClaimEndsRightly(e)
    BY <2>2 DEF Claim, NextClaimable, Claimable, Available, Backfilled
  <2>3. ASSUME NEW d \in Dispatchers, CompleteDelivery(d) \/ FailDelivery(d)
        PROVE ClaimEndsRightly(e)
    BY <2>3 DEF CompleteDelivery, FailDelivery, Holds, EndDispatch
  <2>4. CASE UNCHANGED <<status, claimed_by>>
    BY <2>4
  <2>5. ASSUME NEW d \in Dispatchers,
               Publish(d) \/ (\E p \in BOOLEAN : PublishRaises(d, p))
                 \/ CompleteRefused(d) \/ FailRefused(d) \/ Crash(d)
        PROVE UNCHANGED <<status, claimed_by>>
    BY <2>5 DEF Publish, PublishRaises, CompleteRefused, FailRefused, Crash, rowVars
  <2>6. ASSUME (\E f \in Events : PersistEvent(f)) \/ Register \/ Tick
                 \/ UNCHANGED vars
        PROVE UNCHANGED <<status, claimed_by>>
    BY <2>6 DEF PersistEvent, Register, Tick, vars, rowVars
  <2>. QED
    BY <2>1, <2>2, <2>3, <2>4, <2>5, <2>6 DEF Next, ClaimNext, Work
<1>2. IInv /\ [Next]_vars =>
        [\A e \in Events : /\ ClaimEndsRightly(e)
                           /\ status[e] = "delivered" => status'[e] = "delivered"]_vars
  BY <1>1, DeliveredStep
<1>. QED
  BY Invariance, <1>2, PTL DEF Spec, LateReportsChangeNothing
=============================================================================
