--------------------------- MODULE EventDelivery ---------------------------
(***************************************************************************)
(* The transactional outbox: audit events as a stream, the delivery rows   *)
(* of one subscriber, and the dispatchers that hand the events to it.      *)
(*                                                                         *)
(* A repository method is one transaction; the publisher is called outside *)
(* of any.  dispatch_once is given an instant and uses it for all its      *)
(* calls, so everything it stores counts from the moment of its claim.     *)
(* Time is relative: `wait' is the time until available_at, `held' the     *)
(* time since the claim of a row, `age' the time since the claim of a      *)
(* dispatcher; each stops where the code can no longer tell a difference.  *)
(* No attempt limit exists for deliveries, so `attempts' is left out.      *)
(***************************************************************************)
EXTENDS Naturals

CONSTANTS
    Events,          \* audit_event_id of the events the subscription selects
    StreamOf,        \* (entity_type, entity_id) of each event
    Dispatchers,     \* callers of dispatch_once, each with its worker_id
    NoDispatcher,    \* claimed_by IS NULL
    NoEvent,         \* a dispatcher without a claim
    LeaseSeconds,    \* lease_seconds
    RetryDelay,      \* retry_delay_seconds
    MaxCrashes,      \* bound: dispatchers lost inside dispatch_once
    MaxFailures,     \* bound: publishers that raise
    MaxOverruns      \* bound: instants at which a live dispatcher's lease ends

ASSUME EventDeliveryConstants ==
    /\ Events \subseteq Nat
    /\ DOMAIN StreamOf = Events
    /\ NoDispatcher \notin Dispatchers
    /\ NoEvent \notin Events
    /\ LeaseSeconds \in Nat \ {0}
    /\ RetryDelay \in Nat
    /\ MaxCrashes \in Nat
    /\ MaxFailures \in Nat
    /\ MaxOverruns \in Nat

VARIABLES
    committed,                        \* audit_events
    registered,                       \* event_subscriptions
    status, claimed_by, wait, held,   \* event_deliveries
    pc, job, age,                     \* the dispatchers
    handled,                          \* events the subscriber has processed
    crashes, failures, overruns

rowVars == <<status, claimed_by, wait, held>>
dispatcherVars == <<pc, job, age>>
boundVars == <<crashes, failures, overruns>>
vars == <<committed, registered, rowVars, dispatcherVars, handled, boundVars>>

Statuses == {"absent", "pending", "claimed", "retry", "delivered"}

TypeOK ==
    /\ committed \subseteq Events
    /\ registered \in BOOLEAN
    /\ status \in [Events -> Statuses]
    /\ claimed_by \in [Events -> Dispatchers \cup {NoDispatcher}]
    /\ wait \in [Events -> Nat]
    /\ held \in [Events -> Nat]
    /\ pc \in [Dispatchers -> {"idle", "publishing", "completing", "failing"}]
    /\ job \in [Dispatchers -> Events \cup {NoEvent}]
    /\ age \in [Dispatchers -> Nat]
    /\ handled \subseteq Events
    /\ crashes \in Nat
    /\ failures \in Nat
    /\ overruns \in Nat

Init ==
    /\ committed = {}
    /\ registered = FALSE
    /\ status = [e \in Events |-> "absent"]
    /\ claimed_by = [e \in Events |-> NoDispatcher]
    /\ wait = [e \in Events |-> 0]
    /\ held = [e \in Events |-> 0]
    /\ pc = [d \in Dispatchers |-> "idle"]
    /\ job = [d \in Dispatchers |-> NoEvent]
    /\ age = [d \in Dispatchers |-> 0]
    /\ handled = {}
    /\ crashes = 0
    /\ failures = 0
    /\ overruns = 0

(***************************************************************************)
(* The ledger                                                              *)
(***************************************************************************)

\* Events of the same stream with a smaller event_index.
Earlier(e) == {f \in Events : StreamOf[f] = StreamOf[e] /\ f < e}

\* _persist_event.  The event_streams row is locked before the event gets its
\* ids, so a stream commits in order; streams commit independently.
PersistEvent(e) ==
    /\ e \notin committed
    /\ Earlier(e) \subseteq committed
    /\ committed' = committed \cup {e}
    /\ UNCHANGED <<registered, rowVars, dispatcherVars, handled, boundVars>>

\* register_event_subscriber; events may be older than their subscriber.
Register ==
    /\ ~registered
    /\ registered' = TRUE
    /\ UNCHANGED <<committed, rowVars, dispatcherVars, handled, boundVars>>

\* _backfill_event_deliveries: a row, due at once, for every committed event.
Backfilled ==
    [e \in Events |-> IF e \in committed /\ status[e] = "absent"
                      THEN "pending" ELSE status[e]]

\* list_unpublished_events, or a claim that finds nothing.
Backfill ==
    /\ registered
    /\ status' = Backfilled
    /\ UNCHANGED <<committed, registered, claimed_by, wait, held,
                   dispatcherVars, handled, boundVars>>

(***************************************************************************)
(* dispatch_once                                                           *)
(***************************************************************************)

\* Mutants of Blocks: an event waiting for its retry, or one that is being
\* published, lets later events pass.
BlocksUnlessRetry(f) == Backfilled[f] \in {"pending", "claimed"}

BlocksUnlessClaimed(f) == Backfilled[f] \in {"pending", "retry"}

\* A row that is undelivered keeps the later events of its stream back.
Blocks(f) == Backfilled[f] \notin {"absent", "delivered"}

\* Mutant of Available: a claim whose lease ended is not handed out again.
AvailableNeverReclaims(e) == Backfilled[e] \in {"pending", "retry"} /\ wait[e] = 0

\* Due, or claimed under a lease that has ended.
Available(e) ==
    \/ Backfilled[e] \in {"pending", "retry"} /\ wait[e] = 0
    \/ Backfilled[e] = "claimed" /\ held[e] >= LeaseSeconds

Claimable(e) ==
    /\ Available(e)
    /\ \A f \in Earlier(e) : ~Blocks(f)

\* ORDER BY audit_event_id LIMIT 1.
NextClaimable(e) ==
    /\ Claimable(e)
    /\ \A f \in Events : Claimable(f) => e <= f

\* claim_next_event_delivery.
Claim(d, e) ==
    /\ registered
    /\ pc[d] = "idle"
    /\ NextClaimable(e)
    /\ status' = [Backfilled EXCEPT ![e] = "claimed"]
    /\ claimed_by' = [claimed_by EXCEPT ![e] = d]
    /\ held' = [held EXCEPT ![e] = 0]
    /\ pc' = [pc EXCEPT ![d] = "publishing"]
    /\ job' = [job EXCEPT ![d] = e]
    /\ age' = [age EXCEPT ![d] = 0]
    /\ UNCHANGED <<committed, registered, wait, handled, boundVars>>

\* dispatch_once is left and its local variables are gone.
EndDispatch(d) ==
    /\ pc' = [pc EXCEPT ![d] = "idle"]
    /\ job' = [job EXCEPT ![d] = NoEvent]
    /\ age' = [age EXCEPT ![d] = 0]

\* publisher.publish processes the event and returns; a publisher that has seen
\* the event before does nothing with it.
Publish(d) ==
    /\ pc[d] = "publishing"
    /\ handled' = handled \cup {job[d]}
    /\ pc' = [pc EXCEPT ![d] = "completing"]
    /\ UNCHANGED <<committed, registered, rowVars, job, age, boundVars>>

\* publisher.publish raises, with the event processed or not.
PublishRaises(d, processed) ==
    /\ pc[d] = "publishing"
    /\ failures < MaxFailures
    /\ handled' = IF processed THEN handled \cup {job[d]} ELSE handled
    /\ pc' = [pc EXCEPT ![d] = "failing"]
    /\ failures' = failures + 1
    /\ UNCHANGED <<committed, registered, rowVars, job, age, crashes, overruns>>

\* Mutant of Holds: any dispatcher may report on a claimed row.
HoldsByStatusOnly(d) == status[job[d]] = "claimed"

\* The holder test that complete and fail share.
Holds(d) ==
    /\ status[job[d]] = "claimed"
    /\ claimed_by[job[d]] = d

\* The lease had already ended at the instant dispatch_once was given.
EndedAtClaim(d) == age[d] + LeaseSeconds < held[job[d]]

\* complete_event_delivery.
CompleteDelivery(d) ==
    /\ pc[d] = "completing"
    /\ Holds(d) /\ ~EndedAtClaim(d)
    /\ status' = [status EXCEPT ![job[d]] = "delivered"]
    /\ claimed_by' = [claimed_by EXCEPT ![job[d]] = NoDispatcher]
    /\ held' = [held EXCEPT ![job[d]] = 0]
    /\ EndDispatch(d)
    /\ UNCHANGED <<committed, registered, wait, handled, boundVars>>

\* EventDeliveryClaimError leaves dispatch_once.
CompleteRefused(d) ==
    /\ pc[d] = "completing"
    /\ ~(Holds(d) /\ ~EndedAtClaim(d))
    /\ EndDispatch(d)
    /\ UNCHANGED <<committed, registered, rowVars, handled, boundVars>>

\* Mutants of FailDelivery: the dispatcher gives the event up; the row gets a
\* status nobody else knows.
FailDeliveryGivesUp(d) ==
    /\ pc[d] = "failing"
    /\ Holds(d)
    /\ status' = [status EXCEPT ![job[d]] = "delivered"]
    /\ claimed_by' = [claimed_by EXCEPT ![job[d]] = NoDispatcher]
    /\ held' = [held EXCEPT ![job[d]] = 0]
    /\ EndDispatch(d)
    /\ UNCHANGED <<committed, registered, wait, handled, boundVars>>

FailDeliveryUnknownStatus(d) ==
    /\ pc[d] = "failing"
    /\ Holds(d)
    /\ status' = [status EXCEPT ![job[d]] = "failed"]
    /\ claimed_by' = [claimed_by EXCEPT ![job[d]] = NoDispatcher]
    /\ held' = [held EXCEPT ![job[d]] = 0]
    /\ EndDispatch(d)
    /\ UNCHANGED <<committed, registered, wait, handled, boundVars>>

\* fail_event_delivery: due again a delay after the claim.
FailDelivery(d) ==
    /\ pc[d] = "failing"
    /\ Holds(d)
    /\ status' = [status EXCEPT ![job[d]] = "retry"]
    /\ wait' = [wait EXCEPT ![job[d]] =
                  IF age[d] < RetryDelay THEN RetryDelay - age[d] ELSE 0]
    /\ claimed_by' = [claimed_by EXCEPT ![job[d]] = NoDispatcher]
    /\ held' = [held EXCEPT ![job[d]] = 0]
    /\ EndDispatch(d)
    /\ UNCHANGED <<committed, registered, handled, boundVars>>

FailRefused(d) ==
    /\ pc[d] = "failing"
    /\ ~Holds(d)
    /\ EndDispatch(d)
    /\ UNCHANGED <<committed, registered, rowVars, handled, boundVars>>

(***************************************************************************)
(* The environment                                                         *)
(***************************************************************************)

Crash(d) ==
    /\ crashes < MaxCrashes
    /\ pc[d] # "idle"
    /\ EndDispatch(d)
    /\ crashes' = crashes + 1
    /\ UNCHANGED <<committed, registered, rowVars, handled, failures, overruns>>

\* The next instant ends the lease of a dispatcher that is still at work.
Overrun ==
    \E d \in Dispatchers :
        pc[d] # "idle" /\ Holds(d) /\ held[job[d]] + 1 = LeaseSeconds

Tick ==
    /\ Overrun => overruns < MaxOverruns
    /\ overruns' = IF Overrun THEN overruns + 1 ELSE overruns
    /\ wait' = [e \in Events |-> IF wait[e] > 0 THEN wait[e] - 1 ELSE 0]
    /\ held' = [e \in Events |->
                  IF status[e] = "claimed" /\ held[e] < LeaseSeconds
                  THEN held[e] + 1 ELSE held[e]]
    /\ age' = [d \in Dispatchers |->
                 IF pc[d] # "idle" /\ age[d] < RetryDelay
                 THEN age[d] + 1 ELSE age[d]]
    /\ UNCHANGED <<committed, registered, status, claimed_by, pc, job, handled,
                   crashes, failures>>

ClaimNext(d) == \E e \in Events : Claim(d, e)

\* What a live dispatcher does by itself once it holds an event.
Work(d) ==
    \/ Publish(d)
    \/ \E processed \in BOOLEAN : PublishRaises(d, processed)
    \/ CompleteDelivery(d) \/ CompleteRefused(d)
    \/ FailDelivery(d) \/ FailRefused(d)

Next ==
    \/ \E e \in Events : PersistEvent(e)
    \/ Register
    \/ Backfill
    \/ \E d \in Dispatchers : ClaimNext(d) \/ Work(d) \/ Crash(d)
    \/ Tick

Spec == Init /\ [][Next]_vars

(***************************************************************************)
(* Fairness: time passes, somebody keeps calling dispatch_once for the     *)
(* subscriber, and a call that has begun goes on.  Publishers may raise,   *)
(* dispatchers may be lost and leases may be outrun, but not for ever.     *)
(***************************************************************************)
Fairness ==
    /\ WF_vars(Tick)
    /\ \A d \in Dispatchers : WF_vars(ClaimNext(d)) /\ WF_vars(Work(d))

LiveSpec == Spec /\ Fairness

(***************************************************************************)
(* Properties                                                              *)
(***************************************************************************)

\* "Ordering is preserved within each stream": the subscriber has never
\* processed an event without all earlier events of its stream, whichever
\* dispatchers were slow, lost or overtaken.  The set grows by one event at a
\* time, so this is the order of first processing.
HandledInOrder == \A e \in handled : Earlier(e) \subseteq handled

\* A delivered checkpoint is never ahead of the subscriber: no event is
\* skipped by a late or lost dispatcher.
DeliveredWasHandled == \A e \in Events : status[e] = "delivered" => e \in handled

\* Dispatchers work on different streams at the same time, never on two
\* events of one stream.
OneClaimPerStream ==
    \A e, f \in Events :
        status[e] = "claimed" /\ status[f] = "claimed" /\ StreamOf[e] = StreamOf[f]
            => e = f

\* A late report by a dispatcher that lost its claim changes no row: a row
\* leaves `claimed' only through its holder, and is claimed anew only when
\* its lease has ended.
ClaimEndsRightly(e) ==
    status[e] = "claimed" /\ (status'[e] # "claimed" \/ claimed_by'[e] # claimed_by[e])
      => \/ status'[e] = "claimed" /\ held[e] >= LeaseSeconds
         \/ \E d \in Dispatchers : /\ d = claimed_by[e] /\ job[d] = e
                                   /\ pc[d] # "idle" /\ pc'[d] = "idle"

\* Delivered events are never delivered again and claims are only lost as
\* ClaimEndsRightly allows.
LateReportsChangeNothing ==
    [][\A e \in Events : /\ ClaimEndsRightly(e)
                         /\ status[e] = "delivered" => status'[e] = "delivered"]_vars

\* "subscriber registration or dispatcher downtime cannot lose a committed
\* event": every event, also one older than its subscriber, is eventually
\* checkpointed.
EveryEventDelivered ==
    \A e \in Events : registered /\ e \in committed ~> status[e] = "delivered"
=============================================================================
