------------------------------ MODULE Scheduler ------------------------------
(***************************************************************************)
(* Review plans and the scheduler that turns their due instants into work. *)
(*                                                                         *)
(* A plan is a list of immutable revisions, each with an instant from      *)
(* which it is in force and a cadence for reviewers A and B.  tick(at)     *)
(* lists the revisions once and then, plan by plan, records the occurrence *)
(* that is due at exactly `at' and enqueues its work item, each in a       *)
(* transaction of its own.  Several scheduler processes tick with the      *)
(* instant they read from the clock; operators tick through the API with   *)
(* an instant of their choice; callers register occurrences at intake.     *)
(* Methods that look a row up and insert it when it is missing are two     *)
(* steps, because read-committed transactions interleave there; the unique *)
(* key decides, and the loser's error ends its tick and, for a scheduler   *)
(* process, the process.                                                   *)
(***************************************************************************)
EXTENDS Naturals, Sequences, FiniteSets

CONSTANTS
    Schedulers,      \* scheduler processes
    Operators,       \* API calls of /scheduler/tick
    Drafts,          \* the plan revisions that may be added
    Registrations,   \* occurrences callers may register under their own id
    Interval,        \* interval_seconds between two polls
    MaxTime,         \* bound: last instant of the clock
    MaxCrashes       \* bound: tickers lost inside a tick

Tickers == Schedulers \cup Operators
Instants == 0 .. MaxTime
Kinds == {"scheduled_a", "scheduled_b"}

\* The schedule of a slot, and what validate_slots and the field validators
\* let into a revision: A and B have a cadence, C is event_only.
SlotSchedules == [cadence : Nat \ {0}, anchor_at : Nat]

Revisions ==
    [plan : Nat, deployment : Nat, revision : Nat \ {0}, effective_at : Nat,
     paused : BOOLEAN, a : SlotSchedules, b : SlotSchedules]

\* The columns of an occurrence that the schedule determines.
Slots == [plan : Nat, revision : Nat \ {0}, due_at : Nat, kind : Kinds]

ASSUME SchedulerConstants ==
    /\ Schedulers \cap Operators = {}
    /\ Drafts \subseteq Revisions
    /\ Registrations \subseteq Slots
    /\ Interval \in Nat \ {0}
    /\ MaxTime \in Nat
    /\ MaxCrashes \in Nat

VARIABLES
    clock,
    revisions,       \* review_plan_revisions, in the order they were added
    occurrences,     \* review_occurrences under the scheduler's own id
    registered,      \* review_occurrences under an id a caller chose
    work,            \* occurrences that have a work item
    process,         \* runtime_processes: status of each scheduler process
    \* local state of a ticker
    pc, at, listed, todo, wake,
    \* history: how many revisions the tick that recorded it had listed, and
    \* what has happened to the ticks of an instant
    basis, fate,
    crashes

tables == <<revisions, occurrences, registered, work>>
locals == <<pc, at, listed, todo, wake>>
history == <<basis, fate>>
vars == <<clock, tables, process, locals, history, crashes>>

Steps == {"off", "poll", "list", "next", "insert_occurrence", "find_work",
          "insert_work", "done"}

\* Inside tick(): the steps between reading `at' and the return.
Ticking(s) == pc[s] \in {"list", "next", "insert_occurrence", "find_work", "insert_work"}

-----------------------------------------------------------------------------
(* plans/scheduling.py *)

\* Mutant of EffectiveRevision: the latest number wins, whatever its date.
LatestNumber(revs, t) ==
    CHOOSE r \in {x \in revs : x.effective_at <= t} :
        \A x \in revs : x.effective_at <= t => x.revision <= r.revision

\* effective_revision: the maximum of (effective_at, revision).
EffectiveRevision(revs, t) ==
    CHOOSE r \in {x \in revs : x.effective_at <= t} :
        \A x \in revs :
            x.effective_at <= t =>
                \/ x.effective_at < r.effective_at
                \/ x.effective_at = r.effective_at /\ x.revision <= r.revision

\* is_due: an exact multiple of the cadence after the anchor.
IsDue(slot, t) ==
    /\ t >= slot.anchor_at
    /\ (t - slot.anchor_at) % slot.cadence = 0

\* slots_due.
SlotsDue(r, t) ==
    IF r.paused \/ t < r.effective_at
    THEN {}
    ELSE (IF IsDue(r.a, t) THEN {"A"} ELSE {}) \cup (IF IsDue(r.b, t) THEN {"B"} ELSE {})

\* scheduled_trigger: one trigger for both slots; B names it when both are due.
ScheduledTrigger(r, t) ==
    [plan |-> r.plan, revision |-> r.revision, due_at |-> t,
     kind |-> IF "B" \in SlotsDue(r, t) THEN "scheduled_b" ELSE "scheduled_a"]

\* Mutant of OccurrenceId: the digest leaves the plan out.
OccurrenceIdOfInstant(o) == <<o.revision, o.due_at, o.kind>>

\* occurrence_id: a digest of the four columns.  Instants are those of one offset:
\* the code hashes the text of due_at, offset included.
OccurrenceId(o) == <<o.plan, o.revision, o.due_at, o.kind>>

\* The revisions a tick has listed, by plan; every plan with a revision in
\* force and a slot due has one trigger.
Listed(n) == {revisions[i] : i \in 1 .. n}

DueTriggers(revs, t) ==
    { ScheduledTrigger(EffectiveRevision({r \in revs : r.plan = p}, t), t) :
        p \in {q \in {r.plan : r \in revs} :
                 /\ \E r \in revs : r.plan = q /\ r.effective_at <= t
                 /\ SlotsDue(EffectiveRevision({r \in revs : r.plan = q}, t), t) # {}} }

-----------------------------------------------------------------------------
(* The plan table *)

TypeOK ==
    /\ clock \in Instants
    /\ revisions \in Seq(Drafts)
    /\ occurrences \subseteq Slots
    /\ registered \subseteq Registrations
    /\ work \subseteq occurrences
    /\ process \in [Schedulers -> {"absent", "running", "stopped"}]
    /\ pc \in [Tickers -> Steps]
    /\ at \in [Tickers -> Instants]
    /\ listed \in [Tickers -> 0 .. Len(revisions)]
    /\ todo \in [Tickers -> SUBSET Slots]
    /\ wake \in [Schedulers -> Nat]
    /\ basis \in [occurrences -> 0 .. Len(revisions)]
    /\ fate \in [Instants -> SUBSET {"begun", "completed", "lost"}]
    /\ crashes \in 0 .. MaxCrashes

Init ==
    /\ clock = 0
    /\ revisions = << >>
    /\ occurrences = {}
    /\ registered = {}
    /\ work = {}
    /\ process = [s \in Schedulers |-> "absent"]
    /\ pc = [s \in Tickers |-> "off"]
    /\ at = [s \in Tickers |-> 0]
    /\ listed = [s \in Tickers |-> 0]
    /\ todo = [s \in Tickers |-> {}]
    /\ wake = [s \in Schedulers |-> 0]
    /\ basis = << >>
    /\ fate = [t \in Instants |-> {}]
    /\ crashes = 0

\* add_plan_revision: a number is used once, a plan keeps its deployment; a
\* repetition of the same content changes nothing.
AddPlanRevision(d) ==
    /\ \A i \in 1 .. Len(revisions) :
         revisions[i].plan = d.plan =>
             /\ revisions[i].deployment = d.deployment
             /\ revisions[i].revision # d.revision
    /\ revisions' = Append(revisions, d)
    /\ UNCHANGED <<clock, occurrences, registered, work, process, locals,
                   history, crashes>>

\* add_occurrence, called by intake: the id is the caller's, the schedule is
\* unique, and the plan revision must exist.
RegisterOccurrence(o) ==
    /\ \E i \in 1 .. Len(revisions) :
         revisions[i].plan = o.plan /\ revisions[i].revision = o.revision
    /\ o \notin occurrences \cup registered
    /\ registered' = registered \cup {o}
    /\ UNCHANGED <<clock, revisions, occurrences, work, process, locals,
                   history, crashes>>

-----------------------------------------------------------------------------
(* tick *)

\* The tick returns or raises: its locals are gone.  A process that goes on
\* waits for the interval, counted from the end of its tick.
EndTick(s, step) ==
    /\ pc' = [pc EXCEPT ![s] = step]
    /\ wake' = [wake EXCEPT ![s] = IF step = "poll" THEN clock + Interval ELSE 0]
    /\ at' = [at EXCEPT ![s] = 0]
    /\ listed' = [listed EXCEPT ![s] = 0]
    /\ todo' = [todo EXCEPT ![s] = {}]

GoTo(s, step) ==
    /\ pc' = [pc EXCEPT ![s] = step]
    /\ UNCHANGED <<at, listed, todo, wake>>

\* The instant of the tick is fixed.
BeginTick(s, t) ==
    /\ pc' = [pc EXCEPT ![s] = "list"]
    /\ at' = [at EXCEPT ![s] = t]
    /\ fate' = [fate EXCEPT ![t] = @ \cup {"begun"}]
    /\ UNCHANGED <<tables, listed, todo, basis, crashes>>

\* list_plan_revisions and the triggers that follow from it.
List(s) ==
    /\ pc[s] = "list"
    /\ pc' = [pc EXCEPT ![s] = "next"]
    /\ listed' = [listed EXCEPT ![s] = Len(revisions)]
    /\ todo' = [todo EXCEPT ![s] = DueTriggers(Listed(Len(revisions)), at[s])]
    /\ UNCHANGED <<clock, tables, process, at, wake, history, crashes>>

\* Plans are taken in the order of their ids.
Current(s, o) ==
    /\ o \in todo[s]
    /\ \A x \in todo[s] : o.plan <= x.plan

\* The row this tick would write is already there, with other columns: only
\* another id for the same schedule or a clash of digests can do that.
Clashes(o) ==
    \E x \in occurrences : OccurrenceId(x) = OccurrenceId(o) /\ x # o

Recorded(o) ==
    \E x \in occurrences : OccurrenceId(x) = OccurrenceId(o)

\* Mutant of FindOccurrence: what is there already is taken to be scheduled.
FindOccurrenceOrSkip(s) ==
    /\ pc[s] = "next"
    /\ \E o \in todo[s] :
         /\ Current(s, o)
         /\ ~Clashes(o)
         /\ IF Recorded(o)
            THEN /\ todo' = [todo EXCEPT ![s] = @ \ {o}]
                 /\ UNCHANGED <<pc, at, listed, wake>>
            ELSE GoTo(s, "insert_occurrence")
    /\ UNCHANGED <<clock, tables, process, history, crashes>>

\* add_occurrence: look the id up.
FindOccurrence(s) ==
    /\ pc[s] = "next"
    /\ \E o \in todo[s] :
         /\ Current(s, o)
         /\ ~Clashes(o)
         /\ GoTo(s, IF Recorded(o) THEN "find_work" ELSE "insert_occurrence")
    /\ UNCHANGED <<clock, tables, process, history, crashes>>

\* add_occurrence: insert it; a row written meanwhile, or a caller's row for
\* the same schedule, is an integrity error.
InsertOccurrence(s) ==
    /\ pc[s] = "insert_occurrence"
    /\ \E o \in todo[s] :
         /\ Current(s, o)
         /\ ~Recorded(o)
         /\ o \notin registered
         /\ occurrences' = occurrences \cup {o}
         /\ basis' = [x \in occurrences \cup {o} |->
                        IF x = o THEN listed[s] ELSE basis[x]]
    /\ GoTo(s, "find_work")
    /\ UNCHANGED <<clock, revisions, registered, work, process, fate, crashes>>

\* enqueue_occurrence: look the work item up.
FindWork(s) ==
    /\ pc[s] = "find_work"
    /\ \E o \in todo[s] :
         /\ Current(s, o)
         /\ \/ /\ o \in work
               /\ pc' = [pc EXCEPT ![s] = "next"]
               /\ todo' = [todo EXCEPT ![s] = @ \ {o}]
               /\ UNCHANGED <<at, listed, wake>>
            \/ o \notin work /\ GoTo(s, "insert_work")
    /\ UNCHANGED <<clock, tables, process, history, crashes>>

\* enqueue_occurrence: insert it, pending and available from due_at on.
InsertWork(s) ==
    /\ pc[s] = "insert_work"
    /\ \E o \in todo[s] :
         /\ Current(s, o)
         /\ o \notin work
         /\ work' = work \cup {o}
         /\ todo' = [todo EXCEPT ![s] = @ \ {o}]
    /\ pc' = [pc EXCEPT ![s] = "next"]
    /\ UNCHANGED <<clock, revisions, occurrences, registered, process, at,
                   listed, wake, history, crashes>>

\* No plan is left: tick returns what it has scheduled.
CompleteTick(s) ==
    /\ pc[s] = "next"
    /\ todo[s] = {}
    /\ GoTo(s, "done")
    /\ fate' = [fate EXCEPT ![at[s]] = @ \cup {"completed"}]
    /\ UNCHANGED <<clock, tables, process, basis, crashes>>

\* The lookup or the insert raises.
Refused(s) ==
    \E o \in todo[s] :
        /\ Current(s, o)
        /\ \/ pc[s] = "next" /\ Clashes(o)
           \/ pc[s] = "insert_occurrence" /\ (Recorded(o) \/ o \in registered)
           \/ pc[s] = "insert_work" /\ o \in work

-----------------------------------------------------------------------------
(* Scheduler processes *)

\* register_process; a row left by an earlier run is taken over.
Start(s) ==
    /\ pc[s] = "off"
    /\ process' = [process EXCEPT ![s] = "running"]
    /\ GoTo(s, "poll")
    /\ UNCHANGED <<clock, tables, history, crashes>>

\* The loop reads the clock and ticks.
Poll(s) ==
    /\ pc[s] = "poll"
    /\ clock >= wake[s]
    /\ BeginTick(s, clock)
    /\ UNCHANGED <<clock, process, wake>>

\* heartbeat_process, then the wait.
Heartbeat(s) ==
    /\ pc[s] = "done"
    /\ process[s] = "running"
    /\ EndTick(s, "poll")
    /\ UNCHANGED <<clock, tables, process, history, crashes>>

\* The stop event is noticed between two ticks.
Stop(s) ==
    /\ pc[s] = "poll"
    /\ process' = [process EXCEPT ![s] = "stopped"]
    /\ EndTick(s, "off")
    /\ UNCHANGED <<clock, tables, history, crashes>>

\* run() has no handler for what tick raises: its finally block stops the
\* process row and the process ends.
SchedulerDies(s) ==
    /\ Refused(s)
    /\ process' = [process EXCEPT ![s] = "stopped"]
    /\ EndTick(s, "off")
    /\ UNCHANGED <<clock, tables, history, crashes>>

-----------------------------------------------------------------------------
(* Operators, crashes and time *)

\* POST /scheduler/tick with any instant, also to repeat a tick.
OperatorTick(s) ==
    /\ pc[s] = "off"
    /\ \E t \in Instants : BeginTick(s, t)
    /\ UNCHANGED <<clock, process, wake>>

OperatorReturns(s) ==
    /\ pc[s] = "done" \/ Refused(s)
    /\ EndTick(s, "off")
    /\ UNCHANGED <<clock, tables, process, history, crashes>>

\* The process of a ticker is lost inside a tick; its row stays `running'.
Crash(s) ==
    /\ crashes < MaxCrashes
    /\ Ticking(s)
    /\ EndTick(s, "off")
    /\ fate' = [fate EXCEPT ![at[s]] = @ \cup {"lost"}]
    /\ crashes' = crashes + 1
    /\ UNCHANGED <<clock, tables, process, basis>>

Tick ==
    /\ clock < MaxTime
    /\ clock' = clock + 1
    /\ UNCHANGED <<tables, process, locals, history, crashes>>

\* One step of tick() itself.
TickStep(s) ==
    \/ List(s) \/ FindOccurrence(s) \/ InsertOccurrence(s)
    \/ FindWork(s) \/ InsertWork(s) \/ CompleteTick(s)

Next ==
    \/ \E d \in Drafts : AddPlanRevision(d)
    \/ \E o \in Registrations : RegisterOccurrence(o)
    \/ \E s \in Tickers : TickStep(s) \/ Crash(s)
    \/ \E s \in Schedulers :
         Start(s) \/ Poll(s) \/ Heartbeat(s) \/ Stop(s) \/ SchedulerDies(s)
    \/ \E s \in Operators : OperatorTick(s) \/ OperatorReturns(s)
    \/ Tick

Spec == Init /\ [][Next]_vars

\* A live process goes on with its loop and time passes; nobody has to start
\* or stop a process, edit a plan or call the API.
LiveSpec ==
    /\ Spec
    /\ \A s \in Schedulers :
         WF_vars(TickStep(s)) /\ WF_vars(Poll(s)) /\ WF_vars(Heartbeat(s))
    /\ WF_vars(Tick)

-----------------------------------------------------------------------------
(* Properties *)

\* A tick that returns has left a work item for every plan that was due under
\* the revisions it listed, also where it found the occurrence of a ticker
\* that was lost or is still on its way to enqueue it.
CompletedTickLeavesWork ==
    \A s \in Tickers :
        pc[s] = "done" => DueTriggers(Listed(listed[s]), at[s]) \subseteq work

\* However many schedulers and operators tick at one instant, at least one of
\* their ticks returns, although each refused insert ends a tick: unless one
\* was lost or a caller has registered that schedule under its own id.
OneOfTheRacersReturns ==
    \A t \in Instants :
        \/ fate[t] # {"begun"}
        \/ \E s \in Tickers : Ticking(s) /\ at[s] = t
        \/ \E o \in registered : o.due_at = t

\* An instant that the schedule of a slot names.
Named(slot, t) == \E k \in 0 .. t : t = slot.anchor_at + k * slot.cadence

\* The scheduler records an instant under the revision in force, of those its
\* tick had listed: not paused, the instant on the grid of a slot, of B's if
\* and only if it is recorded as B's.  So one instant of a plan gets work
\* under two revisions only if a revision already in force was added between.
ScheduledByTheRevisionInForce ==
    \A o \in occurrences :
        \E i \in 1 .. basis[o] :
            LET r == revisions[i] IN
            /\ r.plan = o.plan /\ r.revision = o.revision
            /\ r.effective_at <= o.due_at /\ ~r.paused
            /\ Named(r.b, o.due_at) <=> o.kind = "scheduled_b"
            /\ Named(r.a, o.due_at) \/ Named(r.b, o.due_at)
            /\ \A j \in 1 .. basis[o] :
                 revisions[j].plan = r.plan /\ revisions[j].effective_at <= o.due_at =>
                     \/ revisions[j].effective_at < r.effective_at
                     \/ /\ revisions[j].effective_at = r.effective_at
                        /\ revisions[j].revision <= r.revision

\* Every instant that falls due for reviewer A or B while a scheduler runs
\* gets its work item: "Reviewer A runs for every due eligible occurrence"
\* (MVP_project_architecture.md).
DueWorkIsScheduled ==
    \A d \in Drafts, t \in Instants :
        ( /\ \E i \in 1 .. Len(revisions) : revisions[i] = d
          /\ SlotsDue(d, t) # {}
          /\ clock <= t
          /\ \E s \in Schedulers : process[s] = "running" /\ pc[s] = "poll" )
        ~> ( \/ \E o \in work : o.plan = d.plan /\ o.due_at = t
             \/ \E s \in Schedulers : process[s] = "stopped" )
=============================================================================
