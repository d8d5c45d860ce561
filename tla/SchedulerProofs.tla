--------------------------- MODULE SchedulerProofs ---------------------------
(***************************************************************************)
(* A tick that returns has left its work, one of the ticks that race for   *)
(* an instant returns, and what a tick records comes from the revision in  *)
(* force: for any number of scheduler processes and operators, any plans   *)
(* and plan edits, any registrations and any number of crashes.            *)
(***************************************************************************)
EXTENDS Scheduler, WellFoundedInduction, TLAPS

\* The steps after list_plan_revisions.
Planning == {"next", "insert_occurrence", "find_work", "insert_work", "done"}

\* The part of the types the argument needs; what the triggers are made of is
\* not part of it.
LocalsOK ==
    /\ clock \in Instants
    /\ revisions \in Seq(Drafts)
    /\ pc \in [Tickers -> Steps]
    /\ at \in [Tickers -> Instants]
    /\ listed \in [Tickers -> Nat]
    /\ todo = [s \in Tickers |-> todo[s]]

\* What a ticker has taken off its list is in the table, whoever wrote it:
\* a plan due under the revisions it has listed is still to do or has work.
\* The revisions it has listed are still the first ones of the table.
Owes(s) ==
    pc[s] \in Planning =>
        /\ listed[s] <= Len(revisions)
        /\ DueTriggers(Listed(listed[s]), at[s]) \subseteq work \cup todo[s]
        /\ pc[s] = "done" => todo[s] = {}

IInv == LocalsOK /\ \A s \in Tickers : Owes(s)

-----------------------------------------------------------------------------
\* The initial state satisfies the inductive invariant.
LEMMA InitIInv == Init => IInv
  BY SchedulerConstants DEF Init, IInv, LocalsOK, Owes, Planning, Steps, Instants

\* Every step keeps the locals in shape.
LEMMA LocalsStep == LocalsOK /\ [Next]_vars => LocalsOK'
<1> SUFFICES ASSUME LocalsOK, [Next]_vars PROVE LocalsOK'
  OBVIOUS
<1> USE SchedulerConstants
    DEF LocalsOK, Steps, tables, locals, history, EndTick, GoTo, BeginTick
<1>0. 0 \in Instants
  BY DEF Instants
<1>1. ASSUME NEW d \in Drafts, AddPlanRevision(d) PROVE LocalsOK'
  <2>1. revisions' \in Seq(Drafts)
    BY <1>1 DEF AddPlanRevision
  <2>. QED
    BY <1>1, <2>1 DEF AddPlanRevision
<1>2. ASSUME (\E o \in Registrations : RegisterOccurrence(o)) \/ Tick \/ UNCHANGED vars
      PROVE LocalsOK'
  <2>1. clock' \in Instants
    BY <1>2 DEF RegisterOccurrence, Tick, vars, Instants
  <2>. QED
    BY <1>2, <2>1 DEF RegisterOccurrence, Tick, vars
<1>3. ASSUME NEW s \in Tickers, List(s) PROVE LocalsOK'
  <2>1. Len(revisions) \in Nat
    OBVIOUS
  <2>. QED
    BY <1>3, <2>1 DEF List
<1>4. ASSUME NEW s \in Tickers, FindOccurrence(s) PROVE LocalsOK'
  BY <1>4 DEF FindOccurrence
<1>5. ASSUME NEW s \in Tickers, InsertOccurrence(s) PROVE LocalsOK'
  BY <1>5 DEF InsertOccurrence
<1>6. ASSUME NEW s \in Tickers, FindWork(s) PROVE LocalsOK'
  BY <1>6 DEF FindWork
<1>7. ASSUME NEW s \in Tickers, InsertWork(s) PROVE LocalsOK'
  BY <1>7 DEF InsertWork
<1>8. ASSUME NEW s \in Tickers, CompleteTick(s) PROVE LocalsOK'
  BY <1>8 DEF CompleteTick
<1>9. ASSUME NEW s \in Tickers, NEW n \in Steps, EndTick(s, n), UNCHANGED <<clock, revisions>>
      PROVE LocalsOK'
  BY <1>0, <1>9
<1>10. ASSUME NEW s \in Tickers, Crash(s) PROVE LocalsOK'
  BY <1>9, <1>10 DEF Crash
<1>11. ASSUME NEW s \in Schedulers,
              Start(s) \/ Heartbeat(s) \/ Stop(s) \/ SchedulerDies(s)
       PROVE LocalsOK'
  <2>1. s \in Tickers
    BY DEF Tickers
  <2>2. CASE Start(s)
    BY <2>1, <2>2 DEF Start
  <2>3. CASE Heartbeat(s) \/ Stop(s) \/ SchedulerDies(s)
    <3>1. UNCHANGED <<clock, revisions>> /\ (EndTick(s, "poll") \/ EndTick(s, "off"))
      BY <2>3 DEF Heartbeat, Stop, SchedulerDies
    <3>. QED
      BY <1>9, <2>1, <3>1
  <2>. QED
    BY <1>11, <2>2, <2>3
<1>15. ASSUME NEW s \in Operators, OperatorReturns(s) PROVE LocalsOK'
  BY <1>9, <1>15 DEF OperatorReturns, Tickers
<1>12. ASSUME NEW s \in Tickers, NEW t \in Instants, BeginTick(s, t), UNCHANGED clock
       PROVE LocalsOK'
  BY <1>12
<1>13. ASSUME NEW s \in Schedulers, Poll(s) PROVE LocalsOK'
  BY <1>12, <1>13 DEF Poll, Tickers
<1>14. ASSUME NEW s \in Operators, OperatorTick(s) PROVE LocalsOK'
  BY <1>12, <1>14 DEF OperatorTick, Tickers
<1>. QED
  BY <1>1, <1>2, <1>3, <1>4, <1>5, <1>6, <1>7, <1>8, <1>9, <1>10, <1>11, <1>13, <1>14, <1>15
     DEF Next, TickStep

\* The steps of a ticker keep what it owes.
LEMMA OwnStep ==
    ASSUME IInv, NEW s \in Tickers, TickStep(s)
    PROVE Owes(s)'
<1> DEFINE Due == DueTriggers(Listed(listed[s]), at[s])
<1>1. LocalsOK /\ Owes(s) /\ Len(revisions) \in Nat
  BY DEF IInv, LocalsOK
<1>2. CASE List(s)
  BY <1>1, <1>2 DEF LocalsOK, Owes, List, tables, Listed
<1>3. ASSUME UNCHANGED <<revisions, at, listed>>, pc[s] \in Planning, pc[s] # "done",
             Due \subseteq work' \cup todo'[s],
             pc'[s] = "done" => todo'[s] = {}
      PROVE Owes(s)'
  <2>1. Due' = Due
    BY <1>3 DEF Listed
  <2>. QED
    BY <1>1, <1>3, <2>1 DEF Owes
<1>4. pc[s] \in Planning => Due \subseteq work \cup todo[s]
  BY <1>1 DEF Owes
<1> HIDE DEF Due
<1> USE <1>1 DEF LocalsOK, Planning
<1>5. CASE FindOccurrence(s)
  BY <1>3, <1>4, <1>5 DEF FindOccurrence, GoTo, tables
<1>6. CASE InsertOccurrence(s)
  BY <1>3, <1>4, <1>6 DEF InsertOccurrence, GoTo
<1>7. CASE FindWork(s)
  <2>1. PICK o \in todo[s] :
           \/ /\ o \in work /\ pc' = [pc EXCEPT ![s] = "next"]
              /\ todo' = [todo EXCEPT ![s] = @ \ {o}] /\ UNCHANGED <<at, listed>>
           \/ GoTo(s, "insert_work")
    BY <1>7 DEF FindWork
  <2>. QED
    BY <1>3, <1>4, <1>7, <2>1 DEF FindWork, GoTo, tables
<1>8. CASE InsertWork(s)
  <2>1. PICK o \in todo[s] : /\ work' = work \cup {o}
                            /\ todo' = [todo EXCEPT ![s] = @ \ {o}]
    BY <1>8 DEF InsertWork
  <2>. QED
    BY <1>3, <1>4, <1>8, <2>1 DEF InsertWork
<1>9. CASE CompleteTick(s)
  BY <1>3, <1>4, <1>9 DEF CompleteTick, GoTo, tables
<1>. QED
  BY <1>2, <1>5, <1>6, <1>7, <1>8, <1>9 DEF TickStep

\* A ticker that another one or time passes by owes what it owed: work items
\* and listed revisions stay.
LEMMA OtherStep ==
    ASSUME IInv, NEW s \in Tickers,
           pc'[s] = pc[s], at'[s] = at[s], listed'[s] = listed[s], todo'[s] = todo[s],
           work \subseteq work',
           revisions' = revisions \/ \E d \in Drafts : revisions' = Append(revisions, d)
    PROVE Owes(s)'
<1>1. LocalsOK /\ Owes(s)
  BY DEF IInv
<1>2. SUFFICES ASSUME pc[s] \in Planning PROVE Owes(s)'
  BY DEF Owes
<1>3. Listed(listed[s])' = Listed(listed[s]) /\ listed'[s] <= Len(revisions')
  <2>1. listed[s] \in Nat /\ listed[s] <= Len(revisions)
    BY <1>1, <1>2 DEF LocalsOK, Owes
  <2>2. CASE revisions' = revisions
    BY <2>1, <2>2 DEF Listed
  <2>3. ASSUME NEW d \in Drafts, revisions' = Append(revisions, d)
        PROVE Listed(listed[s])' = Listed(listed[s]) /\ listed'[s] <= Len(revisions')
    <3>1. \A i \in 1 .. listed[s] : revisions'[i] = revisions[i]
      BY <1>1, <2>1, <2>3 DEF LocalsOK
    <3>2. listed'[s] <= Len(revisions')
      BY <1>1, <2>1, <2>3 DEF LocalsOK
    <3>. QED
      BY <3>1, <3>2 DEF Listed
  <2>. QED
    BY <2>2, <2>3
<1>4. DueTriggers(Listed(listed[s]), at[s])' = DueTriggers(Listed(listed[s]), at[s])
  BY <1>3 DEF DueTriggers
<1>. QED
  BY <1>1, <1>2, <1>3, <1>4 DEF Owes

\* Every step keeps the inductive invariant.
LEMMA InvStep == IInv /\ [Next]_vars => IInv'
<1> SUFFICES ASSUME IInv, [Next]_vars, NEW s \in Tickers PROVE Owes(s)'
  BY LocalsStep DEF IInv
<1> DEFINE Same == /\ pc'[s] = pc[s] /\ at'[s] = at[s]
                   /\ listed'[s] = listed[s] /\ todo'[s] = todo[s]
           Kept == /\ work \subseteq work'
                   /\ \/ revisions' = revisions
                      \/ \E d \in Drafts : revisions' = Append(revisions, d)
<1>0. LocalsOK
  BY DEF IInv
<1>1. CASE Same /\ Kept
  BY <1>1, OtherStep
<1>2. CASE pc'[s] \notin Planning
  BY <1>2 DEF Owes
<1>3. ASSUME NEW d \in Drafts, AddPlanRevision(d) PROVE Same /\ Kept
  BY <1>3 DEF AddPlanRevision, locals
<1>4. ASSUME (\E o \in Registrations : RegisterOccurrence(o)) \/ Tick \/ UNCHANGED vars
      PROVE Same /\ Kept
  BY <1>4 DEF RegisterOccurrence, Tick, vars, locals, tables
<1>5. CASE TickStep(s)
  BY <1>5, OwnStep
<1>6. ASSUME NEW r \in Tickers, r # s, TickStep(r) PROVE Same /\ Kept
  <2> USE <1>0, <1>6 DEF LocalsOK, tables, GoTo
  <2>1. CASE List(r) \/ FindOccurrence(r) \/ CompleteTick(r)
    BY <2>1 DEF List, FindOccurrence, CompleteTick
  <2>2. CASE InsertOccurrence(r)
    BY <2>2 DEF InsertOccurrence
  <2>3. CASE FindWork(r)
    BY <2>3 DEF FindWork
  <2>4. CASE InsertWork(r)
    BY <2>4 DEF InsertWork
  <2>. QED
    BY <2>1, <2>2, <2>3, <2>4 DEF TickStep
<1>7. ASSUME NEW r \in Tickers, NEW n \in {"poll", "off"},
             EndTick(r, n) \/ GoTo(r, n) \/ (\E t \in Instants : BeginTick(r, t)),
             UNCHANGED tables
      PROVE (Same /\ Kept) \/ pc'[s] \notin Planning
  BY <1>0, <1>7 DEF LocalsOK, EndTick, GoTo, BeginTick, tables, Planning
<1>8. ASSUME NEW r \in Tickers, Crash(r) PROVE (Same /\ Kept) \/ pc'[s] \notin Planning
  BY <1>7, <1>8 DEF Crash
<1>9. ASSUME NEW r \in Schedulers,
             Start(r) \/ Poll(r) \/ Heartbeat(r) \/ Stop(r) \/ SchedulerDies(r)
      PROVE (Same /\ Kept) \/ pc'[s] \notin Planning
  <2>1. r \in Tickers /\ clock \in Instants
    BY <1>0 DEF Tickers, LocalsOK
  <2>2. CASE Poll(r)
    <3>1. BeginTick(r, clock) /\ UNCHANGED tables
      BY <2>2 DEF Poll, BeginTick
    <3>. QED
      BY <1>7, <2>1, <3>1
  <2>3. CASE Start(r)
    BY <1>7, <2>1, <2>3 DEF Start
  <2>4. CASE Heartbeat(r) \/ Stop(r) \/ SchedulerDies(r)
    BY <1>7, <2>1, <2>4 DEF Heartbeat, Stop, SchedulerDies
  <2>. QED
    BY <1>9, <2>2, <2>3, <2>4
<1>10. ASSUME NEW r \in Operators, OperatorTick(r) \/ OperatorReturns(r)
       PROVE (Same /\ Kept) \/ pc'[s] \notin Planning
  <2>1. r \in Tickers
    BY DEF Tickers
  <2>2. CASE OperatorTick(r)
    BY <1>7, <2>1, <2>2 DEF OperatorTick, BeginTick
  <2>3. CASE OperatorReturns(r)
    BY <1>7, <2>1, <2>3 DEF OperatorReturns
  <2>. QED
    BY <1>10, <2>2, <2>3
<1>. QED
  BY <1>1, <1>2, <1>3, <1>4, <1>5, <1>6, <1>8, <1>9, <1>10 DEF Next

\* Whoever else ticks, is refused or is lost at the same time, and whatever
\* plan edits come in: when tick returns, every plan that was due under the
\* revisions it listed has its work item.
THEOREM ReturnedTickLeftItsWork == Spec => []CompletedTickLeavesWork
<1>1. IInv => CompletedTickLeavesWork
  BY DEF IInv, Owes, Planning, CompletedTickLeavesWork
<1>. QED
  BY InitIInv, InvStep, <1>1, PTL DEF Spec

-----------------------------------------------------------------------------
(* What is recorded, and who returns *)

\* Occurrence o is one the revision in force schedules, of the first n listed.
InForce(o, n) ==
    \E i \in 1 .. n :
        LET r == revisions[i] IN
        /\ r.plan = o.plan /\ r.revision = o.revision
        /\ r.effective_at <= o.due_at /\ ~r.paused
        /\ Named(r.b, o.due_at) <=> o.kind = "scheduled_b"
        /\ Named(r.a, o.due_at) \/ Named(r.b, o.due_at)
        /\ \A j \in 1 .. n :
             revisions[j].plan = r.plan /\ revisions[j].effective_at <= o.due_at =>
                 \/ revisions[j].effective_at < r.effective_at
                 \/ /\ revisions[j].effective_at = r.effective_at
                    /\ revisions[j].revision <= r.revision

\* Revision numbers are bounded, so every plan with a revision in force has a
\* latest one.
Bounded == \E m \in Nat : \A i \in 1 .. Len(revisions) : revisions[i].revision <= m

\* What a ticker still has to do: one trigger for a plan, at its instant, by
\* the revision in force.  On the way to its work item the occurrence is there.
TodoOK(s) ==
    /\ \A o \in todo[s] : o.due_at = at[s] /\ InForce(o, listed[s])
    /\ \A o \in todo[s], x \in todo[s] : o.plan = x.plan => o = x
    /\ pc[s] \in {"off", "poll", "list", "done"} => todo[s] = {}
    /\ pc[s] \in {"find_work", "insert_work"} =>
         \A o \in todo[s] : Current(s, o) => o \in occurrences

\* The tables: every work item has its occurrence, every occurrence its basis.
TablesOK ==
    /\ occurrences \subseteq Slots
    /\ registered \subseteq Registrations
    /\ work \subseteq occurrences
    /\ todo \in [Tickers -> SUBSET Slots]
    /\ listed \in [Tickers -> 0 .. Len(revisions)]
    /\ basis \in [occurrences -> 0 .. Len(revisions)]
    /\ fate \in [Instants -> SUBSET {"begun", "completed", "lost"}]
    /\ \A o \in occurrences : InForce(o, basis[o])

\* Ticker s is ahead of all others at instant t: what is recorded there is of
\* the plans it is done with, but for the one it is recording itself.  Nobody
\* can refuse it anything.
Leads(s, t) ==
    /\ Ticking(s) /\ at[s] = t
    /\ \A o \in occurrences :
         o.due_at = t => pc[s] # "list" /\ \A x \in todo[s] : o.plan <= x.plan
    /\ \A x \in todo[s] : /\ x \notin work
                          /\ x \in occurrences => pc[s] \in {"find_work", "insert_work"}

\* At an instant whose ticks have neither returned nor been lost, somebody
\* leads, unless a caller has registered an occurrence there.
RaceOK(t) ==
    /\ fate[t] = {} => \A o \in occurrences : o.due_at # t
    /\ fate[t] = {"begun"} => \/ \E s \in Tickers : Leads(s, t)
                              \/ \E o \in registered : o.due_at = t

RInv ==
    /\ TablesOK /\ Bounded
    /\ \A s \in Tickers : TodoOK(s) /\ (Ticking(s) => "begun" \in fate[at[s]])
    /\ \A t \in Instants : RaceOK(t)

-----------------------------------------------------------------------------
(* The revision in force *)

\* Every set of natural numbers has a least one.
LEMMA LeastNumber ==
    ASSUME NEW T \in SUBSET Nat, T # {}
    PROVE  \E x \in T : \A y \in T : x <= y
<1> DEFINE R == OpToRel(<, Nat)
<1>1. IsWellFoundedOn(R, Nat)
  BY NatLessThanWellFounded
<1>2. \A x \in Nat, y \in Nat : y < x => <<y, x>> \in R
  BY DEF OpToRel
<1> HIDE DEF R
<1>3. PICK x \in T : \A y \in T : ~(<<y, x>> \in R)
  BY <1>1, WFMin
<1>4. \A y \in T : ~(y < x)
  BY <1>2, <1>3
<1>. QED
  BY <1>4

\* A bounded one has a greatest.
LEMMA GreatestNumber ==
    ASSUME NEW T \in SUBSET Nat, T # {}, NEW m \in Nat, \A x \in T : x <= m
    PROVE  \E x \in T : \A y \in T : y <= x
<1> DEFINE U == {n \in Nat : \E x \in T : n = m - x}
<1>1. U \in SUBSET Nat /\ U # {}
  <2>1. PICK x \in T : TRUE
    OBVIOUS
  <2>2. m - x \in U
    BY <2>1
  <2>. QED
    BY <2>2
<1>2. PICK n \in U : \A y \in U : n <= y
  BY <1>1, LeastNumber
<1>3. PICK x \in T : n = m - x
  BY <1>2
<1>4. ASSUME NEW y \in T PROVE y <= x
  <2>1. m - y \in U
    BY <1>4
  <2>2. x \in Nat /\ y \in Nat /\ n <= m - y
    BY <1>2, <2>1
  <2>. QED
    BY <1>3, <2>2
<1>. QED
  BY <1>3, <1>4

\* effective_revision returns one of the revisions in force, and none of them
\* is later: the maximum it asks for exists.
LEMMA Latest ==
    ASSUME NEW revs \in SUBSET Revisions, NEW m \in Nat, \A r \in revs : r.revision <= m,
           NEW t \in Nat, \E r \in revs : r.effective_at <= t
    PROVE  LET e == EffectiveRevision(revs, t) IN
           /\ e \in revs /\ e.effective_at <= t
           /\ \A x \in revs : x.effective_at <= t =>
                \/ x.effective_at < e.effective_at
                \/ x.effective_at = e.effective_at /\ x.revision <= e.revision
<1> DEFINE Live == {x \in revs : x.effective_at <= t}
           Dates == {n \in Nat : \E x \in Live : n = x.effective_at}
<1>1. \A x \in revs : x.effective_at \in Nat /\ x.revision \in Nat
  BY DEF Revisions
<1>2. Dates \in SUBSET Nat /\ Dates # {} /\ \A n \in Dates : n <= t
  BY <1>1
<1>3. PICK d \in Dates : \A n \in Dates : n <= d
  <2> HIDE DEF Dates
  <2>. QED
    BY <1>2, GreatestNumber
<1> DEFINE Numbers == {n \in Nat : \E x \in Live : x.effective_at = d /\ n = x.revision}
<1>4. Numbers \in SUBSET Nat /\ Numbers # {} /\ \A n \in Numbers : n <= m
  BY <1>1, <1>3
<1>5. PICK k \in Numbers : \A n \in Numbers : n <= k
  <2> HIDE DEF Numbers
  <2>. QED
    BY <1>4, GreatestNumber
<1>6. PICK e \in Live : e.effective_at = d /\ e.revision = k
  BY <1>5
<1>7. ASSUME NEW x \in revs, x.effective_at <= t
      PROVE  \/ x.effective_at < e.effective_at
             \/ x.effective_at = e.effective_at /\ x.revision <= e.revision
  <2>1. x.effective_at \in Dates
    BY <1>1, <1>7
  <2>2. x.effective_at <= d /\ d \in Nat /\ x.effective_at \in Nat
    BY <1>3, <2>1
  <2>3. x.effective_at = d => x.revision \in Numbers
    BY <1>1, <1>7
  <2>. QED
    BY <1>5, <1>6, <2>2, <2>3
<1>8. \E r \in Live : \A x \in revs : x.effective_at <= t =>
         \/ x.effective_at < r.effective_at
         \/ x.effective_at = r.effective_at /\ x.revision <= r.revision
  BY <1>6, <1>7
<1>. QED
  BY <1>8 DEF EffectiveRevision

\* is_due: the remainder is zero exactly at the instants of the grid.
LEMMA DueIsNamed ==
    ASSUME NEW slot \in SlotSchedules, NEW t \in Nat
    PROVE  IsDue(slot, t) <=> Named(slot, t)
<1>0. slot.anchor_at \in Nat /\ slot.cadence \in Nat \ {0}
  BY DEF SlotSchedules
<1>1. PICK c \in Nat \ {0} : c = slot.cadence
  BY <1>0
<1>2. ASSUME IsDue(slot, t) PROVE Named(slot, t)
  <2>1. PICK n \in Nat : n = t - slot.anchor_at /\ n <= t
    BY <1>0, <1>2 DEF IsDue
  <2>2. n % c = 0
    BY <1>1, <1>2, <2>1 DEF IsDue
  <2>3. n = c * (n \div c) + (n % c) /\ n \div c \in Int
    OBVIOUS
  <2>4. n = c * (n \div c)
    BY <2>2, <2>3
  <2>5. PICK d \in Int : n = c * d
    BY <2>3, <2>4, Zenon
  <2>6. d >= 0
    BY <2>5
  <2>7. d <= n
    <3>1. c * d >= 1 * d
      BY <2>6
    <3>. QED
      BY <2>5, <3>1
  <2>8. d \in 0 .. t /\ t = slot.anchor_at + d * slot.cadence
    BY <1>0, <1>1, <2>1, <2>5, <2>6, <2>7
  <2>. QED
    BY <2>8 DEF Named
<1>3. ASSUME Named(slot, t) PROVE IsDue(slot, t)
  <2>1. PICK k \in 0 .. t : t = slot.anchor_at + k * c
    BY <1>1, <1>3 DEF Named
  <2>2. k * c \in Nat
    OBVIOUS
  <2>3. t >= slot.anchor_at /\ t - slot.anchor_at = k * c
    BY <1>0, <2>1, <2>2
  <2>4. (k * c) % c = 0
    OBVIOUS
  <2>. QED
    BY <1>1, <2>3, <2>4 DEF IsDue
<1>. QED
  BY <1>2, <1>3

\* The triggers of a tick: at its instant, by the revision in force, one a plan.
LEMMA Triggers ==
    ASSUME LocalsOK, Bounded, NEW t \in Instants
    PROVE  LET n == Len(revisions)
               Due == DueTriggers(Listed(n), t)
           IN  /\ \A o \in Due : o \in Slots /\ o.due_at = t /\ InForce(o, n)
               /\ \A o \in Due, x \in Due : o.plan = x.plan => o = x
<1> DEFINE n == Len(revisions)
           Of(p) == {r \in Listed(n) : r.plan = p}
           E(p) == EffectiveRevision(Of(p), t)
<1>0. /\ n \in Nat /\ t \in Nat
      /\ \A i \in 1 .. n : revisions[i] \in Revisions
  BY SchedulerConstants DEF LocalsOK, Instants
<1>1. PICK m \in Nat : \A i \in 1 .. n : revisions[i].revision <= m
  BY DEF Bounded
<1>2. ASSUME NEW p, \E r \in Listed(n) : r.plan = p /\ r.effective_at <= t,
             SlotsDue(E(p), t) # {}
      PROVE  LET o == ScheduledTrigger(E(p), t) IN
             o \in Slots /\ o.due_at = t /\ o.plan = p /\ InForce(o, n)
  <2>1. Of(p) \in SUBSET Revisions /\ (\A r \in Of(p) : r.revision <= m)
        /\ \E r \in Of(p) : r.effective_at <= t
    BY <1>0, <1>1, <1>2 DEF Listed
  <2>2. PICK e : e = E(p)
    OBVIOUS
  <2>3. /\ e \in Of(p) /\ e.effective_at <= t
        /\ \A x \in Of(p) : x.effective_at <= t =>
             \/ x.effective_at < e.effective_at
             \/ x.effective_at = e.effective_at /\ x.revision <= e.revision
    <3> HIDE DEF Of
    <3>. QED
      BY <1>0, <2>1, <2>2, Latest
  <2>4. PICK i \in 1 .. n : e = revisions[i]
    BY <2>3 DEF Listed
  <2>5. /\ e \in Revisions /\ e.plan = p /\ e.plan \in Nat /\ e.revision \in Nat \ {0}
        /\ e.a \in SlotSchedules /\ e.b \in SlotSchedules
    BY <1>0, <2>3, <2>4 DEF Revisions
  <2>6. PICK o : o = ScheduledTrigger(e, t)
    OBVIOUS
  <2>7. /\ o.plan = p /\ o.revision = e.revision /\ o.due_at = t /\ o \in Slots
        /\ o.kind = IF "B" \in SlotsDue(e, t) THEN "scheduled_b" ELSE "scheduled_a"
    BY <1>0, <2>5, <2>6 DEF ScheduledTrigger, Slots, Kinds
  <2>8. /\ ~e.paused
        /\ "B" \in SlotsDue(e, t) <=> IsDue(e.b, t)
        /\ IsDue(e.a, t) \/ IsDue(e.b, t)
    BY <1>2, <2>2 DEF SlotsDue
  <2>9. /\ Named(e.b, t) <=> o.kind = "scheduled_b"
        /\ Named(e.a, t) \/ Named(e.b, t)
    BY <1>0, <2>5, <2>7, <2>8, DueIsNamed
  <2>10. \A j \in 1 .. n :
           revisions[j].plan = e.plan /\ revisions[j].effective_at <= t =>
               \/ revisions[j].effective_at < e.effective_at
               \/ revisions[j].effective_at = e.effective_at /\ revisions[j].revision <= e.revision
    BY <2>3, <2>5 DEF Listed
  <2>11. InForce(o, n)
    BY <2>3, <2>4, <2>5, <2>7, <2>8, <2>9, <2>10 DEF InForce
  <2>. QED
    BY <2>2, <2>6, <2>7, <2>11
<1>3. ASSUME NEW o \in DueTriggers(Listed(n), t)
      PROVE  \E p : /\ \E r \in Listed(n) : r.plan = p /\ r.effective_at <= t
                    /\ SlotsDue(E(p), t) # {} /\ o = ScheduledTrigger(E(p), t)
  BY <1>3 DEF DueTriggers
<1> HIDE DEF E, n
<1>4. \A o \in DueTriggers(Listed(n), t) : o \in Slots /\ o.due_at = t /\ InForce(o, n)
                                           /\ o = ScheduledTrigger(E(o.plan), t)
  BY <1>2, <1>3
<1>. QED
  BY <1>4 DEF n

-----------------------------------------------------------------------------
(* The steps, by what they do to a ticker *)

Begins(s) == pc[s] \in {"off", "poll"} /\ \E t \in Instants : BeginTick(s, t)

Starts(s) == pc[s] = "off" /\ GoTo(s, "poll") /\ UNCHANGED <<tables, history>>

Ends(s) ==
    /\ pc[s] \in {"done", "poll"} \/ Refused(s)
    /\ EndTick(s, "poll") \/ EndTick(s, "off")
    /\ UNCHANGED <<tables, history>>

\* Every step is one of these.
LEMMA StepCases ==
    ASSUME LocalsOK, [Next]_vars
    PROVE  \/ \E d \in Drafts : AddPlanRevision(d)
           \/ \E o \in Registrations : RegisterOccurrence(o)
           \/ UNCHANGED <<tables, locals, history>>
           \/ \E s \in Tickers : TickStep(s) \/ Crash(s) \/ Begins(s) \/ Starts(s) \/ Ends(s)
<1>1. ASSUME NEW s \in Schedulers,
             Start(s) \/ Poll(s) \/ Heartbeat(s) \/ Stop(s) \/ SchedulerDies(s)
      PROVE  s \in Tickers /\ (Begins(s) \/ Starts(s) \/ Ends(s))
  <2>1. s \in Tickers /\ clock \in Instants
    BY DEF Tickers, LocalsOK
  <2>. QED
    BY <1>1, <2>1 DEF Start, Poll, Heartbeat, Stop, SchedulerDies, Begins, Starts, Ends
<1>2. ASSUME NEW s \in Operators, OperatorTick(s) \/ OperatorReturns(s)
      PROVE  s \in Tickers /\ (Begins(s) \/ Ends(s))
  BY <1>2 DEF OperatorTick, OperatorReturns, Begins, Ends, Tickers
<1>3. Tick \/ UNCHANGED vars => UNCHANGED <<tables, locals, history>>
  BY DEF Tick, vars, tables, locals, history
<1>. QED
  BY <1>1, <1>2, <1>3 DEF Next

\* An occurrence id stands for its columns: digests do not clash, and a row is
\* found exactly when it is there.
LEMMA RowFacts ==
    ASSUME TablesOK, NEW o \in Slots
    PROVE  (Recorded(o) <=> o \in occurrences) /\ ~Clashes(o)
<1>1. \A x \in Slots : OccurrenceId(x) = OccurrenceId(o) => x = o
  BY DEF OccurrenceId, Slots
<1>. QED
  BY <1>1 DEF TablesOK, Recorded, Clashes

\* The locals of ticker q that count are as before.
Kept(q) == pc'[q] = pc[q] /\ at'[q] = at[q] /\ listed'[q] = listed[q] /\ todo'[q] = todo[q]

\* The locals of a ticker change in its own steps only.
LEMMA OthersKeep ==
    ASSUME LocalsOK, NEW s \in Tickers, NEW q \in Tickers, q # s,
           TickStep(s) \/ Crash(s) \/ Begins(s) \/ Starts(s) \/ Ends(s)
    PROVE  Kept(q)
<1>1. CASE List(s) \/ FindOccurrence(s) \/ InsertOccurrence(s) \/ CompleteTick(s)
  BY <1>1 DEF LocalsOK, Kept, List, FindOccurrence, InsertOccurrence, CompleteTick, GoTo
<1>2. CASE FindWork(s)
  BY <1>2 DEF LocalsOK, Kept, FindWork, GoTo
<1>3. CASE InsertWork(s)
  BY <1>3 DEF LocalsOK, Kept, InsertWork
<1>4. CASE Crash(s) \/ Begins(s) \/ Starts(s) \/ Ends(s)
  BY <1>4 DEF LocalsOK, Kept, Crash, Begins, Starts, Ends, EndTick, BeginTick, GoTo
<1>. QED
  BY <1>1, <1>2, <1>3, <1>4 DEF TickStep

\* Plan edits come after what was listed: what was in force of the first n
\* revisions stays so.
LEMMA InForceKept ==
    ASSUME LocalsOK, NEW n \in 0 .. Len(revisions), NEW o, InForce(o, n),
           revisions' = revisions \/ \E d \in Drafts : revisions' = Append(revisions, d)
    PROVE  InForce(o, n)' /\ n \in 0 .. Len(revisions')
<1>1. \A i \in 1 .. n : revisions'[i] = revisions[i]
  BY DEF LocalsOK
<1>2. n \in 0 .. Len(revisions')
  BY DEF LocalsOK
<1>. QED
  BY <1>1, <1>2 DEF InForce

\* Plan edits are the only writes of the plan table.
LEMMA RevisionsStep ==
    ASSUME LocalsOK, [Next]_vars
    PROVE  revisions' = revisions \/ \E d \in Drafts : revisions' = Append(revisions, d)
<1>1. ASSUME NEW s \in Tickers, TickStep(s) \/ Crash(s) \/ Begins(s) \/ Starts(s) \/ Ends(s)
      PROVE  revisions' = revisions
  BY <1>1 DEF TickStep, List, FindOccurrence, InsertOccurrence, FindWork, InsertWork, CompleteTick,
     Crash, Begins, BeginTick, Starts, Ends, tables
<1>2. (\E o \in Registrations : RegisterOccurrence(o)) => revisions' = revisions
  BY DEF RegisterOccurrence
<1>3. \A d \in Drafts : AddPlanRevision(d) => revisions' = Append(revisions, d)
  BY DEF AddPlanRevision
<1>. QED
  BY <1>1, <1>2, <1>3, StepCases DEF tables

\* Revision numbers stay bounded.
LEMMA BoundedStep == LocalsOK /\ Bounded /\ [Next]_vars => Bounded'
<1> SUFFICES ASSUME LocalsOK, Bounded, [Next]_vars PROVE Bounded'
  OBVIOUS
<1>1. PICK m \in Nat : \A i \in 1 .. Len(revisions) : revisions[i].revision <= m
  BY DEF Bounded
<1>2. CASE revisions' = revisions
  BY <1>2 DEF Bounded
<1>3. ASSUME NEW d \in Drafts, revisions' = Append(revisions, d)
      PROVE  Bounded'
  <2>1. d.revision \in Nat /\ \A i \in 1 .. Len(revisions) : revisions[i].revision \in Nat
    <3>1. \A r \in Drafts : r.revision \in Nat
      BY SchedulerConstants DEF Revisions
    <3>2. \A i \in 1 .. Len(revisions) : revisions[i] \in Drafts
      BY DEF LocalsOK
    <3>. QED
      BY <3>1, <3>2
  <2>a. m + d.revision \in Nat /\ m <= m + d.revision /\ d.revision <= m + d.revision
    BY <2>1
  <2>2. PICK k \in Nat : m <= k /\ d.revision <= k
    BY <2>a
  <2>3. ASSUME NEW i \in 1 .. Len(revisions')
        PROVE  revisions'[i].revision <= k
    <3>1. CASE i \in 1 .. Len(revisions)
      <4>1. revisions'[i] = revisions[i] /\ revisions[i].revision <= m
        BY <1>1, <1>3, <3>1 DEF LocalsOK
      <4>. QED
        BY <2>1, <2>2, <3>1, <4>1
    <3>2. CASE i \notin 1 .. Len(revisions)
      <4>1. revisions'[i] = d
        BY <1>3, <2>3, <3>2 DEF LocalsOK
      <4>. QED
        BY <2>2, <4>1
    <3>. QED
      BY <3>1, <3>2
  <2>. QED
    BY <2>3 DEF Bounded
<1>. QED
  BY <1>2, <1>3, RevisionsStep

\* Every step keeps the tables.
LEMMA TablesStep == IInv /\ RInv /\ [Next]_vars => TablesOK'
<1> SUFFICES ASSUME IInv, RInv, [Next]_vars PROVE TablesOK'
  OBVIOUS
<1>0. LocalsOK /\ TablesOK /\ Len(revisions) \in Nat
  BY DEF IInv, RInv, LocalsOK
<1>a. Len(revisions') \in Nat /\ Len(revisions) <= Len(revisions')
  <2>1. CASE revisions' = revisions
    BY <1>0, <2>1
  <2>2. ASSUME NEW d \in Drafts, revisions' = Append(revisions, d)
        PROVE  Len(revisions') = Len(revisions) + 1
    BY <1>0, <2>2 DEF LocalsOK
  <2>. QED
    BY <1>0, <2>1, <2>2, RevisionsStep
<1>1. PICK top \in Nat : top = Len(revisions') /\ Len(revisions) <= top
  BY <1>a
<1>2. \A o \in occurrences : InForce(o, basis[o]) /\ basis[o] \in 0 .. Len(revisions)
  BY <1>0 DEF TablesOK
<1>3. \A o, n : InForce(o, n) /\ n \in 0 .. Len(revisions) => InForce(o, n)' /\ n \in 0 .. top
  BY <1>0, <1>1, InForceKept, RevisionsStep
<1>4. listed \in [Tickers -> 0 .. top]
  BY <1>0, <1>1 DEF TablesOK
<1>5. ASSUME UNCHANGED <<occurrences, basis>>
      PROVE  /\ basis' \in [occurrences' -> 0 .. top]
             /\ \A o \in occurrences' : InForce(o, basis[o])'
  <2>1. \A o \in occurrences : InForce(o, basis[o])'
    <3> SUFFICES ASSUME NEW o \in occurrences PROVE InForce(o, basis[o])'
      OBVIOUS
    <3>1. PICK n \in 0 .. Len(revisions) : n = basis[o] /\ InForce(o, n)
      BY <1>2
    <3>2. basis'[o] = n /\ InForce(o, n)'
      BY <1>3, <1>5, <3>1
    <3>. QED
      BY <3>2 DEF InForce
  <2>2. basis \in [occurrences -> 0 .. top]
    BY <1>0, <1>1 DEF TablesOK
  <2>. QED
    BY <1>5, <2>1, <2>2
<1>6. CASE \/ \E d \in Drafts : AddPlanRevision(d)
           \/ \E o \in Registrations : RegisterOccurrence(o)
           \/ UNCHANGED <<tables, locals, history>>
  <2>1. /\ UNCHANGED <<occurrences, basis, work, todo, listed, fate>>
        /\ registered' \subseteq Registrations
    BY <1>0, <1>6 DEF AddPlanRevision, RegisterOccurrence, tables, locals, history, TablesOK
  <2>. QED
    BY <1>0, <1>1, <1>4, <1>5, <2>1 DEF TablesOK
<1>7. ASSUME NEW s \in Tickers, TickStep(s) \/ Crash(s) \/ Begins(s) \/ Starts(s) \/ Ends(s)
      PROVE  TablesOK'
  <2>1. registered' = registered
    BY <1>7 DEF TickStep, List, FindOccurrence, InsertOccurrence, FindWork, InsertWork, CompleteTick,
       Crash, Begins, BeginTick, Starts, Ends, tables
  <2>2. fate' \in [Instants -> SUBSET {"begun", "completed", "lost"}]
    <3>1. CASE fate' = fate
      BY <1>0, <3>1 DEF TablesOK
    <3>2. CASE \E t \in Instants, f \in {"begun", "completed", "lost"} :
                 fate' = [fate EXCEPT ![t] = @ \cup {f}]
      BY <1>0, <3>2 DEF TablesOK
    <3>3. TickStep(s) /\ ~CompleteTick(s) => fate' = fate
      BY DEF TickStep, List, FindOccurrence, InsertOccurrence, FindWork, InsertWork, history
    <3>4. at[s] \in Instants
      BY <1>0 DEF LocalsOK
    <3>. QED
      BY <1>7, <3>1, <3>2, <3>3, <3>4 DEF CompleteTick, Crash, Begins, BeginTick, Starts, Ends, history
  <2>3. listed' \in [Tickers -> 0 .. top]
    <3>1. listed' = listed \/ listed' = [listed EXCEPT ![s] = Len(revisions)]
          \/ listed' = [listed EXCEPT ![s] = 0]
      BY <1>7 DEF TickStep, List, FindOccurrence, InsertOccurrence, FindWork, InsertWork, CompleteTick,
         Crash, Begins, BeginTick, Starts, Ends, EndTick, GoTo
    <3>. QED
      BY <1>0, <1>1, <1>4, <3>1
  <2>4. todo' \in [Tickers -> SUBSET Slots]
    <3>0. todo \in [Tickers -> SUBSET Slots]
      BY <1>0 DEF TablesOK
    <3>1. CASE List(s)
      <4>1. at[s] \in Instants /\ Bounded
        BY <1>0 DEF LocalsOK, RInv
      <4>2. DueTriggers(Listed(Len(revisions)), at[s]) \subseteq Slots
        BY <1>0, <4>1, Triggers
      <4>. QED
        BY <3>0, <3>1, <4>2 DEF List
    <3>2. CASE FindWork(s)
      <4>1. todo' = todo \/ \E o \in todo[s] : todo' = [todo EXCEPT ![s] = @ \ {o}]
        BY <3>2 DEF FindWork, GoTo
      <4>. QED
        BY <3>0, <4>1
    <3>3. CASE InsertWork(s)
      <4>1. \E o \in todo[s] : todo' = [todo EXCEPT ![s] = @ \ {o}]
        BY <3>3 DEF InsertWork
      <4>. QED
        BY <3>0, <4>1
    <3>4. CASE FindOccurrence(s) \/ InsertOccurrence(s) \/ CompleteTick(s) \/ Begins(s) \/ Starts(s)
      BY <3>0, <3>4 DEF FindOccurrence, InsertOccurrence, CompleteTick, Begins, BeginTick, Starts, GoTo
    <3>5. CASE Crash(s) \/ Ends(s)
      BY <3>0, <3>5 DEF Crash, Ends, EndTick
    <3>. QED
      BY <1>7, <3>1, <3>2, <3>3, <3>4, <3>5 DEF TickStep
  <2>5. CASE InsertOccurrence(s)
    <3>1. PICK o \in todo[s] : /\ occurrences' = occurrences \cup {o} /\ o \notin occurrences
                               /\ basis' = [x \in occurrences \cup {o} |->
                                              IF x = o THEN listed[s] ELSE basis[x]]
      BY <2>5 DEF InsertOccurrence, Recorded
    <3>2. o \in Slots /\ InForce(o, listed[s]) /\ listed[s] \in 0 .. Len(revisions)
      BY <1>0, <3>1 DEF TablesOK, RInv, TodoOK
    <3>3. \A x \in occurrences' : \E n \in 0 .. Len(revisions) : basis'[x] = n /\ InForce(x, n)
      BY <1>2, <3>1, <3>2
    <3>4. \A x \in occurrences' : basis'[x] \in 0 .. top /\ InForce(x, basis[x])'
      <4> SUFFICES ASSUME NEW x \in occurrences'
                   PROVE  basis'[x] \in 0 .. top /\ InForce(x, basis[x])'
        OBVIOUS
      <4>1. PICK n \in 0 .. Len(revisions) : basis'[x] = n /\ InForce(x, n)
        BY <3>3
      <4>. QED
        BY <1>3, <4>1 DEF InForce
    <3>5. basis' \in [occurrences' -> 0 .. top]
      <4>1. basis' = [x \in occurrences' |-> basis'[x]]
        BY <3>1
      <4>. QED
        BY <3>4, <4>1
    <3>6. occurrences' \subseteq Slots /\ work' \subseteq occurrences'
      BY <1>0, <2>5, <3>1, <3>2 DEF InsertOccurrence, TablesOK
    <3>. QED
      BY <1>0, <1>1, <2>1, <2>2, <2>3, <2>4, <3>4, <3>5, <3>6 DEF TablesOK
  <2>6. CASE ~InsertOccurrence(s)
    <3>1. UNCHANGED <<occurrences, basis>>
      BY <1>7, <2>6 DEF TickStep, List, FindOccurrence, FindWork, InsertWork, CompleteTick,
         Crash, Begins, BeginTick, Starts, Ends, tables, history
    <3>2. work' \subseteq occurrences
      <4>1. CASE InsertWork(s)
        <5>1. PICK o \in todo[s] : Current(s, o) /\ work' = work \cup {o}
          BY <4>1 DEF InsertWork
        <5>2. o \in occurrences
          BY <4>1, <5>1 DEF RInv, TodoOK, InsertWork
        <5>. QED
          BY <1>0, <5>1, <5>2 DEF TablesOK
      <4>2. CASE ~InsertWork(s)
        BY <1>0, <1>7, <2>6, <4>2 DEF TablesOK, TickStep, List, FindOccurrence, FindWork, CompleteTick,
           Crash, Begins, BeginTick, Starts, Ends, tables
      <4>. QED
        BY <4>1, <4>2
    <3>. QED
      BY <1>0, <1>1, <1>5, <2>1, <2>2, <2>3, <2>4, <3>1, <3>2 DEF TablesOK
  <2>. QED
    BY <2>5, <2>6
<1>. QED
  BY <1>0, <1>6, <1>7, StepCases

\* Rows are never deleted, and the history of an instant only grows.
LEMMA TablesGrow ==
    ASSUME IInv, RInv, [Next]_vars
    PROVE  /\ occurrences \subseteq occurrences' /\ registered \subseteq registered'
           /\ \A t \in Instants : fate[t] \subseteq fate'[t]
<1>0. LocalsOK /\ TablesOK
  BY DEF IInv, RInv
<1>1. ASSUME NEW s \in Tickers, TickStep(s) \/ Crash(s) \/ Begins(s) \/ Starts(s) \/ Ends(s)
      PROVE  /\ occurrences \subseteq occurrences' /\ registered \subseteq registered'
             /\ \A t \in Instants : fate[t] \subseteq fate'[t]
  <2>1. occurrences \subseteq occurrences' /\ registered \subseteq registered'
    BY <1>1 DEF TickStep, List, FindOccurrence, InsertOccurrence, FindWork, InsertWork, CompleteTick,
       Crash, Begins, BeginTick, Starts, Ends, tables
  <2>2. fate' = fate \/ \E t, f : fate' = [fate EXCEPT ![t] = @ \cup {f}]
    <3>1. TickStep(s) /\ ~CompleteTick(s) => fate' = fate
      BY DEF TickStep, List, FindOccurrence, InsertOccurrence, FindWork, InsertWork, history
    <3>. QED
      BY <1>1, <3>1 DEF CompleteTick, Crash, Begins, BeginTick, Starts, Ends, history
  <2>. QED
    BY <1>0, <2>1, <2>2 DEF TablesOK
<1>2. CASE \/ \E d \in Drafts : AddPlanRevision(d)
           \/ \E o \in Registrations : RegisterOccurrence(o)
           \/ UNCHANGED <<tables, locals, history>>
  BY <1>2 DEF AddPlanRevision, RegisterOccurrence, tables, locals, history
<1>. QED
  BY <1>0, <1>1, <1>2, StepCases

\* A ticker's list stays right, whatever the others do.
LEMMA TodoKept ==
    ASSUME IInv, RInv, [Next]_vars, NEW q \in Tickers, Kept(q)
    PROVE  TodoOK(q)' /\ (Ticking(q)' => "begun" \in fate'[at'[q]])
<1>0. LocalsOK /\ TodoOK(q) /\ listed[q] \in 0 .. Len(revisions)
  BY DEF IInv, RInv, TablesOK
<1>1. \A o \in todo[q] : InForce(o, listed[q])'
  <2>1. PICK n \in 0 .. Len(revisions) : n = listed[q]
    BY <1>0
  <2>2. \A o \in todo[q] : InForce(o, n)'
    BY <1>0, <2>1, InForceKept, RevisionsStep DEF TodoOK
  <2>. QED
    BY <2>1, <2>2 DEF Kept, InForce
<1>2. \A o \in todo[q] : Current(q, o)' => Current(q, o)
  BY DEF Kept, Current
<1>3. TodoOK(q)'
  BY <1>0, <1>1, <1>2, TablesGrow DEF TodoOK, Kept
<1>4. Ticking(q)' => "begun" \in fate'[at'[q]]
  <2>1. at[q] \in Instants
    BY <1>0 DEF LocalsOK
  <2>. QED
    BY <2>1, TablesGrow DEF RInv, Ticking, Kept
<1>. QED
  BY <1>3, <1>4

\* A ticker's own steps keep its list right.
LEMMA TodoOwn ==
    ASSUME IInv, RInv, [Next]_vars, NEW s \in Tickers,
           TickStep(s) \/ Crash(s) \/ Begins(s) \/ Starts(s) \/ Ends(s)
    PROVE  TodoOK(s)' /\ (Ticking(s)' => "begun" \in fate'[at'[s]])
<1>0. /\ LocalsOK /\ TablesOK /\ TodoOK(s) /\ at[s] \in Instants
      /\ Ticking(s) => "begun" \in fate[at[s]]
  BY DEF IInv, RInv, LocalsOK
<1>1. ASSUME todo'[s] = {}, Ticking(s)' => pc'[s] = "list" /\ "begun" \in fate'[at'[s]]
      PROVE  TodoOK(s)' /\ (Ticking(s)' => "begun" \in fate'[at'[s]])
  BY <1>1 DEF TodoOK
<1>2. CASE Crash(s) \/ Ends(s)
  BY <1>0, <1>1, <1>2 DEF Crash, Ends, EndTick, LocalsOK, Ticking
<1>3. CASE Starts(s)
  BY <1>0, <1>1, <1>3 DEF Starts, GoTo, LocalsOK, Ticking, TodoOK
<1>4. CASE Begins(s)
  <2>1. PICK t \in Instants : BeginTick(s, t)
    BY <1>4 DEF Begins
  <2>2. todo'[s] = {} /\ pc'[s] = "list" /\ at'[s] = t /\ "begun" \in fate'[t]
    BY <1>0, <1>4, <2>1 DEF Begins, BeginTick, LocalsOK, TablesOK, TodoOK
  <2>. QED
    BY <1>1, <2>2
<1>5. CASE CompleteTick(s)
  BY <1>0, <1>1, <1>5 DEF CompleteTick, GoTo, LocalsOK, Ticking
<1>6. CASE List(s)
  <2>0. Bounded
    BY DEF RInv
  <2>1. /\ pc'[s] = "next" /\ at'[s] = at[s] /\ listed'[s] = Len(revisions)
        /\ todo'[s] = DueTriggers(Listed(Len(revisions)), at[s]) /\ UNCHANGED <<revisions, fate>>
    BY <1>0, <1>6 DEF List, LocalsOK, tables, history
  <2>2. /\ \A o \in todo'[s] : o.due_at = at[s] /\ InForce(o, Len(revisions))
        /\ \A o \in todo'[s], x \in todo'[s] : o.plan = x.plan => o = x
    BY <1>0, <2>0, <2>1, Triggers
  <2>3. \A o \in todo'[s] : InForce(o, listed[s])'
    BY <2>1, <2>2 DEF InForce
  <2>4. "begun" \in fate'[at'[s]]
    BY <1>0, <1>6, <2>1 DEF Ticking, List
  <2>. QED
    BY <2>1, <2>2, <2>3, <2>4 DEF TodoOK
<1>7. ASSUME at'[s] = at[s], listed'[s] = listed[s], UNCHANGED <<revisions, fate>>,
             todo'[s] \subseteq todo[s], Ticking(s),
             pc'[s] \in {"next", "insert_occurrence", "find_work", "insert_work"},
             pc'[s] \in {"find_work", "insert_work"} =>
               \A o \in todo'[s] : Current(s, o)' => o \in occurrences'
      PROVE  TodoOK(s)' /\ (Ticking(s)' => "begun" \in fate'[at'[s]])
  <2>1. \A o \in todo'[s] : InForce(o, listed[s])'
    BY <1>0, <1>7 DEF InForce, TodoOK
  <2>. QED
    BY <1>0, <1>7, <2>1 DEF TodoOK
<1>8. \A o \in todo[s] : o \in Slots /\ (Recorded(o) <=> o \in occurrences)
  BY <1>0, RowFacts DEF TablesOK
<1>9. \A o, x \in todo[s] : Current(s, o) /\ Current(s, x) => o = x
  <2> SUFFICES ASSUME NEW o \in todo[s], NEW x \in todo[s], Current(s, o), Current(s, x) PROVE o = x
    OBVIOUS
  <2>1. o.plan <= x.plan /\ x.plan <= o.plan /\ o.plan \in Nat /\ x.plan \in Nat
    BY <1>8 DEF Current, Slots
  <2>. QED
    BY <1>0, <2>1 DEF TodoOK
<1>10. CASE FindOccurrence(s)
  <2>1. PICK o \in todo[s] : /\ Current(s, o)
                             /\ GoTo(s, IF Recorded(o) THEN "find_work" ELSE "insert_occurrence")
    BY <1>10 DEF FindOccurrence
  <2>2. /\ pc'[s] = IF Recorded(o) THEN "find_work" ELSE "insert_occurrence"
        /\ UNCHANGED <<at, listed, todo, revisions, fate, occurrences>> /\ Ticking(s)
    BY <1>0, <1>10, <2>1 DEF FindOccurrence, GoTo, LocalsOK, tables, history, Ticking
  <2>3. pc'[s] = "find_work" => \A x \in todo[s] : Current(s, x) => x \in occurrences
    BY <1>8, <1>9, <2>1, <2>2
  <2>. QED
    BY <1>7, <2>2, <2>3 DEF Current
<1>11. CASE InsertOccurrence(s)
  <2>1. PICK o \in todo[s] : Current(s, o) /\ occurrences' = occurrences \cup {o}
    BY <1>11 DEF InsertOccurrence
  <2>2. pc'[s] = "find_work" /\ UNCHANGED <<at, listed, todo, revisions, fate>> /\ Ticking(s)
    BY <1>0, <1>11 DEF InsertOccurrence, GoTo, LocalsOK, Ticking
  <2>3. \A x \in todo[s] : Current(s, x) => x \in occurrences'
    BY <1>9, <2>1
  <2>. QED
    BY <1>7, <2>2, <2>3 DEF Current
<1>12. CASE FindWork(s)
  <2>1. /\ UNCHANGED <<at, listed, revisions, fate, occurrences>> /\ Ticking(s)
        /\ \/ pc'[s] = "next" /\ todo'[s] \subseteq todo[s]
           \/ pc'[s] = "insert_work" /\ todo' = todo
    BY <1>0, <1>12 DEF FindWork, GoTo, LocalsOK, tables, history, Ticking
  <2>2. \A x \in todo[s] : Current(s, x) => x \in occurrences
    BY <1>0, <1>12 DEF FindWork, TodoOK
  <2>. QED
    BY <1>7, <2>1, <2>2 DEF Current
<1>13. CASE InsertWork(s)
  <2>1. /\ UNCHANGED <<at, listed, revisions, fate>> /\ Ticking(s)
        /\ pc'[s] = "next" /\ todo'[s] \subseteq todo[s]
    BY <1>0, <1>13 DEF InsertWork, LocalsOK, history, Ticking
  <2>. QED
    BY <1>7, <2>1
<1>. QED
  BY <1>2, <1>3, <1>4, <1>5, <1>6, <1>10, <1>11, <1>12, <1>13 DEF TickStep

\* Every step keeps the lists of all tickers.
LEMMA TodoStep ==
    ASSUME IInv, RInv, [Next]_vars, NEW q \in Tickers
    PROVE  TodoOK(q)' /\ (Ticking(q)' => "begun" \in fate'[at'[q]])
<1>0. LocalsOK
  BY DEF IInv
<1>1. CASE \/ \E d \in Drafts : AddPlanRevision(d)
           \/ \E o \in Registrations : RegisterOccurrence(o)
           \/ UNCHANGED <<tables, locals, history>>
  <2>1. Kept(q)
    BY <1>1 DEF AddPlanRevision, RegisterOccurrence, locals, Kept
  <2>. QED
    BY <2>1, TodoKept
<1>. QED
  BY <1>0, <1>1, StepCases, OthersKeep, TodoKept, TodoOwn

-----------------------------------------------------------------------------
(* The race *)

\* A leader is refused only by a caller's own registration.
LEMMA LeaderRefused ==
    ASSUME IInv, RInv, NEW s \in Tickers, NEW t \in Instants, Leads(s, t), Refused(s)
    PROVE  \E o \in registered : o.due_at = t
<1>1. PICK o \in todo[s] :
         \/ pc[s] = "next" /\ Clashes(o)
         \/ pc[s] = "insert_occurrence" /\ (Recorded(o) \/ o \in registered)
         \/ pc[s] = "insert_work" /\ o \in work
  BY DEF Refused
<1>2. o \in Slots /\ o.due_at = t
  BY DEF RInv, TablesOK, TodoOK, Leads
<1>3. (Recorded(o) <=> o \in occurrences) /\ ~Clashes(o)
  BY <1>2, RowFacts DEF RInv
<1>. QED
  BY <1>1, <1>2, <1>3 DEF Leads

\* A leader stays one while what others write is behind it.
LEMMA LeadKept ==
    ASSUME IInv, RInv, NEW q \in Tickers, NEW t \in Instants, Leads(q, t), Kept(q),
           \A o \in occurrences' : o \in occurrences \/ o.due_at # t
              \/ (pc[q] # "list" /\ o \notin todo[q] /\ \A x \in todo[q] : o.plan <= x.plan),
           \A x \in todo[q] : x \notin work'
    PROVE  Leads(q, t)'
<1>1. \A x \in todo[q] : x.due_at = t
  BY DEF RInv, TodoOK, Leads
<1>. QED
  BY <1>1 DEF Leads, Kept, Ticking

\* An occurrence inserted by another ticker: it is behind the leader, or the
\* one who inserted it leads.
LEMMA InsertRace ==
    ASSUME IInv, RInv, NEW s \in Tickers, NEW q \in Tickers, q # s, NEW t \in Instants,
           Leads(q, t), InsertOccurrence(s)
    PROVE  Leads(q, t)' \/ Leads(s, t)'
<1>0. LocalsOK /\ TablesOK /\ TodoOK(s) /\ TodoOK(q)
  BY DEF IInv, RInv
<1>1. PICK o \in todo[s] : /\ Current(s, o) /\ o \notin occurrences
                           /\ occurrences' = occurrences \cup {o}
  BY DEF InsertOccurrence, Recorded
<1>2. /\ UNCHANGED <<work, todo, at>> /\ pc'[s] = "find_work" /\ o.due_at = at[s] /\ Kept(q)
  BY <1>0, <1>1, OthersKeep DEF InsertOccurrence, GoTo, LocalsOK, TodoOK, TickStep
<1>3. todo[s] \subseteq Slots /\ todo[q] \subseteq Slots /\ occurrences \subseteq Slots
  BY <1>0 DEF TablesOK
<1>4. \A x \in Slots : x.plan \in Nat
  BY DEF Slots
<1>5. CASE \/ at[s] # t
           \/ pc[q] # "list" /\ o \notin todo[q] /\ \A x \in todo[q] : o.plan <= x.plan
  BY <1>1, <1>2, <1>5, LeadKept DEF Leads
<1>6. CASE /\ at[s] = t
           /\ pc[q] = "list" \/ o \in todo[q] \/ \E x \in todo[q] : ~(o.plan <= x.plan)
  <2>1. \A y \in occurrences : y.due_at = t => y.plan <= o.plan
    <3> SUFFICES ASSUME NEW y \in occurrences, y.due_at = t PROVE y.plan <= o.plan
      OBVIOUS
    <3>1. pc[q] # "list" /\ \A x \in todo[q] : y.plan <= x.plan
      BY DEF Leads
    <3>2. CASE o \in todo[q]
      BY <3>1, <3>2
    <3>3. ASSUME NEW x \in todo[q], ~(o.plan <= x.plan) PROVE y.plan <= o.plan
      <4>1. y.plan <= x.plan /\ y.plan \in Nat /\ x.plan \in Nat /\ o.plan \in Nat
        BY <1>1, <1>3, <1>4, <3>1
      <4>. QED
        BY <3>3, <4>1
    <3>. QED
      BY <1>6, <3>1, <3>2, <3>3
  <2>2. \A x \in todo[s] : o.plan <= x.plan
    BY <1>1 DEF Current
  <2>3. \A y \in occurrences', x \in todo[s] : y.due_at = t => y.plan <= x.plan
    <3> SUFFICES ASSUME NEW y \in occurrences', NEW x \in todo[s], y.due_at = t PROVE y.plan <= x.plan
      OBVIOUS
    <3>1. y.plan \in Nat /\ x.plan \in Nat /\ o.plan \in Nat
      BY <1>1, <1>3, <1>4
    <3>2. y.plan <= o.plan
      BY <1>1, <2>1, <3>1
    <3>. QED
      BY <2>2, <3>1, <3>2
  <2>4. \A x \in todo[s] : x \notin work
    <3> SUFFICES ASSUME NEW x \in todo[s], x \in work PROVE FALSE
      OBVIOUS
    <3>1. x \in occurrences /\ x.due_at = t /\ x # o
      BY <1>0, <1>1, <1>6 DEF TablesOK, TodoOK
    <3>2. x.plan <= o.plan /\ o.plan <= x.plan /\ x.plan \in Nat /\ o.plan \in Nat
      BY <1>1, <1>3, <1>4, <2>1, <2>2, <3>1
    <3>3. x.plan = o.plan
      BY <3>2
    <3>. QED
      BY <1>0, <1>1, <3>1, <3>3 DEF TodoOK
  <2>. QED
    BY <1>2, <1>6, <2>3, <2>4 DEF Leads, Ticking
<1>. QED
  BY <1>5, <1>6

\* A work item inserted by another ticker: it is not the leader's, or the one
\* who inserted it leads.
LEMMA WorkRace ==
    ASSUME IInv, RInv, NEW s \in Tickers, NEW q \in Tickers, q # s, NEW t \in Instants,
           Leads(q, t), InsertWork(s)
    PROVE  Leads(q, t)' \/ Leads(s, t)'
<1>0. LocalsOK /\ TablesOK /\ TodoOK(s) /\ TodoOK(q)
  BY DEF IInv, RInv
<1>1. PICK o \in todo[s] : /\ Current(s, o) /\ work' = work \cup {o}
                           /\ todo' = [todo EXCEPT ![s] = @ \ {o}]
  BY DEF InsertWork
<1>2. /\ UNCHANGED <<occurrences, at>> /\ pc'[s] = "next" /\ o.due_at = at[s] /\ Kept(q)
      /\ todo'[s] = todo[s] \ {o}
  BY <1>0, <1>1, OthersKeep DEF InsertWork, LocalsOK, TodoOK, TickStep, TablesOK
<1>3. todo[s] \subseteq Slots /\ occurrences \subseteq Slots /\ \A x \in Slots : x.plan \in Nat
  BY <1>0 DEF TablesOK, Slots
<1>4. CASE o \notin todo[q]
  BY <1>1, <1>2, <1>4, LeadKept DEF Leads
<1>5. CASE o \in todo[q]
  <2>1. at[s] = t /\ \A y \in occurrences : y.due_at = t => y.plan <= o.plan
    BY <1>0, <1>2, <1>5 DEF Leads, TodoOK
  <2>2. \A x \in todo'[s] : o.plan <= x.plan /\ o.plan # x.plan
    BY <1>0, <1>1, <1>2 DEF Current, TodoOK
  <2>3. \A y \in occurrences, x \in todo'[s] : y.due_at = t => y.plan <= x.plan /\ y # x
    <3> SUFFICES ASSUME NEW y \in occurrences, NEW x \in todo'[s], y.due_at = t
                 PROVE  y.plan <= x.plan /\ y # x
      OBVIOUS
    <3>1. y.plan \in Nat /\ x.plan \in Nat /\ o.plan \in Nat
      BY <1>1, <1>2, <1>3
    <3>. QED
      BY <2>1, <2>2, <3>1
  <2>4. \A x \in todo'[s] : x.due_at = t /\ x # o
    BY <1>0, <1>2, <2>1 DEF TodoOK
  <2>5. \A x \in todo'[s] : x \notin occurrences /\ x \notin work'
    BY <1>0, <1>1, <2>3, <2>4 DEF TablesOK
  <2>. QED
    BY <1>2, <2>1, <2>3, <2>5 DEF Leads, Ticking
<1>. QED
  BY <1>4, <1>5

\* A leader goes on leading until its tick returns.
LEMMA LeaderSteps ==
    ASSUME IInv, RInv, NEW s \in Tickers, NEW t \in Instants, Leads(s, t),
           TickStep(s), ~CompleteTick(s)
    PROVE  Leads(s, t)'
<1>0. LocalsOK /\ TablesOK /\ TodoOK(s) /\ Bounded /\ at[s] = t
  BY DEF IInv, RInv, Leads
<1>1. CASE List(s)
  <2>1. /\ pc'[s] = "next" /\ at'[s] = t /\ UNCHANGED <<occurrences, work>>
        /\ todo'[s] = DueTriggers(Listed(Len(revisions)), t)
    BY <1>0, <1>1 DEF List, LocalsOK, tables
  <2>2. \A x \in todo'[s] : x.due_at = t
    BY <1>0, <2>1, Triggers
  <2>3. \A o \in occurrences : o.due_at # t
    BY <1>1 DEF Leads, List
  <2>. QED
    BY <1>0, <2>1, <2>2, <2>3 DEF Leads, Ticking, TablesOK
<1>2. CASE FindOccurrence(s)
  <2>1. /\ pc'[s] \in {"find_work", "insert_occurrence"} /\ pc[s] = "next"
        /\ UNCHANGED <<occurrences, work, todo, at>>
    BY <1>0, <1>2 DEF FindOccurrence, GoTo, LocalsOK, tables
  <2>. QED
    BY <2>1 DEF Leads, Ticking
<1>3. CASE InsertOccurrence(s)
  <2>1. PICK o \in todo[s] : Current(s, o) /\ occurrences' = occurrences \cup {o}
    BY <1>3 DEF InsertOccurrence
  <2>2. pc'[s] = "find_work" /\ UNCHANGED <<work, todo, at>> /\ pc[s] = "insert_occurrence"
    BY <1>0, <1>3 DEF InsertOccurrence, GoTo, LocalsOK
  <2>. QED
    BY <2>1, <2>2 DEF Leads, Ticking, Current
<1>4. CASE FindWork(s)
  <2>1. \A o \in todo[s] : o \notin work
    BY DEF Leads
  <2>2. pc'[s] = "insert_work" /\ pc[s] = "find_work" /\ UNCHANGED <<occurrences, work, todo, at>>
    BY <1>0, <1>4, <2>1 DEF FindWork, GoTo, LocalsOK, tables
  <2>. QED
    BY <2>2 DEF Leads, Ticking
<1>5. CASE InsertWork(s)
  <2>1. PICK o \in todo[s] : /\ Current(s, o) /\ work' = work \cup {o}
                             /\ todo' = [todo EXCEPT ![s] = @ \ {o}]
    BY <1>5 DEF InsertWork
  <2>2. /\ pc'[s] = "next" /\ pc[s] = "insert_work" /\ UNCHANGED <<occurrences, at>>
        /\ todo'[s] = todo[s] \ {o}
    BY <1>0, <1>5, <2>1 DEF InsertWork, LocalsOK, TablesOK
  <2>3. \A x \in todo'[s] : x \notin occurrences
    <3> SUFFICES ASSUME NEW x \in todo[s], x # o, x \in occurrences PROVE FALSE
      BY <2>2
    <3>1. x.plan <= o.plan /\ o.plan <= x.plan /\ x.plan \in Nat /\ o.plan \in Nat
      BY <1>0, <2>1 DEF Leads, TodoOK, Current, TablesOK, Slots
    <3>. QED
      BY <1>0, <3>1 DEF TodoOK
  <2>. QED
    BY <2>1, <2>2, <2>3 DEF Leads, Ticking
<1>. QED
  BY <1>1, <1>2, <1>3, <1>4, <1>5 DEF TickStep

\* Every step keeps the race at an instant.
LEMMA RaceStep ==
    ASSUME IInv, RInv, [Next]_vars, NEW t \in Instants
    PROVE  RaceOK(t)'
<1>0. LocalsOK /\ TablesOK /\ RaceOK(t)
  BY DEF IInv, RInv
<1>1. /\ occurrences \subseteq occurrences' /\ registered \subseteq registered' /\ fate[t] \subseteq fate'[t]
  BY TablesGrow
<1>2. ASSUME fate'[t] = {} PROVE \A o \in occurrences' : o.due_at # t
  <2>1. \A o \in occurrences : o.due_at # t
    BY <1>0, <1>1, <1>2 DEF RaceOK
  <2>2. ASSUME NEW s \in Tickers, InsertOccurrence(s)
        PROVE  \A o \in occurrences' : o.due_at # t
    <3>1. PICK o \in todo[s] : occurrences' = occurrences \cup {o}
      BY <2>2 DEF InsertOccurrence
    <3>2. o.due_at = at[s] /\ "begun" \in fate[at[s]]
      BY <2>2, <3>1 DEF RInv, TodoOK, Ticking, InsertOccurrence
    <3>. QED
      BY <1>1, <1>2, <2>1, <3>1, <3>2
  <2>3. ASSUME NEW s \in Tickers, TickStep(s) \/ Crash(s) \/ Begins(s) \/ Starts(s) \/ Ends(s),
               ~InsertOccurrence(s)
        PROVE  occurrences' = occurrences
    BY <2>3 DEF TickStep, List, FindOccurrence, FindWork, InsertWork, CompleteTick,
       Crash, Begins, BeginTick, Starts, Ends, tables
  <2>4. CASE \/ \E d \in Drafts : AddPlanRevision(d)
             \/ \E o \in Registrations : RegisterOccurrence(o)
             \/ UNCHANGED <<tables, locals, history>>
    BY <2>1, <2>4 DEF AddPlanRevision, RegisterOccurrence, tables
  <2>. QED
    BY <1>0, <2>1, <2>2, <2>3, <2>4, StepCases
<1>3. ASSUME fate'[t] = {"begun"}
      PROVE  (\E s \in Tickers : Leads(s, t)') \/ \E o \in registered' : o.due_at = t
  <2>1. CASE \E o \in registered : o.due_at = t
    BY <1>1, <2>1
  <2>2. CASE fate[t] = {}
    <3>1. PICK s \in Tickers : Begins(s) /\ \E u \in Instants : BeginTick(s, u)
      <4>1. ASSUME NEW s \in Tickers, TickStep(s) \/ Crash(s) \/ Starts(s) \/ Ends(s)
            PROVE  "begun" \in fate'[t] => "begun" \in fate[t]
        <5>1. TickStep(s) /\ ~CompleteTick(s) => fate' = fate
          BY DEF TickStep, List, FindOccurrence, InsertOccurrence, FindWork, InsertWork, history
        <5>2. CASE CompleteTick(s) \/ Crash(s)
          BY <1>0, <5>2 DEF CompleteTick, Crash, TablesOK
        <5>3. CASE Starts(s) \/ Ends(s)
          BY <5>3 DEF Starts, Ends, history
        <5>. QED
          BY <4>1, <5>1, <5>2, <5>3
      <4>2. CASE \/ \E d \in Drafts : AddPlanRevision(d)
                 \/ \E o \in Registrations : RegisterOccurrence(o)
                 \/ UNCHANGED <<tables, locals, history>>
        BY <1>3, <2>2, <4>2 DEF AddPlanRevision, RegisterOccurrence, history
      <4>. QED
        BY <1>0, <1>3, <2>2, <4>1, <4>2, StepCases DEF Begins
    <3>2. PICK u \in Instants : BeginTick(s, u)
      BY <3>1
    <3>3. u = t
      BY <1>0, <1>3, <2>2, <3>2 DEF BeginTick, TablesOK
    <3>4. /\ pc'[s] = "list" /\ at'[s] = t /\ todo'[s] = {} /\ occurrences' = occurrences
      BY <1>0, <3>1, <3>2, <3>3 DEF Begins, BeginTick, LocalsOK, RInv, TodoOK, tables
    <3>5. \A o \in occurrences : o.due_at # t
      BY <1>0, <2>2 DEF RaceOK
    <3>6. Leads(s, t)'
      BY <3>4, <3>5 DEF Leads, Ticking
    <3>. QED
      BY <3>6
  <2>3. ASSUME NEW q \in Tickers, Leads(q, t)
        PROVE  (\E s \in Tickers : Leads(s, t)') \/ \E o \in registered' : o.due_at = t
    <3>1. CASE Kept(q) /\ UNCHANGED <<occurrences, work>>
      BY <2>3, <3>1, LeadKept DEF Leads
    <3>2. CASE \/ \E d \in Drafts : AddPlanRevision(d)
               \/ \E o \in Registrations : RegisterOccurrence(o)
               \/ UNCHANGED <<tables, locals, history>>
      BY <3>1, <3>2 DEF AddPlanRevision, RegisterOccurrence, tables, locals, Kept
    <3>3. ASSUME NEW s \in Tickers, s # q,
                 TickStep(s) \/ Crash(s) \/ Begins(s) \/ Starts(s) \/ Ends(s)
          PROVE  \E p \in Tickers : Leads(p, t)'
      <4>1. CASE InsertOccurrence(s)
        BY <2>3, <3>3, <4>1, InsertRace
      <4>2. CASE InsertWork(s)
        BY <2>3, <3>3, <4>2, WorkRace
      <4>3. CASE ~InsertOccurrence(s) /\ ~InsertWork(s)
        <5>1. UNCHANGED <<occurrences, work>>
          BY <3>3, <4>3 DEF TickStep, List, FindOccurrence, FindWork, CompleteTick,
             Crash, Begins, BeginTick, Starts, Ends, tables
        <5>2. Kept(q)
          BY <1>0, <3>3, OthersKeep
        <5>3. \A x \in todo[q] : x \notin work'
          BY <2>3, <5>1 DEF Leads
        <5>. QED
          BY <2>3, <5>1, <5>2, <5>3, LeadKept
      <4>. QED
        BY <4>1, <4>2, <4>3
    <3>4. CASE TickStep(q)
      <4>1. ~CompleteTick(q)
        BY <1>0, <1>3, <2>3 DEF CompleteTick, Leads, TablesOK
      <4>. QED
        BY <2>3, <3>4, <4>1, LeaderSteps
    <3>5. ~Crash(q)
      BY <1>0, <1>3, <2>3 DEF Crash, Leads, TablesOK
    <3>6. ~Begins(q) /\ ~Starts(q)
      BY <2>3 DEF Begins, Starts, Leads, Ticking
    <3>7. CASE Ends(q)
      <4>1. Refused(q)
        BY <2>3, <3>7 DEF Ends, Leads, Ticking
      <4>. QED
        BY <1>1, <2>3, <4>1, LeaderRefused
    <3>. QED
      BY <1>0, <3>2, <3>3, <3>4, <3>5, <3>6, <3>7, StepCases
  <2>4. fate[t] = {} \/ fate[t] = {"begun"}
    BY <1>1, <1>3
  <2>. QED
    BY <1>0, <2>1, <2>2, <2>3, <2>4 DEF RaceOK
<1>. QED
  BY <1>2, <1>3 DEF RaceOK
-----------------------------------------------------------------------------
\* The initial state satisfies the second invariant.
LEMMA InitRInv == Init => RInv
<1> SUFFICES ASSUME Init PROVE RInv
  OBVIOUS
<1>0. Len(revisions) = 0
  BY DEF Init
<1>1. TablesOK
  <2>1. basis \in [occurrences -> 0 .. Len(revisions)]
    BY <1>0 DEF Init
  <2>. QED
    BY <1>0, <2>1 DEF Init, TablesOK
<1>2. Bounded
  BY <1>0 DEF Bounded
<1>3. ASSUME NEW s \in Tickers PROVE TodoOK(s) /\ ~Ticking(s)
  BY DEF Init, TodoOK, Ticking
<1>4. ASSUME NEW t \in Instants PROVE RaceOK(t)
  BY DEF Init, RaceOK
<1>. QED
  BY <1>1, <1>2, <1>3, <1>4 DEF RInv

\* Both invariants hold in every reachable state.
THEOREM InvariantsHold == Spec => [](IInv /\ RInv)
<1>1. IInv /\ RInv /\ [Next]_vars => RInv'
  <2> SUFFICES ASSUME IInv, RInv, [Next]_vars PROVE RInv'
    OBVIOUS
  <2>1. LocalsOK /\ Bounded
    BY DEF IInv, RInv
  <2>. QED
    BY <2>1, TablesStep, BoundedStep, TodoStep, RaceStep DEF RInv
<1>. QED
  BY <1>1, InitIInv, InitRInv, InvStep, PTL DEF Spec

\* However many tickers race at an instant, one of their ticks returns, unless
\* one was lost or a caller registered that schedule: somebody always leads.
THEOREM SomeRacerReturns == Spec => []OneOfTheRacersReturns
<1>1. IInv /\ RInv => OneOfTheRacersReturns
  BY DEF RInv, RaceOK, Leads, OneOfTheRacersReturns
<1>. QED
  BY <1>1, InvariantsHold, PTL

\* Whatever plan edits come in between, an instant is recorded under the
\* revision in force of those its tick had listed, and on the grid of its slot.
THEOREM RecordedByTheRevisionInForce == Spec => []ScheduledByTheRevisionInForce
<1>1. IInv /\ RInv => ScheduledByTheRevisionInForce
  BY DEF RInv, TablesOK, InForce, ScheduledByTheRevisionInForce
<1>. QED
  BY <1>1, InvariantsHold, PTL


\* The types of what the argument above does not look at.
ProcessOK ==
    /\ process \in [Schedulers -> {"absent", "running", "stopped"}]
    /\ wake \in [Schedulers -> Nat]
    /\ crashes \in 0 .. MaxCrashes

\* Every step keeps them.
LEMMA ProcessStep == LocalsOK /\ ProcessOK /\ [Next]_vars => ProcessOK'
<1> SUFFICES ASSUME LocalsOK, ProcessOK, [Next]_vars PROVE ProcessOK'
  OBVIOUS
<1>0. clock \in Nat /\ clock + Interval \in Nat
  BY SchedulerConstants DEF LocalsOK, Instants
<1>1. crashes' \in 0 .. MaxCrashes
  <2>1. crashes' = crashes \/ (crashes < MaxCrashes /\ crashes' = crashes + 1)
    BY DEF Next, TickStep, AddPlanRevision, RegisterOccurrence, List, FindOccurrence, InsertOccurrence,
       FindWork, InsertWork, CompleteTick, Crash, Start, Poll, Heartbeat, Stop, SchedulerDies,
       OperatorTick, OperatorReturns, BeginTick, Tick, vars
  <2>. QED
    BY <2>1, SchedulerConstants DEF ProcessOK
<1>2. process' \in [Schedulers -> {"absent", "running", "stopped"}]
  <2>1. \/ process' = process
        \/ \E s \in Schedulers, x \in {"running", "stopped"} : process' = [process EXCEPT ![s] = x]
    BY DEF Next, TickStep, AddPlanRevision, RegisterOccurrence, List, FindOccurrence, InsertOccurrence,
       FindWork, InsertWork, CompleteTick, Crash, Start, Poll, Heartbeat, Stop, SchedulerDies,
       OperatorTick, OperatorReturns, BeginTick, Tick, vars
  <2>. QED
    BY <2>1 DEF ProcessOK
<1>3. wake' \in [Schedulers -> Nat]
  <2>1. \/ wake' = wake
        \/ \E s \in Tickers : wake' = [wake EXCEPT ![s] = clock + Interval] \/ wake' = [wake EXCEPT ![s] = 0]
    <3>1. ASSUME NEW s \in Tickers, Crash(s) \/ Begins(s) \/ Starts(s) \/ Ends(s)
          PROVE  wake' = wake \/ wake' = [wake EXCEPT ![s] = clock + Interval] \/ wake' = [wake EXCEPT ![s] = 0]
                 \/ Begins(s)
      BY <3>1 DEF Crash, Starts, Ends, EndTick, GoTo
    <3>2. (\E s \in Schedulers : Poll(s)) \/ (\E s \in Operators : OperatorTick(s)) => wake' = wake
      BY DEF Poll, OperatorTick
    <3>3. \A s \in Tickers : TickStep(s) => wake' = wake
      BY DEF TickStep, List, FindOccurrence, InsertOccurrence, FindWork, InsertWork, CompleteTick, GoTo
    <3>4. \A s \in Schedulers : Start(s) \/ Heartbeat(s) \/ Stop(s) \/ SchedulerDies(s) =>
             s \in Tickers /\ (Starts(s) \/ Ends(s))
      BY DEF Start, Heartbeat, Stop, SchedulerDies, Starts, Ends, Tickers
    <3>5. \A s \in Operators : OperatorReturns(s) => s \in Tickers /\ Ends(s)
      BY DEF OperatorReturns, Ends, Tickers
    <3>6. ASSUME NEW s \in Tickers, Starts(s) \/ Ends(s) \/ Crash(s) PROVE ~Begins(s) \/ wake' = wake
             \/ wake' = [wake EXCEPT ![s] = clock + Interval] \/ wake' = [wake EXCEPT ![s] = 0]
      BY <3>6 DEF Starts, Ends, Crash, EndTick, GoTo
    <3>7. (\E d \in Drafts : AddPlanRevision(d)) \/ (\E o \in Registrations : RegisterOccurrence(o))
          \/ Tick \/ UNCHANGED vars => wake' = wake
      BY DEF AddPlanRevision, RegisterOccurrence, Tick, vars, locals
    <3>. QED
      BY <3>1, <3>2, <3>3, <3>4, <3>5, <3>6, <3>7 DEF Next
  <2>. QED
    BY <1>0, <2>1 DEF ProcessOK
<1>. QED
  BY <1>1, <1>2, <1>3 DEF ProcessOK

\* Type correctness of the scheduler: in every reachable state a work item has
\* its occurrence, and no tick has listed more revisions than there are.
THEOREM TypeCorrect == Spec => []TypeOK
<1>1. Init => ProcessOK
  BY SchedulerConstants DEF Init, ProcessOK
<1>2. IInv /\ RInv /\ ProcessOK => TypeOK
  BY DEF IInv, RInv, LocalsOK, TablesOK, ProcessOK, TypeOK
<1>3. IInv => LocalsOK
  BY DEF IInv
<1>. QED
  BY <1>1, <1>2, <1>3, ProcessStep, InvariantsHold, PTL DEF Spec
=============================================================================
