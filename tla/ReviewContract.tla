--------------------------- MODULE ReviewContract ---------------------------
(***************************************************************************)
(* What an automatic review promises, without runners, ledger rows or      *)
(* retries: reviewers give their opinion one at a time, each at most once  *)
(* and only when the opinions so far call for it; when nothing more is     *)
(* called for, one decision is taken, which is a function of the request   *)
(* and the opinions; then it is returned.  A review may fail while an      *)
(* opinion is missing, and only a missing cross review may be reopened.    *)
(***************************************************************************)
EXTENDS ReviewRoute

VARIABLES request, opinions, phase, decision

vars == <<request, opinions, phase, decision>>

NoDecision == [path |-> "none", final |-> NoPayload, status |-> "none"]

Given(k) == opinions[k] # NoPayload

\* The opinion that is called for next; none when the review can be decided.
Needed ==
    IF ~Given("a") THEN {"a"}
    ELSE IF ~ExpandsToB(request, opinions["a"]) THEN {}
    ELSE IF ~Given("b") THEN {"b"}
    ELSE IF ~InitialRequires(request, opinions) THEN {}
    ELSE IF ~Given("cross_a") THEN {"cross_a"}
    ELSE IF ~Given("cross_b") THEN {"cross_b"}
    ELSE IF ~CrossRequires(opinions) THEN {}
    ELSE IF ~Given("c") THEN {"c"}
    ELSE IF ~Given("judge") THEN {"judge"}
    ELSE {}

\* The decision path is the last kind of opinion that was called for.
Path ==
    IF Given("judge") THEN "c_tie_broken"
    ELSE IF Given("cross_b") THEN "cross_review_resolved"
    ELSE IF Given("b") THEN "ab_agreement"
    ELSE "a_only"

Init ==
    /\ request \in Requests
    /\ opinions = [k \in Keys |-> NoPayload]
    /\ phase = "open"
    /\ decision = NoDecision

Submit(k) ==
    /\ phase = "open"
    /\ k \in Needed
    /\ \E o \in Answers[k] : opinions' = [opinions EXCEPT ![k] = o]
    /\ UNCHANGED <<request, phase, decision>>

Decide ==
    /\ phase = "open"
    /\ decision = NoDecision
    /\ Needed = {}
    /\ LET final == FinalAssessment(Path, opinions) IN
         decision' = [path |-> Path, final |-> final,
                      status |-> ResultStatus(Path, final)]
    /\ UNCHANGED <<request, opinions, phase>>

Return ==
    /\ phase = "open"
    /\ decision # NoDecision
    /\ phase' = "returned"
    /\ UNCHANGED <<request, opinions, decision>>

Fail ==
    /\ phase = "open"
    /\ Needed # {}
    /\ phase' = "failed"
    /\ UNCHANGED <<request, opinions, decision>>

Reopen ==
    /\ phase = "failed"
    /\ Needed \in {{"cross_a"}, {"cross_b"}}
    /\ phase' = "open"
    /\ UNCHANGED <<request, opinions, decision>>

Next ==
    \/ \E k \in Keys : Submit(k)
    \/ Decide
    \/ Return
    \/ Fail
    \/ Reopen

Spec == Init /\ [][Next]_vars
=============================================================================
