-------------------------- MODULE MCEventDelivery --------------------------
(* Instances of EventDelivery for TLC. *)
EXTENDS EventDelivery

\* Two streams: the odd events are one stream, the even events the other.
MCStreamOf == [e \in Events |-> e % 2]
=============================================================================
