-------------------------- MODULE MCPhase8Safety --------------------------
(* Instances of Phase8Safety for TLC: a canary of one eligible case and one
   control, then a second gate of one case; the routes have two stages and one. *)
EXTENDS Phase8Safety, TLC

CONSTANTS g1, g2, c1, c2, k1

MCGates == <<g1, g2>>
MCEligible == (g1 :> {c1}) @@ (g2 :> {c2})
MCControls == (g1 :> {k1}) @@ (g2 :> {})
MCRouteOf == (c1 :> <<"A", "B">>) @@ (c2 :> <<"A">>)

Amount(a, t, c) == [m \in Meters |-> CASE m = "attempts" -> a
                                       [] m = "tokens" -> t
                                       [] m = "cost" -> c]

MCReserved == [s \in {"A", "B"} |-> Amount(1, 1, 2)]
\* Within the reservation, and above it.
MCUsages == [s \in {"A", "B"} |-> {Amount(1, 1, 1), Amount(1, 1, 3)}]
MCBatchCap == (g1 :> Amount(2, 3, 4)) @@ (g2 :> Amount(1, 1, 2))
MCPhaseCap == Amount(3, 3, 4)
MCRouteCost == (c1 :> 4) @@ (c2 :> 2)

ProcessSymmetry == Permutations(Processes)
=============================================================================
