--------------------------- MODULE MCReviewSession ---------------------------
EXTENDS ReviewSession, TLC

CONSTANTS k1, k2, p1, e1, e2, c1, c2, s1, s2, f1, f2

Request(key, content, eligible) ==
    [key |-> key, pack |-> p1, content |-> content, eligible |-> eligible]

\* Requests of one identity: two contents under one key, one of them stale,
\* and one under another key.
Fresh == Request(k1, e1, TRUE)
Stale == Request(k1, e2, FALSE)
OtherKey == Request(k2, e1, TRUE)
SomeRequests == {Fresh, Stale, OtherKey}

\* Repetition, changed content, changed key; up to the names of the callers.
TwoCallers == { c1 :> Fresh @@ c2 :> Fresh, c1 :> Fresh @@ c2 :> Stale,
                c1 :> Fresh @@ c2 :> OtherKey }
TwoSubmitters == { s1 :> f1 @@ s2 :> f1, s1 :> f1 @@ s2 :> f2 }

StaleCaller == {c1 :> Stale}
OneSubmitter == {s1 :> f1}
=============================================================================
