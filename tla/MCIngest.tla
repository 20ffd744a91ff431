------------------------------ MODULE MCIngest ------------------------------
(***************************************************************************)
(* Instance for what an account receives and what becomes of it.  A        *)
(* behaviour exercises the storage of messages, the limiter of failed      *)
(* sign-ins, or the tags of trips: they share no state, so checking their  *)
(* product would only repeat each of them.                                 *)
(***************************************************************************)
EXTENDS Ingest, IngestLimiter, Trips

CONSTANTS r1, r2, c1, c2, c3, ip1, ip2, own, old, track, ownCred, newCred, oldCred, d1, d2, m1, m2, m3, m4, m5, tid,
          w1, w2, h1, n1, p1

VARIABLE part

Routes == [p \in Phone |-> IF p = track THEN "traccar" ELSE "owntracks"]
FirstCreds == [p \in Phone |-> IF p = old THEN oldCred ELSE ownCred]
Senders == [m \in Msg |-> IF m \in {m1, m4} THEN own ELSE IF m = m5 THEN track ELSE old]
KindsOf == [m \in Msg |-> CASE m = m3 -> "other" [] m = m4 -> "unlisted"
                            [] m = m5 -> "poison" [] OTHER -> "fix"]
Labels == [m \in Msg |-> tid]
Times == [m \in Msg |-> 1]

(* A drive from a place to nowhere and a round trip; a rule that every     *)
(* account is given, one that ties with a rule for the place itself.       *)
Anything == [place |-> Null, kind |-> Null]
OfKind(k) == [place |-> Null, kind |-> k]
At(p) == [place |-> p, kind |-> Null]
TripEnds == w1 :> <<p1, Null>> @@ w2 :> <<p1, p1>>
TripNeighbours == {<<w1, w2>>}
SeededRules == <<[a |-> OfKind("home"), b |-> Anything, category |-> "personal"]>>
RuleTexts == ToSet(SeededRules) \cup
    {[a |-> OfKind("work"), b |-> OfKind("work"), category |-> "business"],
     [a |-> At(p1), b |-> Anything, category |-> "business"]}

(* A manual and an imported row differ in nothing but their source *)
OneByHand == \E r \in Manual \cup Imported : trip'[r].state = "none"

MCInit == Init /\ LimiterInit /\ TripsInit /\ part \in {"storage", "limiter", "tags"}
MCNext ==
    \/ part = "storage" /\ Next /\ UNCHANGED <<limiterVars, tripsVars, part>>
    \/ part = "limiter" /\ LimiterNext /\ UNCHANGED <<vars, tripsVars, part>>
    \/ part = "tags" /\ TripsNext /\ OneByHand /\ UNCHANGED <<vars, limiterVars, part>>

(* Requests are interchangeable *)
Symmetry == Permutations(Req)

MCSpec == MCInit /\ [][MCNext]_<<vars, limiterVars, tripsVars, part>>
=============================================================================
