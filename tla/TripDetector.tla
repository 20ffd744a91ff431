----------------------------- MODULE TripDetector -----------------------------
(***************************************************************************)
(* The pure trip detector of app/detector/core.py as operators.            *)
(*                                                                         *)
(* Positions lie on a line and times and distances on a grid, so distances *)
(* add and compare exactly; speeds are compared as distance against        *)
(* speed * time.  A fix is a record of its time t, position x, whether its *)
(* trigger is one of arrival_triggers, and whether its accuracy is too     *)
(* poor.  The times of a device's fixes are unique (app/ingest.py), so a   *)
(* fix is named by its time.  A stay is a pair <<first, last>> of indices  *)
(* into the filtered sequence of fixes.                                    *)
(***************************************************************************)
EXTENDS Integers, Sequences, FiniteSets, SequencesExt

CONSTANTS
    MaxSpeed, StayRadius, StayMinDuration, MinTripDistance,
    WalkMaxSpeed, WalkLegMaxSpeed, ArrivalMinDuration

ASSUME ParamsAssumption ==
    /\ {MaxSpeed, StayRadius, MinTripDistance, WalkMaxSpeed, WalkLegMaxSpeed,
        ArrivalMinDuration} \subseteq Nat
    /\ StayMinDuration \in Nat \ {0}

\* The({F(x) : x \in {v}}) is F(v), with v evaluated once: TLC evaluates a LET at
\* each of its uses when it collects coverage.
The(S) == CHOOSE r \in S : TRUE

Dist(p, q) == IF p.x < q.x THEN q.x - p.x ELSE p.x - q.x

\* The length of the track from index a to index b.
Path(pts, a, b) == SumFunction([k \in a + 1 .. b |-> Dist(pts[k - 1], pts[k])])

Within(pts, a, b) == \A k \in a .. b : Dist(pts[a], pts[k]) <= StayRadius

-----------------------------------------------------------------------------
(* filter_points: fixes in time order, each compared with the last one kept. *)

Jumped(last, p) == p.t <= last.t \/ Dist(last, p) > MaxSpeed * (p.t - last.t)

Passes(pts, last, j) == ~pts[j].poor /\ (last = 0 \/ ~Jumped(pts[last], pts[j]))

Keeps(pts, pinned, last, j) == pts[j].t \in pinned \/ Passes(pts, last, j)

\* For each fix the last one kept before it, 0 for none.
LastKept(pts, pinned) ==
    LET last[j \in DOMAIN pts] ==
            IF j = 1 THEN 0
            ELSE The({IF Keeps(pts, pinned, l, j - 1) THEN j - 1 ELSE l : l \in {last[j - 1]}})
    IN  last

\* The fixes of pts whose indices are in K, in their order.
Subsequence(pts, K) ==
    [k \in 1 .. Cardinality(K) |->
        pts[CHOOSE i \in K : Cardinality(K \cap (1 .. i)) = k]]

Filtered(pts, pinned, last) ==
    The({Subsequence(pts, K) : K \in {{j \in DOMAIN pts : Keeps(pts, pinned, last[j], j)}}})

FilterUnpinned(pts, pinned) ==  \* mutant: a split fix is gated like any other
    The({Filtered(pts, {}, last) : last \in {LastKept(pts, {})}})

FilterPoints(pts, pinned) ==
    The({Filtered(pts, pinned, last) : last \in {LastKept(pts, pinned)}})

-----------------------------------------------------------------------------
(* _stationary_ranges: from anchor i, the run of fixes within the radius.   *)

StationaryRanges(pts) ==
    LET n == Len(pts)
        reach(i) == Max({j \in i .. n : Within(pts, i, j)})
        from[i \in 1 .. n + 1] ==
            IF i > n THEN {}
            ELSE The({IF pts[j].t - pts[i].t >= StayMinDuration
                      THEN {<<i, j>>} \cup from[j + 1]
                      ELSE from[i + 1] : j \in {reach(i)}})
    IN  from[1]

-----------------------------------------------------------------------------
(* _on_foot_ranges.                                                        *)

Leg(pts, k) == Dist(pts[k - 1], pts[k])
LegTime(pts, k) == pts[k].t - pts[k - 1].t
Walked(pts, k) == Leg(pts, k) <= WalkMaxSpeed * LegTime(pts, k)

\* The trailing window at j of a span that starts at i.
WindowStart(pts, i, j) ==
    Max({o \in i .. j - 1 : o = i \/ pts[j].t - pts[o].t >= StayMinDuration})

Breaks(pts, i, j) ==
    LET o == WindowStart(pts, i, j)
    IN  \/ LegTime(pts, j) <= 0
        \/ /\ ~Walked(pts, j)
           /\ \/ Leg(pts, j) > WalkLegMaxSpeed * LegTime(pts, j)
              \/ Path(pts, o, j) > WalkMaxSpeed * (pts[j].t - pts[o].t)

\* _last_walking_point: the end moves back over forgiven legs.
LastWalkingPoint(pts, first, last) ==
    Max({e \in first .. last : e = first \/ Walked(pts, e)})

OnFootRanges(pts) ==
    LET n == Len(pts)
        break(i) == Min({j \in i + 1 .. n : Breaks(pts, i, j)} \cup {n + 1})
        from[i \in 1 .. n + 1] ==
            IF i >= n THEN {}
            ELSE The({{<<i, e>> : e \in {x \in {LastWalkingPoint(pts, i, j - 1)} :
                                           pts[x].t - pts[i].t >= StayMinDuration}}
                      \cup from[j] : j \in {break(i)}})
    IN  from[1]

-----------------------------------------------------------------------------
(* find_stays: a stay is a maximal run of linked fixes.                     *)

Successive(stays) ==
    {g \in stays \X stays :
        g[1][1] < g[2][1] /\ \A c \in stays : c[1] <= g[1][1] \/ g[2][1] <= c[1]}

\* Maximal intervals a..b of fixes such that every k in a..b-1 is linked to its successor.
RunsOf(pts, links) ==
    {s \in {k \in DOMAIN pts : k \in links /\ k - 1 \notin links}
          \X {k \in DOMAIN pts : k \notin links /\ k - 1 \in links} :
        s[1] < s[2] /\ \A k \in s[1] .. s[2] - 1 : k \in links}

\* _union_ranges: ranges that share a fix are one.
UnionRanges(pts, ranges) ==
    The({RunsOf(pts, links) : links \in {UNION {r[1] .. r[2] - 1 : r \in ranges}}})

\* _merge_boundary_splits: stays with a short way between them are one.
MergeBoundarySplits(pts, stays) ==
    LET within == UNION {s[1] .. s[2] - 1 : s \in stays}
        between == {g \in Successive(stays) : Path(pts, g[1][2], g[2][1]) <= StayRadius}
        bridged == UNION {g[1][2] .. g[2][1] - 1 : g \in between}
    IN  The({RunsOf(pts, links) : links \in {within \cup bridged}})

FindStays(pts) ==
    The({MergeBoundarySplits(pts, stays) : stays \in
            {UnionRanges(pts, StationaryRanges(pts) \cup OnFootRanges(pts))}})

LastStay(stays) == CHOOSE s \in stays : \A r \in stays : r[1] <= s[1]

-----------------------------------------------------------------------------
(* trailing_arrival_stay: the trailing cluster as a set of at most one stay. *)

ArrivalAnchors(pts, start) ==
    {i \in start .. Len(pts) - 1 : Within(pts, i, Len(pts))}

TrailingArrivalStay(pts, stays) ==
    LET n == Len(pts)
        start == IF stays = {} THEN 1 ELSE LastStay(stays)[2] + 1
        anchors == ArrivalAnchors(pts, start)
        i == Min(anchors)
        span == pts[n].t - pts[i].t
    IN  IF /\ anchors # {}
           /\ ArrivalMinDuration <= span /\ span < StayMinDuration
           /\ \E k \in i .. n : pts[k].trig
           /\ stays # {} => Path(pts, LastStay(stays)[2], i) > StayRadius
        THEN {<<i, n>>} ELSE {}

-----------------------------------------------------------------------------
(* Overrides: merges suppress stays in time ranges, splits force a stay at   *)
(* a fix, deletions discard a trip.                                         *)

Overlap(a, b, c, d) == (IF b < d THEN b ELSE d) - (IF a > c THEN a ELSE c)

ApplyOverrides(pts, stays, suppress, force) ==
    LET kept == {s \in stays :
                    ~\E r \in suppress : r[1] <= pts[s[2]].t /\ pts[s[1]].t <= r[2]}
        forced == {i \in DOMAIN pts :
                    /\ pts[i].t \in force
                    /\ ~\E r \in suppress : r[1] <= pts[i].t /\ pts[i].t <= r[2]
                    /\ ~\E s \in kept : s[1] <= i /\ i <= s[2]}
    IN  kept \cup {<<i, i>> : i \in forced}

\* assemble_trips: the segments between consecutive stays, if long enough.
AssembleTrips(pts, stays) ==
    {[from |-> pts[g[1][2]].t, to |-> pts[g[2][1]].t,
      fixes |-> {pts[k].t : k \in g[1][2] .. g[2][1]}] :
        g \in {h \in Successive(stays) : Path(pts, h[1][2], h[2][1]) >= MinTripDistance}}

Discarded(trip, r) ==
    LET o == Overlap(trip.from, trip.to, r[1], r[2])
    IN  2 * o >= trip.to - trip.from /\ 2 * o >= r[2] - r[1]

Span(pts, s) == [from |-> pts[s[1]].t, to |-> pts[s[2]].t]

\* The stages of detect, each given the results of those before it.
Outcome(pts, stays, arrival, discard) ==
    [stays |-> {Span(pts, s) : s \in stays \ arrival},
     arrival |-> {Span(pts, s) : s \in stays \cap arrival},
     trips |-> {trip \in AssembleTrips(pts, stays) : ~\E r \in discard : Discarded(trip, r)}]

Overridden(pts, real, arrival, suppress, force, discard) ==
    The({Outcome(pts, stays, arrival, discard) :
            stays \in {ApplyOverrides(pts, real \cup arrival, suppress, force)}})

Extended(pts, real, suppress, force, discard) ==
    The({Overridden(pts, real, arrival, suppress, force, discard) :
            arrival \in {TrailingArrivalStay(pts, real)}})

Found(pts, suppress, force, discard) ==
    The({Extended(pts, real, suppress, force, discard) : real \in {FindStays(pts)}})

\* detect, on fixes in time order.
Detect(points, suppress, force, discard) ==
    The({Found(pts, suppress, force, discard) : pts \in {FilterPoints(points, force)}})
=============================================================================
