---------------------------- MODULE DetectorWindow ----------------------------
(***************************************************************************)
(* One tracking device in the database: its fixes and the stays and trips  *)
(* the detector derives from them, in windows that open at a persisted     *)
(* stay (app/detector/runner.py), reconciled with the rows already there   *)
(* (app/detector/reconcile.py), and edited by hand: tags, merges and       *)
(* splits (app/ui/merge_split.py) and deletions (app/trip_writes.py).      *)
(*                                                                         *)
(* Every action is one transaction under the account's detector lock; how  *)
(* the lock and the checkpoint find the unprocessed fixes is the subject   *)
(* of DetectorCheckpoint.                                                  *)
(***************************************************************************)
EXTENDS TripDetector

CONSTANTS
    Legs,       \* how a track of n fixes may go on: Legs[n], of [dt, dx, trig, poor]
    LateSteps,  \* where a late fix may be, from the fix before it
    MaxFixes, MaxLate, MaxTagged, MaxEdits  \* bounds

ASSUME WindowAssumption ==
    /\ MaxFixes \in Nat \ {0}
    /\ \A n \in 1 .. MaxFixes - 1 :
          Legs[n] \subseteq [dt : Nat \ {0}, dx : Int, trig : BOOLEAN, poor : BOOLEAN]
    /\ LateSteps \subseteq Int

VARIABLES
    fixes,      \* the points of the device, in time order
    dirty,      \* times of the fixes received after the checkpoint
    stays,      \* [from, to]
    trips,      \* [id, from, to, fixes, human]
    tripOf,     \* points.trip_id by time, 0 for NULL
    nextId,
    suppress, force, discard,   \* trip_boundary_overrides
    late, edits                 \* how many of each so far

overrides == <<suppress, force, discard>>
output == <<stays, trips, tripOf, nextId>>
vars == <<fixes, dirty, output, overrides, late, edits>>

Epoch == 0
Times == {fixes[i].t : i \in DOMAIN fixes}

Init ==
    /\ fixes = <<[t |-> 1, x |-> 0, trig |-> FALSE, poor |-> FALSE]>>
    /\ dirty = {1}
    /\ stays = {} /\ trips = {} /\ tripOf = [t \in {1} |-> 0] /\ nextId = 1
    /\ suppress = {} /\ force = {} /\ discard = {}
    /\ late = 0 /\ edits = 0

-----------------------------------------------------------------------------
(* Ingest.                                                                 *)

Store(seq, p) ==
    /\ fixes' = seq
    /\ dirty' = dirty \cup {p.t}
    /\ tripOf' = [t \in Times \cup {p.t} |-> IF t = p.t THEN 0 ELSE tripOf[t]]
    /\ UNCHANGED <<stays, trips, nextId, overrides, edits>>

Deliver(leg) ==
    LET p == [t |-> Last(fixes).t + leg.dt, x |-> Last(fixes).x + leg.dx,
              trig |-> leg.trig, poor |-> leg.poor]
    IN  /\ Len(fixes) < MaxFixes
        /\ Store(Append(fixes, p), p)
        /\ UNCHANGED late

\* A fix delivered late, between fixes i and i + 1.
DeliverLate(i, t, x) ==
    LET p == [t |-> t, x |-> x, trig |-> FALSE, poor |-> FALSE]
    IN  /\ Len(fixes) < MaxFixes /\ late < MaxLate
        /\ fixes[i].t < t /\ t < fixes[i + 1].t
        /\ Store(SubSeq(fixes, 1, i) \o <<p>> \o SubSeq(fixes, i + 1, Len(fixes)), p)
        /\ late' = late + 1

-----------------------------------------------------------------------------
(* plan_reconcile.                                                         *)

Qualifies(e, n) ==
    LET o == Overlap(e.from, e.to, n.from, n.to)
    IN  o > 0 /\ (2 * o >= e.to - e.from \/ 2 * o >= n.to - n.from)

\* Every result of the greedy matching by descending overlap: a pair is left out
\* only for a pair in conflict with it that comes first in the order.  The order of
\* the existing rows, which breaks ties, is the database's choice.
GreedyMatchings(existing, new) ==
    LET pairs == {p \in existing \X new : Qualifies(p[1], p[2])}
        weight(p) == Overlap(p[1].from, p[1].to, p[2].from, p[2].to)
        conflict(p, q) == p # q /\ (p[1] = q[1] \/ p[2] = q[2])
        first(p, q) ==
            \/ weight(p) > weight(q)
            \/ weight(p) = weight(q) /\ (p[1] = q[1] => p[2].from < q[2].from)
    IN  {m \in SUBSET pairs :
            /\ \A p, q \in m : ~conflict(p, q)
            /\ \A q \in pairs \ m : \E p \in m : conflict(p, q) /\ first(p, q)}

\* Unmatched trips of the open segment after the last stay.
Kept(unmatched, d) ==
    {e \in unmatched : \E s \in d.stays \cup d.arrival :
        /\ \A r \in d.stays \cup d.arrival : r.from <= s.from
        /\ e.from >= s.from}

-----------------------------------------------------------------------------
(* _process_device.                                                        *)

\* _rewind_start: the start of the newest stay that ended before the dirty fix.
RewindStart(from) ==
    LET settled == {s \in stays : s.to < from}
    IN  IF settled = {} THEN Epoch
        ELSE (CHOOSE s \in settled : \A r \in settled : r.to <= s.to).from

Window(t0) ==
    The({Subsequence(fixes, K) : K \in {{i \in DOMAIN fixes : fixes[i].t >= t0}}})

PersistedStays(d) == d.stays \cup d.arrival  \* mutant: a provisional stay is written

WrittenStays(d) == d.stays

UnlinkFrom(t0, t) == t >= t0 \* mutant: the opening stay's first fix is unlinked too

Unlinked(t0, t) == t > t0

\* Matches keep their row, id and tag.
Unmatched(d, m) == {n \in d.trips : \A p \in m : p[2] # n}

Written(d, m, n) ==
    LET matched == {p \in m : p[2] = n}
    IN  [id |-> IF matched # {} THEN (CHOOSE p \in matched : TRUE)[1].id
                ELSE nextId + Cardinality({f \in Unmatched(d, m) : f.from < n.from}),
         from |-> n.from, to |-> n.to, fixes |-> n.fixes,
         human |-> \E p \in matched : p[1].human]

\* The window reconciled by the matching m.  A fix shared by two trips is left with
\* one of them, by the order of the writes (laterWins).
ReconciledBy(t0, d, existing, tps, ids, m, laterWins) ==
    LET written == {Written(d, m, n) : n \in d.trips}
        kept == Kept(existing \ {p[1] : p \in m}, d)
        left == (tps \ existing) \cup kept
        holders(t) == {w \in written : t \in w.fixes}
        holder(t) == CHOOSE w \in holders(t) :
                        \A v \in holders(t) : laterWins = (v.from <= w.from) \/ v = w
    IN  [stays |-> {s \in stays : s.from < t0} \cup WrittenStays(d),
         trips |-> left \cup written,
         nextId |-> nextId + Cardinality(Unmatched(d, m)),
         tripOf |-> [t \in Times |->
            IF holders(t) # {} THEN holder(t).id
            ELSE IF ids[t] \notin {e.id : e \in left \cup written} THEN 0
            ELSE IF Unlinked(t0, t) /\ ids[t] \notin {e.id : e \in kept} THEN 0
            ELSE ids[t]]]

ReconciledWith(t0, d, existing, tps, ids) ==
    {ReconciledBy(t0, d, existing, tps, ids, m, laterWins) :
        m \in GreedyMatchings(existing, d.trips), laterWins \in BOOLEAN}

EveryTrip(t0, tps) == tps  \* mutant: trips before the window are reconciled too

Existing(t0, tps) == {e \in tps : e.from >= t0}

Reconciled(t0, sup, frc, dis, tps, ids) ==
    The({The({ReconciledWith(t0, d, existing, tps, ids) : existing \in {Existing(t0, tps)}}) :
            d \in {Detect(points, sup, frc, dis) : points \in {Window(t0)}}})

Process(t0, sup, frc, dis, tps, ids) ==
    \E r \in Reconciled(t0, sup, frc, dis, tps, ids) :
        /\ stays' = r.stays
        /\ trips' = r.trips
        /\ nextId' = r.nextId
        /\ tripOf' = r.tripOf

\* _run: the checkpoint moves to the run's start less a margin, so fixes received
\* shortly before the run are still dirty after it.
Run ==
    /\ dirty # {}
    /\ Process(RewindStart(Min(dirty)), suppress, force, discard, trips, tripOf)
    /\ dirty' \in {{}, dirty}
    /\ UNCHANGED <<fixes, overrides, late, edits>>

-----------------------------------------------------------------------------
(* The user.                                                               *)

Tag(e) ==
    /\ Cardinality({x \in trips : x.human}) < MaxTagged
    /\ ~e.human
    /\ trips' = (trips \ {e}) \cup {[e EXCEPT !.human = TRUE]}
    /\ UNCHANGED <<fixes, dirty, stays, tripOf, nextId, overrides, late, edits>>

\* refuse_in_progress_trips, on a device that was heard of within the day.
InProgress(e) ==
    /\ ~\E s \in stays : s.from = e.to
    /\ ~\E x \in trips : x.from > e.from

Edit == edits < MaxEdits /\ edits' = edits + 1

\* merge_next/merge_prev: the stay between two neighbours is suppressed for good.
\* A reprocess that does not produce the merged trip rolls everything back.
Merge(e, f) ==
    LET range == <<e.to, f.from>>
    IN  /\ Edit
        /\ e.from < f.from /\ ~\E x \in trips : e.from < x.from /\ x.from < f.from
        /\ ~InProgress(e) /\ ~InProgress(f)
        /\ suppress' = suppress \cup {range}
        /\ force' = {t \in force : t < range[1] \/ range[2] < t}
        /\ Process(Epoch, suppress', force', discard, trips, tripOf)
        /\ \E x \in trips' : x.from = e.from /\ x.to = f.to
        /\ UNCHANGED <<fixes, dirty, discard, late>>

\* load_trip_points: by the span of the trip, without the rejected fixes.
TripFixes(e) == {t \in Times : e.from <= t /\ t <= e.to /\ tripOf[t] # 0}

Track(S) == SelectSeq(fixes, LAMBDA p : p.t \in S)
Length(S) == LET s == Track(S) IN Path(s, 1, Len(s))

Split(e, t) ==
    LET own == TripFixes(e)
    IN  /\ Edit
        /\ ~InProgress(e)
        /\ t \in own /\ e.from < t /\ t < e.to
        /\ Length({u \in own : u <= t}) >= MinTripDistance
        /\ Length({u \in own : u >= t}) >= MinTripDistance
        /\ force' = force \cup {t}
        /\ Process(Epoch, suppress, force', discard, trips, tripOf)
        /\ UNCHANGED <<fixes, dirty, suppress, discard, late>>

\* delete_trip: the row goes at once, later runs honour the range.
Delete(e) ==
    /\ Edit
    /\ ~InProgress(e)
    /\ discard' = discard \cup {<<e.from, e.to>>}
    /\ trips' = trips \ {e}
    /\ tripOf' = [t \in Times |-> IF tripOf[t] = e.id THEN 0 ELSE tripOf[t]]
    /\ UNCHANGED <<fixes, dirty, stays, nextId, suppress, force, late>>

Next ==
    \/ \E leg \in Legs[Len(fixes)] : Deliver(leg)
    \/ \E i \in 1 .. Len(fixes) - 1 : \E t \in fixes[i].t + 1 .. fixes[i + 1].t - 1 :
          \E dx \in LateSteps : DeliverLate(i, t, fixes[i].x + dx)
    \/ Run
    \/ \E e \in trips : Tag(e)
    \/ \E e \in trips : Delete(e)
    \/ \E e, f \in trips : Merge(e, f)
    \/ \E e \in trips : \E t \in Times : Split(e, t)

Spec == Init /\ [][Next]_vars

-----------------------------------------------------------------------------
(* Properties.                                                             *)

\* What a full reprocess would do to the rows as they are.
FullReprocess == Reconciled(Epoch, suppress, force, discard, trips, tripOf)

\* Dirty windows lose nothing: once every fix is processed, a full reprocess would
\* find exactly the stays and trips that are there and leave every row as it is,
\* in whatever batches and order the fixes arrived (test_batches_match_a_full_reprocess).
FullReprocessChangesNothing ==
    dirty = {} => \A r \in FullReprocess : r.stays = stays /\ r.trips = trips

\* The time-range query of load_trip_points recovers the fixes of a trip, shared
\* boundary fixes too, although points.trip_id holds one trip only.
TripFixesRecovered ==
    \A e \in trips : TripFixes(e) = e.fixes

\* A leg that _on_foot_ranges forgives or not by what came before it in the window.
Brisk(pts, k) == ~Walked(pts, k) /\ Leg(pts, k) <= WalkLegMaxSpeed * LegTime(pts, k)

NoBriskLeg == \A pts \in {FilterPoints(fixes, force)} : \A k \in 2 .. Len(pts) : ~Brisk(pts, k)

\* Windows agree with one pass over the whole track, whatever was merged and deleted, for
\* a device whose trips were never split, on a track without a brisk leg (with one, a window
\* that opens at a stay may miss that the walk to it has become part of it).
UnsplitWindowsAgree == force = {} /\ dirty = {} /\ NoBriskLeg => FullReprocessChangesNothing

\* Whatever is recorded, run and edited, no stretch of the track is in two trips, and
\* points.trip_id says of each fix which trip has it, but for a split, whose fix is in two.
\* A trip with no stay after it may be one that plan_reconcile kept: a stay of today's
\* track may begin at its first fix, which is then the last one of the trip before.
TripsOwnTheirFixes ==
    /\ \A e, f \in trips : e = f \/ e.to <= f.from \/ f.to <= e.from
    /\ \A e \in trips : (\E s \in stays : e.from < s.from) =>
          \A t \in e.fixes : tripOf[t] = e.id \/ t \in force \cap {e.from, e.to}

\* A trip and the stay it ends at are settled: nothing that is recorded after that stay
\* changes the row, its tag or its points.trip_id, but for the fix the next trip may share.
\* (A late fix in the stay may undo it, and the row of the longer trip beside it is left.)
SettledTripsStay ==
    [][\A e \in trips, s \in stays :
         edits' = edits /\ s.from = e.to /\ (\A t \in dirty : s.to < t)
            => /\ \E f \in trips' : f = e \/ f = [e EXCEPT !.human = TRUE]
               /\ \A t \in Times : t < e.to /\ tripOf[t] = e.id => tripOf'[t] = e.id]_vars

\* A split stays a boundary of every trip that a stay follows, and a merge leaves no
\* stay in its range, in every later run.  A trip with no stay after it may be one
\* that plan_reconcile kept: it has the bounds of an earlier track.
EditsLast ==
    /\ \A t \in force, e \in trips :
          /\ \A r \in suppress : t < r[1] \/ r[2] < t
          /\ \E s \in stays : e.from < s.from
          => ~(e.from < t /\ t < e.to)
    /\ \A r \in suppress, s \in stays : s.to < r[1] \/ r[2] < s.from
=============================================================================
