-------------------------------- MODULE Trips --------------------------------
(***************************************************************************)
(* Who decides the category of a trip: the person, in the trip list, on    *)
(* the review card or through the API, or the tag rules, which the         *)
(* detector and every change of a place or a rule apply again              *)
(* (app/trip_writes.py, app/ui/trips.py, app/ui/review.py, app/ui/manual.py,*)
(* app/ui/merge_split.py, app/api_trips.py, app/ui/places.py,              *)
(* app/autotag.py, app/detector/runner.py, app/portable/importer.py).      *)
(*                                                                         *)
(* One account.  A step is a transaction: whoever changes rules, places or *)
(* detected rows holds the detector lock until it commits, its first       *)
(* UPDATE holds the rows it then reads, and a person's edit holds the row  *)
(* it reads (SELECT ... FOR UPDATE) or is one UPDATE.  A refused request   *)
(* changes nothing and is no step.                                         *)
(***************************************************************************)
EXTENDS Integers, FiniteSets, FiniteSetsExt, SequencesExt

CONSTANTS
    Drive, Manual, Imported,  \* rows of trips: detected, entered by hand, imported
    Place, Kind,
    Ends,                     \* for each drive the places nearest to its ends, Null far from all
    Neighbours,                    \* the pairs of neighbouring drives, the earlier one first
    Rule, Seeded,             \* what a rule may say, [a, b : Side, category]; the seeded rules
    MaxRules,                 \* bound
    Null                      \* SQL's NULL

ASSUME TripsAssumption ==
    /\ Drive \cap Manual = {} /\ Drive \cap Imported = {} /\ Manual \cap Imported = {}
    /\ Ends \in [Drive -> (Place \cup {Null}) \X (Place \cup {Null})]
    /\ Neighbours \subseteq Drive \X Drive /\ \A pair \in Neighbours : pair[1] # pair[2]
    /\ \A r \in ToSet(Seeded) : r.a.place = Null /\ r.b.place = Null

TripRow == Drive \cup Manual \cup Imported
CATEGORIES == {"business", "personal", "unclassified"}
REVIEWED == {"business", "personal"}

VARIABLES
    trip,       \* trips: state "none", "open" (its drive may still grow) or "here"
    chosen,     \* history: the category a person, or a bundle, left on the row
    kind,       \* places: the kind of each, Null when there is no such place
    near,       \* the places whose circle holds the ends they are nearest to
    rules,      \* tag_rules, in the order of their ids
    discarded,  \* drives with a 'discard' override
    into        \* for a drive joined to its neighbour by a 'suppress' override, that neighbour

tripsVars == <<trip, chosen, kind, near, rules, discarded, into>>

Gone == [state |-> "none", category |-> "unclassified", tag |-> Null]
Here == {r \in TripRow : trip[r].state # "none"}

TripsInit ==
    /\ trip = [r \in TripRow |-> Gone] /\ chosen = [r \in TripRow |-> Null]
    /\ kind = [p \in Place |-> Null] /\ near = {}
    /\ rules = Seeded
    /\ discarded = {} /\ into = [d \in Drive |-> Null]

-----------------------------------------------------------------------------
(* app/autotag.py.  A side is a place, a kind, or anything at all.         *)

Specificity(p, knd, side) ==
    CASE side.place # Null -> IF p = side.place THEN 2 ELSE -1
      [] side.place = Null /\ side.kind # Null -> IF p # Null /\ knd[p] = side.kind THEN 1 ELSE -1
      [] OTHER             -> 0

\* Either way round; -1 when neither matches.
RuleSpecificity(rule, start, end, knd) ==
    LET both == {<<Specificity(w[1], knd, rule.a), Specificity(w[2], knd, rule.b)>> :
                    w \in {<<start, end>>, <<end, start>>}}
    IN Max({s[1] + s[2] : s \in {t \in both : t[1] >= 0 /\ t[2] >= 0}} \cup {-1})

\* The position of the best match, the oldest among equals; 0 for none.
MatchRule(rs, start, end, knd) ==
    LET Score(i) == RuleSpecificity(rs[i], start, end, knd)
        best == {i \in DOMAIN rs : Score(i) >= 0 /\ \A j \in DOMAIN rs : Score(j) <= Score(i)}
    IN IF best = {} THEN 0 ELSE Min(best)

Resolved(p, nr) == IF p \in nr THEN p ELSE Null

\* Where the trip of row d begins and ends when drives are joined as jn says.
EndsOf(d, jn) ==
    LET other == {e \in Drive : jn[e] = d}
        whole == {pair \in Neighbours : \E e \in other : {d, e} = {pair[1], pair[2]}}
    IN IF whole = {} THEN Ends[d]
       ELSE LET pair == CHOOSE q \in whole : TRUE IN <<Ends[pair[1]][1], Ends[pair[2]][2]>>

RuleFor(d, rs, knd, nr, jn) ==
    LET ends == EndsOf(d, jn)
    IN MatchRule(rs, Resolved(ends[1], nr), Resolved(ends[2], nr), knd)

\* Without a match a tag that a rule had set goes, and nothing else does.
PlanAutotags(row, rs, i) ==
    CASE row.tag # "human" /\ i # 0 -> [row EXCEPT !.category = rs[i].category, !.tag = "rule"]
      [] row.tag = "rule" /\ i = 0  -> [row EXCEPT !.category = "unclassified", !.tag = Null]
      [] OTHER                      -> row

\* Manual and imported rows are never resolved.
Autotagged(t, touched, rs, knd, nr, jn) ==
    [r \in TripRow |-> IF r \in touched \cap Drive /\ t[r].state # "none"
                   THEN PlanAutotags(t[r], rs, RuleFor(r, rs, knd, nr, jn)) ELSE t[r]]

ReprocessNoRevert(rs, knd, nr) ==  \* mutant: a tag whose rule is gone stays
    /\ rules' = rs /\ kind' = knd /\ near' = nr
    /\ trip' = Autotagged(trip, {d \in Drive : RuleFor(d, rs, knd, nr, into) # 0}, rs, knd, nr, into)

\* What a change of places or rules commits together with itself.
ReprocessPlaces(rs, knd, nr) ==
    /\ rules' = rs /\ kind' = knd /\ near' = nr
    /\ trip' = Autotagged(trip, Drive, rs, knd, nr, into)

-----------------------------------------------------------------------------
(* A run of the detector: rows go, grow, settle and appear; it tags again  *)
(* the rows of the window that it looks at, on a full run all of them.     *)

Detected(t, lost, found, settled) ==
    [r \in TripRow |->
        CASE r \in lost                     -> Gone
          [] r \in found \ lost             -> [Gone EXCEPT !.state = IF r \in settled THEN "here" ELSE "open"]
          [] r \in settled \ (found \cup lost) -> [t[r] EXCEPT !.state = "here"]
          [] OTHER                          -> t[r]]

\* One device: at most the last drive is still growing.
RunDetector(lost, found, settled, window, jn) ==
    LET t == Detected(trip, lost, found, settled)
    IN /\ Cardinality({d \in Drive : t[d].state = "open"}) <= 1
       /\ trip' = Autotagged(t, window, rules, kind, near, jn)
       /\ chosen' = [r \in TripRow |-> IF r \in lost THEN Null ELSE chosen[r]]
       /\ into' = jn
       /\ UNCHANGED <<kind, near, rules>>

Findable == {d \in Drive \ (Here \cup discarded) : into[d] = Null}

RunOnce ==
    \E lost \in SUBSET (Drive \cap Here), found \in SUBSET Findable, settled \in SUBSET Drive :
        /\ settled \subseteq found \cup {d \in Here \ lost : trip[d].state = "open"}
        /\ \E window \in {found \cup settled, Drive} : RunDetector(lost, found, settled, window, into)
        /\ UNCHANGED discarded

\* delete_boundary_override: the drive is found again if its fixes are there.
DeleteBoundaryOverride ==
    \E d \in discarded, found \in SUBSET Drive, settled \in SUBSET Drive :
        /\ discarded' = discarded \ {d}
        /\ found \subseteq {d} /\ settled \subseteq found
        /\ RunDetector({}, found, settled, Drive, into)

\* A 'suppress' override goes, or a 'force' override cuts where it joins: the neighbour
\* has a row of its own again.
Part(d) ==
    /\ into[d] # Null
    /\ RunDetector({}, {d}, {d}, Drive, [into EXCEPT ![d] = Null])
    /\ UNCHANGED discarded

SplitTrip(d) == into[d] \in Here /\ trip[into[d]].state = "here" /\ Part(d)

UnjoinTrips(d) == Part(d)

-----------------------------------------------------------------------------
(* What a person does to a trip.                                           *)

\* The rows chosen are a person's from here on.
Own(choice) ==
    /\ trip' = [r \in TripRow |-> IF r \in DOMAIN choice
                  THEN [trip[r] EXCEPT !.category = choice[r], !.tag = "human"] ELSE trip[r]]
    /\ chosen' = [r \in TripRow |-> IF r \in DOMAIN choice THEN choice[r] ELSE chosen[r]]
    /\ UNCHANGED <<kind, near, rules, discarded, into>>

ClearToRules(r, category) ==  \* mutant: a cleared tag belongs to nobody
    /\ r \in Here
    /\ trip' = [trip EXCEPT ![r].category = category,
                            ![r].tag = IF category = "unclassified" THEN Null ELSE "human"]
    /\ chosen' = [chosen EXCEPT ![r] = category]
    /\ UNCHANGED <<kind, near, rules, discarded, into>>

\* Also for a clear back to "unclassified".
ApplyHumanTag(r, category) ==
    r \in Here /\ Own([x \in {r} |-> category])

TagTrip(r, category) == ApplyHumanTag(r, category)

PurposeTrip(r) == ApplyHumanTag(r, trip[r].category)

\* One UPDATE; a selected row that is gone rolls all of it back.
BatchUpdateTrips(rows, category) ==
    rows # {} /\ rows \subseteq Here /\ Own([x \in rows |-> category])

BatchUpdatePurpose(rows) ==
    rows # {} /\ rows \subseteq Here /\ Own([x \in rows |-> trip[x].category])

\* A save of another category or purpose; one that changes neither leaves the
\* row to whoever has it and, like a change of notes or vehicle, is no step here.
UpdateLockedTrip(r, category) == r \in Here /\ Own([x \in {r} |-> category])

SaveTripCard(r, category) == UpdateLockedTrip(r, category)

PatchTrip(r, category) == UpdateLockedTrip(r, category)

\* force_human: also when a stale card names the category that is stored.
ReviewTagTrip(r, category) == category \in REVIEWED /\ UpdateLockedTrip(r, category)

ReviewUndoTag(r) == ApplyHumanTag(r, "unclassified")

\* No tag_source: the rules pass over the row for its source alone.
InsertManualTrip(r, category) ==
    /\ trip[r].state = "none"
    /\ trip' = [trip EXCEPT ![r] = [state |-> "here", category |-> category, tag |-> Null]]
    /\ chosen' = [chosen EXCEPT ![r] = category]
    /\ UNCHANGED <<kind, near, rules, discarded, into>>

RefuseInProgress(rows) == \A r \in rows : trip[r].state # "open"

\* Under the detector lock; a detected row leaves a discard override behind.
DeleteTrips(rows) ==
    /\ rows # {} /\ rows \subseteq Here /\ RefuseInProgress(rows)
    /\ trip' = [r \in TripRow |-> IF r \in rows THEN Gone ELSE trip[r]]
    /\ chosen' = [r \in TripRow |-> IF r \in rows THEN Null ELSE chosen[r]]
    /\ discarded' = discarded \cup (rows \cap Drive)
    /\ UNCHANGED <<kind, near, rules, into>>

DeleteTrip(r) == DeleteTrips({r})

BatchDeleteTrips(rows) == Cardinality(rows) > 1 /\ DeleteTrips(rows)

\* Two neighbours become the row of the longer one.  "keep" is durable: what a rule had
\* said of that row is the person's when the new ends would say something else.
MergeTrips(pair, longer, category) ==
    LET other == (IF longer = pair[1] THEN pair[2] ELSE pair[1])
        jn == [into EXCEPT ![other] = longer]
        t == Autotagged(Detected(trip, {other}, {}, {}), Drive, rules, kind, near, jn)
        before == trip[longer]
        after == <<t[longer].category, t[longer].tag>>
        kept == IF before.tag = "rule" /\ after # <<before.category, "rule">> THEN before.category ELSE Null
        decided == IF category = "keep" THEN kept ELSE category
    IN /\ longer \in ToSet(pair) /\ ToSet(pair) \subseteq Here /\ RefuseInProgress(ToSet(pair))
       /\ \A d \in Drive : into[d] \notin ToSet(pair)
       /\ trip' = (IF decided = Null THEN t
                   ELSE [t EXCEPT ![longer].category = decided, ![longer].tag = "human"])
       /\ chosen' = [chosen EXCEPT ![other] = Null,
                                   ![longer] = IF decided = Null THEN @ ELSE decided]
       /\ into' = jn
       /\ UNCHANGED <<kind, near, rules, discarded>>

-----------------------------------------------------------------------------
(* Places and rules.                                                       *)

CreatePlace(p, k, holds) ==
    /\ kind[p] = Null
    /\ ReprocessPlaces(rules, [kind EXCEPT ![p] = k], IF holds THEN near \cup {p} ELSE near)
    /\ UNCHANGED <<chosen, discarded, into>>

UpdatePlace(p, k, holds) ==
    /\ kind[p] # Null
    /\ ReprocessPlaces(rules, [kind EXCEPT ![p] = k],
                       IF holds THEN near \cup {p} ELSE near \ {p})
    /\ UNCHANGED <<chosen, discarded, into>>

\* ON DELETE CASCADE takes the rules that name it.
DeletePlace(p) ==
    /\ kind[p] # Null
    /\ ReprocessPlaces(SelectSeq(rules, LAMBDA r : p \notin {r.a.place, r.b.place}),
                       [kind EXCEPT ![p] = Null], near \ {p})
    /\ UNCHANGED <<chosen, discarded, into>>

Valid(rule) == \A p \in {rule.a.place, rule.b.place} \ {Null} : kind[p] # Null

CreateRule(rule) ==
    /\ Valid(rule) /\ Len(rules) < MaxRules
    /\ ReprocessPlaces(Append(rules, rule), kind, near)
    /\ UNCHANGED <<chosen, discarded, into>>

DeleteRule(i) ==
    /\ i \in DOMAIN rules
    /\ ReprocessPlaces(RemoveAt(rules, i), kind, near)
    /\ UNCHANGED <<chosen, discarded, into>>

\* Into an account as it was created; the seeded rules make way.
ApplyImport ==
    /\ Here = {} /\ discarded = {} /\ \A d \in Drive : into[d] = Null
    /\ rules = Seeded /\ \A p \in Place : kind[p] = Null
    /\ \E rows \in SUBSET Imported, k \in [Place -> Kind \cup {Null}], rule \in Rule,
          row \in [Imported -> [state : {"here"}, category : CATEGORIES, tag : {"human", "rule"}]] :
        /\ \A p \in {rule.a.place, rule.b.place} \ {Null} : k[p] # Null
        /\ trip' = [r \in TripRow |-> IF r \in rows THEN row[r] ELSE Gone]
        /\ chosen' = [r \in TripRow |-> IF r \in rows THEN row[r].category ELSE Null]
        /\ kind' = k /\ near' = {p \in Place : k[p] # Null}
        /\ rules' = <<rule>>
    /\ UNCHANGED <<discarded, into>>

-----------------------------------------------------------------------------

PersonNext ==
    \/ \E pair \in Neighbours, c \in CATEGORIES \cup {"keep"} :
        \E longer \in ToSet(pair) : MergeTrips(pair, longer, c)
    \/ \E d \in Drive : SplitTrip(d) \/ UnjoinTrips(d)
    \/ \E r \in Manual, c \in CATEGORIES : InsertManualTrip(r, c)
    \/ \E r \in Here, c \in CATEGORIES :
        TagTrip(r, c) \/ ReviewTagTrip(r, c) \/ SaveTripCard(r, c) \/ PatchTrip(r, c)
    \/ \E r \in Here : PurposeTrip(r) \/ ReviewUndoTag(r) \/ DeleteTrip(r)
    \/ \E rows \in SUBSET Here :
        \/ BatchUpdatePurpose(rows) \/ BatchDeleteTrips(rows)
        \/ \E c \in CATEGORIES : BatchUpdateTrips(rows, c)

ConfigNext ==
    \/ \E p \in Place, k \in Kind, holds \in BOOLEAN : CreatePlace(p, k, holds) \/ UpdatePlace(p, k, holds)
    \/ \E p \in Place : DeletePlace(p)
    \/ \E rule \in Rule : CreateRule(rule)
    \/ \E i \in 1 .. MaxRules : DeleteRule(i)
    \/ ApplyImport

TripsNext == PersonNext \/ ConfigNext \/ RunOnce \/ DeleteBoundaryOverride

TripsSpec == TripsInit /\ [][TripsNext]_tripsVars

-----------------------------------------------------------------------------

(***************************************************************************)
(* Human-tag supremacy (apply_human_tag, plan_autotags): what a person     *)
(* last decided, a clear or a kept category of a merge included, and what  *)
(* a bundle brought, stands through every later run of the detector, merge *)
(* or split, and change of places and rules.                               *)
(***************************************************************************)
ChoicesStand == \A r \in Here : chosen[r] # Null => trip[r].category = chosen[r]

(***************************************************************************)
(* Every other trip shows what today's rules say of today's places, though *)
(* runs of the detector tag only the rows they write.                      *)
(***************************************************************************)
RulesApplied ==
    \A d \in Drive \cap Here : trip[d].tag # "human" =>
        LET i == RuleFor(d, rules, kind, near, into)
        IN trip[d].category = IF i = 0 THEN "unclassified" ELSE rules[i].category

\* A category is what a person decided or, where nobody did, what the rules say.
CategoriesAgree == ChoicesStand /\ RulesApplied
=============================================================================
