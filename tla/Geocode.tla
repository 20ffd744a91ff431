------------------------------- MODULE Geocode -------------------------------
(***************************************************************************)
(* The addresses of trip ends (app/geocode.py and the functions of         *)
(* migrations/041_geocode_progress.sql and 042_storage_ceiling.sql).       *)
(* Triggers queue the coordinate of an end that has no place, or mark the  *)
(* account for discovery, which pages through its trips; each turn of a    *)
(* worker scans a page or completes one coordinate, asking the provider    *)
(* without a transaction in between.                                       *)
(*                                                                         *)
(* A trip has one end here.  The generations of a trip and its device, and *)
(* the columns of a queue row, are only compared with what they were when  *)
(* a turn read them: the turn keeps whether they still are.  So are those  *)
(* of the discovery, whose order is all that counts.  Rows wait in the     *)
(* order their time comes.  Every transaction takes the account's usage    *)
(* row first, and is a step.                                               *)
(***************************************************************************)
EXTENDS Integers, Sequences, FiniteSets, SequencesExt

CONSTANTS
    Server,
    Trips,          \* 1 .. n, in the order of their ids
    Manual,         \* those of them without a device
    Coord,          \* rounded coordinates
    Page,           \* trips scanned by a turn
    MaxChanges,       \* bound: changes of trips, the device and the allowance
    MaxCrashes      \* bound

ASSUME GeocodeAssumption ==
    /\ IsFiniteSet(Trips) /\ Trips = 1 .. Cardinality(Trips) /\ Manual \subseteq Trips
    /\ Page \in Nat \ {0} /\ MaxChanges \in Nat /\ MaxCrashes \in Nat
    /\ {"unborn", "placed", "deleted"} \cap Coord = {}

VARIABLES
    trip,           \* a trip's end: a coordinate, "placed", "unborn", "deleted"
    on,             \* the device is enabled
    cache,          \* coordinates whose address, or lack of one, is stored
    due, later,     \* geocode_retry: a sequence, and those whose time is to come
    big,            \* those of them that need more room than the smallest row
    disc,           \* geocode_discovery: cursor, generation > scanned_generation,
                    \* generation > round_generation, last_unit
    room,           \* 0: no row fits, 1: a small one does, 2: an address as well
    turn,           \* of each server
    changes, crashes

geoVars == <<trip, on, cache, due, later, big, disc, room, turn, changes, crashes>>

NoTurn == [pc |-> "idle", coord |-> CHOOSE c \in Coord : TRUE, source |-> 0,
           sourceHolds |-> FALSE, rowHolds |-> FALSE, cached |-> FALSE, big |-> FALSE]

\* An account with a discovery in state d and no trips yet.
GeocodeFrom(d) ==
    /\ trip = [t \in Trips |-> "unborn"]
    /\ on = TRUE /\ cache = {} /\ due = <<>> /\ later = {} /\ big = {}
    /\ disc = d
    /\ room = 2 /\ turn = [r \in Server |-> NoTurn]
    /\ changes = 0 /\ crashes = 0

NewDiscovery == [cursor |-> 0, pending |-> TRUE, changed |-> FALSE, unit |-> "coordinate"]

GeocodeInit == GeocodeFrom(NewDiscovery)

Rows == Range(due) \cup later

Exists(t) == trip[t] \notin {"unborn", "deleted"}

\* Ends the representative source of a coordinate is chosen from, by id.
Sources(c) == {t \in Trips : trip[t] = c /\ (t \in Manual \/ on)}

HasSource(c) == Sources(c) # {}

Unanswered(c) == HasSource(c) /\ c \notin cache

Rests(r) == turn[r].pc = "idle"

EndOf(r) == turn' = [turn EXCEPT ![r] = NoTurn]

\* Other turns that read the row of c, or the source t, will find it changed.
Rewritten(c, ts) ==
    [r \in Server |-> [ts[r] EXCEPT !.rowHolds = @ /\ ts[r].coord # c]]

Disowned(S, ts) ==
    [r \in Server |-> [ts[r] EXCEPT !.sourceHolds = @ /\ ts[r].source \notin S]]

-----------------------------------------------------------------------------
(* geocode_endpoint_intents and the generations, in the writer's           *)
(* transaction.                                                            *)

ChangedIfRoom ==  \* mutant: an end that was left out for want of room is forgotten
    disc' = IF room > 0 THEN [disc EXCEPT !.pending = TRUE, !.changed = TRUE] ELSE disc

Changed == disc' = [disc EXCEPT !.pending = TRUE, !.changed = TRUE]

QueueEnd(c) ==
    due' = IF c \in Coord /\ c \notin cache \cup Rows /\ room > 0 THEN Append(due, c) ELSE due

Meanwhile ==
    /\ changes < MaxChanges /\ changes' = changes + 1
    /\ UNCHANGED <<cache, later, big, crashes>>

\* The detector, a manual entry or an import adds a trip, with the next id.
InsertTrip(t) ==
    /\ Meanwhile /\ trip[t] = "unborn" /\ \A s \in 1 .. t - 1 : trip[s] # "unborn"
    /\ \E c \in Coord \cup {"placed"} :
        /\ trip' = [trip EXCEPT ![t] = c]
        /\ QueueEnd(IF t \in Manual \/ on THEN c ELSE "placed")
    /\ Changed
    /\ UNCHANGED <<on, room, turn>>

\* A run moves its end, or a place comes, goes, or is moved over it.
UpdateTrip(t) ==
    /\ Meanwhile /\ Exists(t)
    /\ \E c \in (Coord \cup {"placed"}) \ {trip[t]} :
        /\ trip' = [trip EXCEPT ![t] = c]
        /\ QueueEnd(IF t \in Manual \/ on THEN c ELSE "placed")
    /\ Changed /\ turn' = Disowned({t}, turn)
    /\ UNCHANGED <<on, room>>

DeleteTrip(t) ==
    /\ Meanwhile /\ Exists(t)
    /\ trip' = [trip EXCEPT ![t] = "deleted"]
    /\ Changed /\ turn' = Disowned({t}, turn)
    /\ UNCHANGED <<on, room, due>>

SwitchDevice ==
    /\ Meanwhile /\ on' = ~on
    /\ Changed /\ turn' = Disowned(Trips \ Manual, turn)
    /\ UNCHANGED <<trip, room, due>>

ChangeRoom ==
    /\ Meanwhile /\ \E n \in 0 .. 2 : n # room /\ room' = n
    /\ UNCHANGED <<trip, on, due, disc, turn>>

-----------------------------------------------------------------------------
(* GeocodeWorker.run_turn                                                  *)

Undiscovered == disc.pending \/ disc.cursor > 0

\* A page is next unless the last unit was one and a coordinate is due.
Discovers == Undiscovered /\ (disc.unit # "discovery" \/ due = <<>>)

\* Without room for a row the turn waits for the recheck.
BeginDiscovery(r) ==
    /\ Rests(r) /\ Discovers /\ room > 0
    /\ turn' = [turn EXCEPT ![r].pc = "discovering"]
    /\ UNCHANGED <<trip, on, cache, due, later, big, disc, room, changes, crashes>>

\* geocode_discover_page, whose round takes the generation it starts from.
DiscoverPage(r) ==
    /\ turn[r].pc = "discovering"
    /\ LET left == {t \in Trips : Exists(t) /\ t > disc.cursor}
           page == {t \in left : Cardinality({s \in left : s <= t}) <= Page}
           new  == {c \in Coord \ (cache \cup Rows) : Sources(c) \cap page # {}}
           changed == disc.changed /\ disc.cursor > 0
           last == Cardinality(page) < Page
       IN IF new # {} /\ room = 0
          THEN disc' = [disc EXCEPT !.unit = "discovery"] /\ UNCHANGED due
          ELSE /\ due' = due \o SetToSeq(new)
               /\ disc' = [cursor |-> IF last THEN 0 ELSE CHOOSE t \in page : \A s \in page : s <= t,
                           pending |-> IF last THEN changed ELSE disc.pending,
                           changed |-> changed, unit |-> "discovery"]
    /\ EndOf(r)
    /\ UNCHANGED <<trip, on, cache, later, big, room, changes, crashes>>

Fits(isBig) == room >= IF isBig THEN 2 ELSE 1

\* The first reading transaction of _geocode_one, and enhancement_available.
Take(r) ==
    /\ Rests(r) /\ ~Discovers /\ due # <<>>
    /\ LET c == Head(due)
           asks == Unanswered(c)
       IN turn' = [turn EXCEPT ![r] =
            [pc |-> IF ~asks THEN "settling" ELSE IF Fits(c \in big) THEN "asking" ELSE "pausing",
             coord |-> c, rowHolds |-> TRUE, cached |-> c \in cache, big |-> c \in big,
             source |-> IF asks THEN CHOOSE t \in Sources(c) : \A s \in Sources(c) : t <= s ELSE 0,
             sourceHolds |-> asks]]
    /\ UNCHANGED <<trip, on, cache, due, later, big, disc, room, changes, crashes>>

RecordUnit == disc' = IF room > 0 THEN [disc EXCEPT !.unit = "coordinate"] ELSE disc

DeleteRow(r) ==
    LET c == turn[r].coord
    IN /\ due' = RemoveFirst(due, c) /\ later' = later \ {c} /\ big' = big \ {c}
       /\ turn' = [Rewritten(c, turn) EXCEPT ![r] = NoTurn]

RetryAtOnce(r, isBig) ==  \* mutant: the row is due again without a delay, before the others
    LET c == turn[r].coord
    IN /\ due' = <<c>> \o RemoveFirst(due, c) /\ UNCHANGED later
       /\ big' = IF isBig THEN big \cup {c} ELSE big \ {c}
       /\ turn' = [Rewritten(c, turn) EXCEPT ![r] = NoTurn]

\* _retry and _pause_capacity_retry: a later time.
Retry(r, isBig) ==
    LET c == turn[r].coord
    IN /\ due' = RemoveFirst(due, c) /\ later' = later \cup {c}
       /\ big' = IF isBig THEN big \cup {c} ELSE big \ {c}
       /\ turn' = [Rewritten(c, turn) EXCEPT ![r] = NoTurn]

KeepRow(r) == EndOf(r) /\ UNCHANGED <<due, later, big>>

\* Nothing was asked: the address is there, or nobody needs it any more.
Settle(r) ==
    /\ turn[r].pc = "settling" /\ RecordUnit
    /\ LET c == turn[r].coord
       IN IF turn[r].rowHolds /\ (turn[r].cached \/ ~HasSource(c)) THEN DeleteRow(r) ELSE KeepRow(r)
    /\ UNCHANGED <<trip, on, cache, room, changes, crashes>>

AnySource(r) == TRUE  \* mutant: whoever the address was asked for

ValidSource(r) == turn[r].sourceHolds

\* The row is put off; without room for its reason the transaction is undone.
PutOff(r, isBig) ==
    \/ Retry(r, FALSE) /\ RecordUnit
    \/ /\ room = 0
       /\ turn' = [turn EXCEPT ![r].pc = "pausing", ![r].big = isBig]
       /\ UNCHANGED <<disc, due, later, big>>

\* The last transaction of _geocode_one, up to the outcome of the call.
Overtaken(r, isBig) ==
    \/ ~turn[r].rowHolds /\ KeepRow(r) /\ RecordUnit
    \/ /\ turn[r].rowHolds /\ ~ValidSource(r)
       /\ IF HasSource(turn[r].coord) THEN PutOff(r, isBig) ELSE DeleteRow(r) /\ RecordUnit

Failed(r) ==
    /\ turn[r].pc = "asking"
    /\ \/ Overtaken(r, FALSE)
       \/ turn[r].rowHolds /\ ValidSource(r) /\ PutOff(r, FALSE)
    /\ UNCHANGED <<trip, on, cache, room, changes, crashes>>

\* The provider gave an address or, which is stored as well, none.
StoreAddress(r) ==
    /\ turn[r].pc = "asking"
    /\ \E found \in BOOLEAN :
        \/ Overtaken(r, found) /\ UNCHANGED cache
        \/ /\ turn[r].rowHolds /\ ValidSource(r)
           /\ IF Fits(found)
              THEN cache' = cache \cup {turn[r].coord} /\ DeleteRow(r) /\ RecordUnit
              ELSE /\ turn' = [turn EXCEPT ![r].pc = "pausing", ![r].big = found]
                   /\ UNCHANGED <<cache, disc, due, later, big>>
    /\ UNCHANGED <<trip, on, room, changes, crashes>>

\* _pause_capacity_retry.
PauseRow(r) ==
    /\ turn[r].pc = "pausing"
    /\ IF turn[r].rowHolds THEN Retry(r, turn[r].big) ELSE KeepRow(r)
    /\ UNCHANGED <<trip, on, cache, disc, room, changes, crashes>>

\* next_attempt_at comes.
TimeComes(c) ==
    /\ c \in later
    /\ later' = later \ {c} /\ due' = Append(due, c)
    /\ UNCHANGED <<trip, on, cache, big, disc, room, turn, changes, crashes>>

ServerDies(r) ==
    /\ ~Rests(r) /\ crashes < MaxCrashes /\ crashes' = crashes + 1
    /\ EndOf(r)
    /\ UNCHANGED <<trip, on, cache, due, later, big, disc, room, changes>>

-----------------------------------------------------------------------------

RunTurn(r) ==
    \/ BeginDiscovery(r) \/ DiscoverPage(r)
    \/ Take(r) \/ Settle(r) \/ Failed(r) \/ StoreAddress(r) \/ PauseRow(r)

GeocodeNext ==
    \/ \E t \in Trips : InsertTrip(t) \/ UpdateTrip(t) \/ DeleteTrip(t)
    \/ SwitchDevice \/ ChangeRoom
    \/ \E r \in Server : RunTurn(r) \/ ServerDies(r)
    \/ \E c \in Coord : TimeComes(c)

\* The account gets its turns (BackgroundTurns), the provider answers or times out,
\* and time passes.
GeocodeFairness ==
    /\ \A r \in Server : WF_geoVars(RunTurn(r))
    /\ \A c \in Coord : WF_geoVars(TimeComes(c))

GeocodeSpec == GeocodeInit /\ [][GeocodeNext]_geoVars /\ GeocodeFairness

-----------------------------------------------------------------------------

(***************************************************************************)
(* No end is forgotten: while somebody needs its address it is queued, or  *)
(* a discovery is pending that has yet to come by it, whatever the storage *)
(* limit turned away, and whoever deletes a row or ends a round meanwhile. *)
(***************************************************************************)
EndsAccountedFor ==
    \A c \in Coord : \A t \in Sources(c) :
        c \notin cache \cup Rows =>
            disc.pending /\ (disc.cursor = 0 \/ t > disc.cursor \/ disc.changed)

\* A row waits once.
RowsDiffer ==
    /\ \A i, j \in DOMAIN due : i # j => due[i] # due[j]
    /\ \A i \in DOMAIN due : due[i] \notin later

(***************************************************************************)
(* The address of a coordinate is stored only while an end that may be     *)
(* looked up is there: not when the trip has moved, or its device has been *)
(* switched off, while the provider was asked (_valid_source).             *)
(***************************************************************************)
StoredForLiveEnds == [][\A c \in cache' \ cache : HasSource(c)]_geoVars

AddressesFollowTrips == [](EndsAccountedFor /\ RowsDiffer) /\ StoredForLiveEnds

(***************************************************************************)
(* With room for an address, every end that needs one is asked about,      *)
(* though other coordinates keep failing, discovery keeps starting over,   *)
(* and another server works on the same queue.                            *)
(***************************************************************************)
AskedAbout(c) == \E r \in Server : turn[r].pc = "asking" /\ turn[r].coord = c

EndsAreAskedAbout == \A c \in Coord : Unanswered(c) ~> (~Unanswered(c) \/ AskedAbout(c) \/ room < 2)
=============================================================================
