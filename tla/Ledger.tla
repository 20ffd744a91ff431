-------------------------------- MODULE Ledger --------------------------------
(***************************************************************************)
(* Records that a client creates under an idempotency key, manual trips    *)
(* and expenses (app/trip_writes.py, app/expense_ledger.py, app/api_trips.py,*)
(* app/api_expenses.py), and the account's default vehicle                 *)
(* (app/vehicles.py).                                                      *)
(*                                                                         *)
(* PostgreSQL at READ COMMITTED, one account: a step is a statement.  Each *)
(* sees what was committed when it began; a row that it changes is locked  *)
(* until its transaction ends, and is looked at again after a wait.        *)
(***************************************************************************)
EXTENDS Integers, FiniteSets

CONSTANTS
    Item,       \* rows of trips and expenses that may be created
    Request,    \* requests to create, several of them the client's repeats
    Asks,       \* [Request -> [table, key, body]]
    Vehicle,
    Setter,     \* requests that make a vehicle the default
    Nil,        \* no row
    Attempts    \* 3: tries after a record vanished between two statements

ASSUME LedgerAssumption == Nil \notin Request /\ Attempts \in Nat \ {0}

Trips == "trips"
Expenses == "expenses"

VARIABLES
    item,       \* state "unborn", "pending" (not committed), "stored" or "gone", with the
                \* table, key and body, the request that created it and an expense's trip
    call,       \* requests: pc, the tries, the row it wrote or found, the trip it names
    car,        \* vehicles: "none", "active" or "retired"
    default,    \* those with is_default
    setter      \* pc, the vehicle, the old default

vehicleVars == <<car, default, setter>>
ledgerVars == <<item, call, vehicleVars>>

NoItem == [state |-> "unborn", table |-> Nil, key |-> Nil, body |-> Nil, by |-> Nil, trip |-> Nil]
NewRequest == [pc |-> "new", tries |-> 0, row |-> Nil, trip |-> Nil]
NoSetter == [pc |-> "idle", car |-> Nil, old |-> Nil]

Stored(table) == {i \in Item : item[i].state = "stored" /\ item[i].table = table}

LedgerInit ==
    /\ item = [i \in Item |-> NoItem]
    /\ call = [q \in Request |-> NewRequest]
    /\ car = [v \in Vehicle |-> "none"] /\ default = {}
    /\ setter = [s \in Setter |-> NoSetter]

-----------------------------------------------------------------------------
(* One record per key.                                                     *)

\* What holds the key, committed or not, and so makes an insert wait or conflict.
Holders(q) ==
    {i \in Item : /\ item[i].state \in {"pending", "stored"}
                  /\ item[i].table = Asks[q].table /\ item[i].key = Asks[q].key}

Answer(q, pc, row) == call' = [call EXCEPT ![q] = [NewRequest EXCEPT !.pc = pc, !.row = row]]

\* The body is checked first, and the trip it names exists.
Validate(q, trip) ==
    /\ call[q].pc = "new"
    /\ trip \in {Nil} \cup (IF Asks[q].table = Expenses THEN Stored(Trips) ELSE {})
    /\ call' = [call EXCEPT ![q] = [@ EXCEPT !.pc = "valid", !.trip = trip]]
    /\ UNCHANGED <<item, vehicleVars>>

TripVanished(q) == call[q].trip # Nil /\ item[call[q].trip].state = "gone"

FreshItem == CHOOSE i \in Item : item[i].state = "unborn"

Inserted(q, key) ==
    /\ \E i \in Item : item[i].state = "unborn"
    /\ item' = [item EXCEPT ![FreshItem] =
          [state |-> "pending", table |-> Asks[q].table, key |-> key, body |-> Asks[q].body,
           by |-> q, trip |-> call[q].trip]]
    /\ call' = [call EXCEPT ![q].pc = "inserted", ![q].row = FreshItem]

InsertUnkeyed(q) ==  \* mutant: a check before and an insert without the key
    /\ call[q].pc = "valid" /\ ~TripVanished(q) /\ Holders(q) \cap Stored(Asks[q].table) = {}
    /\ Inserted(q, Asks[q].key)
    /\ UNCHANGED vehicleVars

\* INSERT ... ON CONFLICT DO NOTHING: waits for a holder that has not committed.
Insert(q) ==
    /\ call[q].pc = "valid" /\ ~TripVanished(q) /\ Holders(q) = {}
    /\ Inserted(q, Asks[q].key)
    /\ UNCHANGED vehicleVars

Conflict(q) ==
    /\ call[q].pc = "valid" /\ ~TripVanished(q)
    /\ Holders(q) # {} /\ \A i \in Holders(q) : item[i].state = "stored"
    /\ call' = [call EXCEPT ![q].pc = "conflict", ![q].tries = @ + 1]
    /\ UNCHANGED <<item, vehicleVars>>

\* The foreign key; the savepoint is rolled back and the client told (422).
ForeignKeyViolation(q) ==
    /\ call[q].pc = "valid" /\ TripVanished(q)
    /\ Answer(q, "refused", Nil)
    /\ UNCHANGED <<item, vehicleVars>>

\* The record, IdempotencyKeyReused, another try, or "did not settle".
Replay(q) ==
    /\ call[q].pc = "conflict"
    /\ LET held == Holders(q) \cap Stored(Asks[q].table)
       IN \/ \E i \in held :
              IF item[i].body = Asks[q].body THEN Answer(q, "replayed", i) ELSE Answer(q, "refused", Nil)
          \/ held = {} /\ call[q].tries < Attempts /\ call' = [call EXCEPT ![q].pc = "valid"]
          \/ held = {} /\ call[q].tries = Attempts /\ Answer(q, "refused", Nil)
    /\ UNCHANGED <<item, vehicleVars>>

\* The transaction ends: with the answer, or undone by whatever failed after the insert.
Commit(q) ==
    /\ call[q].pc = "inserted"
    /\ item' = [item EXCEPT ![call[q].row].state = "stored"]
    /\ Answer(q, "created", call[q].row)
    /\ UNCHANGED vehicleVars

RollBack(q) ==
    /\ call[q].pc = "inserted"
    /\ item' = [item EXCEPT ![call[q].row] = NoItem]
    /\ Answer(q, "refused", Nil)
    /\ UNCHANGED vehicleVars

\* A record that an uncommitted expense names waits for it; stored ones let go of it.
DeleteRecord(i) ==
    /\ item[i].state = "stored"
    /\ \A j \in Item : item[j].state = "pending" => item[j].trip # i
    /\ item' = [j \in Item |-> CASE j = i -> [NoItem EXCEPT !.state = "gone", !.table = item[i].table,
                                                            !.key = item[i].key, !.body = item[i].body]
                                 [] j # i /\ item[j].trip = i -> [item[j] EXCEPT !.trip = Nil]
                                 [] OTHER -> item[j]]
    /\ UNCHANGED <<call, vehicleVars>>

\* PATCH of an expense: the trip is checked, the row locked, and written.
LinkExpense(i, trip) ==
    /\ i \in Stored(Expenses) /\ trip \in Stored(Trips) \cup {Nil}
    /\ trip # item[i].trip
    /\ item' = [item EXCEPT ![i].trip = trip]
    /\ UNCHANGED <<call, vehicleVars>>

\* The web forms send no key; an expense of a trip is written under the trip's lock.
AddRecord(table) ==
    /\ \E i \in Item : item[i].state = "unborn"
    /\ item' = [item EXCEPT ![FreshItem] = [NoItem EXCEPT !.state = "stored", !.table = table]]
    /\ UNCHANGED <<call, vehicleVars>>

AddTripExpense(trip) ==
    /\ trip \in Stored(Trips) /\ \E i \in Item : item[i].state = "unborn"
    /\ item' = [item EXCEPT ![FreshItem] =
          [NoItem EXCEPT !.state = "stored", !.table = Expenses, !.trip = trip]]
    /\ UNCHANGED <<call, vehicleVars>>

-----------------------------------------------------------------------------
(* The default vehicle.  A setter locks the vehicle it was asked for,      *)
(* clears the default it sees, and makes the vehicle the default.          *)

Holds(s) ==
    CASE setter[s].pc \in {"locked", "clearing"} -> {setter[s].car}
      [] setter[s].pc = "cleared"                -> {setter[s].car, setter[s].old}
      [] OTHER                                   -> {}
Unlocked(v) == \A s \in Setter : v \notin Holds(s)

Step(s, change) == setter' = [setter EXCEPT ![s] = change] /\ UNCHANGED <<item, call, car, default>>

LookAtVehicle(s, v) ==  \* mutant: without FOR UPDATE
    /\ setter[s].pc = "idle" /\ car[v] = "active"
    /\ Step(s, [pc |-> "unlocked", car |-> v, old |-> Nil])

\* SELECT ... FOR UPDATE of an active vehicle; otherwise 404.
LockVehicle(s, v) ==
    /\ setter[s].pc = "idle" /\ Unlocked(v) /\ car[v] = "active"
    /\ Step(s, [pc |-> "locked", car |-> v, old |-> Nil])

\* create_vehicle with is_default: nobody else sees the row that it will insert.
AddDefaultVehicle(s, v) ==
    /\ setter[s].pc = "idle" /\ Unlocked(v) /\ car[v] = "none"
    /\ Step(s, [pc |-> "locked", car |-> v, old |-> Nil])

\* UPDATE ... WHERE is_default: the default that it sees, if there is one ...
SeeDefault(s) ==
    /\ setter[s].pc \in {"locked", "unlocked"}
    /\ \/ default = {} /\ Step(s, [setter[s] EXCEPT !.pc = "cleared"])
       \/ \E v \in default : Step(s, [setter[s] EXCEPT !.pc = "clearing", !.old = v])

\* ... and after a wait for its row, only if it is the default still.
ClearDefault(s) ==
    /\ setter[s].pc = "clearing"
    /\ \A t \in Setter \ {s} : setter[s].old \notin Holds(t)
    /\ Step(s, [setter[s] EXCEPT !.pc = "cleared",
                                 !.old = IF setter[s].old \in default THEN @ ELSE Nil])

\* vehicles_one_default_idx ends the transaction of a setter that has not seen the
\* latest default.
SetDefaultVehicle(s) ==
    /\ setter[s].pc = "cleared"
    /\ \/ /\ default \subseteq {setter[s].car, setter[s].old}
          /\ default' = {setter[s].car}
          /\ car' = [car EXCEPT ![setter[s].car] = IF @ = "none" THEN "active" ELSE @]
       \/ ~(default \subseteq {setter[s].car, setter[s].old}) /\ UNCHANGED <<car, default>>
    /\ setter' = [setter EXCEPT ![s] = NoSetter]
    /\ UNCHANGED <<item, call>>

AddVehicle(v) ==
    /\ car[v] = "none" /\ Unlocked(v)
    /\ car' = [car EXCEPT ![v] = "active"]
    /\ UNCHANGED <<item, call, setter, default>>

DeactivateVehicle(v) ==
    /\ car[v] = "active" /\ Unlocked(v)
    /\ car' = [car EXCEPT ![v] = "retired"]
    /\ default' = default \ {v}
    /\ UNCHANGED <<item, call, setter>>

-----------------------------------------------------------------------------

RequestNext ==
    \/ \E q \in Request : Insert(q) \/ Conflict(q) \/ ForeignKeyViolation(q) \/ Replay(q)
                             \/ Commit(q) \/ RollBack(q)
    \/ \E q \in Request, trip \in Item \cup {Nil} : Validate(q, trip)
    \/ \E i \in Item : DeleteRecord(i) \/ AddTripExpense(i)
    \/ AddRecord(Trips) \/ AddRecord(Expenses)
    \/ \E i \in Item, trip \in Item \cup {Nil} : LinkExpense(i, trip)

VehicleNext ==
    \/ \E s \in Setter : SeeDefault(s) \/ ClearDefault(s) \/ SetDefaultVehicle(s)
    \/ \E s \in Setter, v \in Vehicle : LockVehicle(s, v) \/ AddDefaultVehicle(s, v)
    \/ \E v \in Vehicle : AddVehicle(v) \/ DeactivateVehicle(v)

LedgerNext == RequestNext \/ VehicleNext

LedgerSpec == LedgerInit /\ [][LedgerNext]_ledgerVars

-----------------------------------------------------------------------------

(***************************************************************************)
(* What create_manual_trip and create_expense promise a client that        *)
(* repeats a request, at the same time or after a lost answer: one record  *)
(* per key until it is deleted; a record in the answer is the one that     *)
(* this very body made; and a refusal leaves nothing behind.               *)
(***************************************************************************)
OneRecordPerKey ==
    \A i, j \in Item :
        (/\ item[i].state = "stored" /\ item[j].state = "stored"
         /\ item[i].table = item[j].table
         /\ item[i].key = item[j].key /\ item[i].key # Nil) => i = j
AnswersNameTheirRecord ==
    \A q \in Request : call[q].pc \in {"created", "replayed"} =>
        LET i == call[q].row
        IN <<item[i].table, item[i].key, item[i].body>> = <<Asks[q].table, Asks[q].key, Asks[q].body>>
RefusedLeaveNothing ==
    \A q \in Request : call[q].pc = "refused" => \A i \in Item : item[i].by # q

KeysAreFaithful == OneRecordPerKey /\ AnswersNameTheirRecord /\ RefusedLeaveNothing

(***************************************************************************)
(* A retired vehicle is nobody's default, so newly detected trips are      *)
(* never assigned to one (deactivate_vehicle), and there is one default at *)
(* most, however setters, additions and retirements interleave.            *)
(***************************************************************************)
DefaultIsActive == Cardinality(default) <= 1 /\ \A v \in default : car[v] = "active"

(***************************************************************************)
(* What requests that overlap or are repeated leave behind: a record for   *)
(* each key and for no refused request, and at most one default vehicle,   *)
(* which is in use.                                                        *)
(***************************************************************************)
RecordsStand == KeysAreFaithful /\ DefaultIsActive
=============================================================================
