------------------------------ MODULE Portable ------------------------------
(***************************************************************************)
(* A portable file: everything an account owns, read out of one account    *)
(* and imported into a fresh one.  Here is the account that exports, with  *)
(* what its owner does to it meanwhile; there is the account that imports, *)
(* with its other writers.  A value is the class that some check of the    *)
(* code can tell apart, an end of a trip stands for both, and a missing    *)
(* reference is Null.                                                      *)
(***************************************************************************)
EXTENDS Naturals, FiniteSets, Sequences, SequencesExt

CONSTANTS
    MaxRevisions,   \* revisions of the exporting account: a bound of the model
    MaxImports, \* attempts to import: a bound of the model
    Here        \* what the exporting account holds at first

Null == 0
(* Unstorable text has a NUL or a lone surrogate, or is too long for the index over its column. *)
(* A vehicle's name stands for its make, model and plate too, the note of a trip for its        *)
(* device, purpose and notes.                                                                   *)
Text == {"none", "blank", "padded", "plain", "long", "unstorable"}
Number == {"nan", "negative", "zero", "tiny", "normal", "other", "huge", "infinite"}
Positive == Number \ {"nan", "negative", "zero", "infinite"}

Tables == <<"vehicles", "places", "rules", "rates", "trips", "expenses", "readings", "settings">>

(* The rows migrations and bootstrap give to every account, which has no fixes and no progress *)
SeededVehicle == [name |-> "seeded", default |-> TRUE, active |-> TRUE]
SeededRules == <<[a |-> Null, akind |-> "home", b |-> Null, bkind |-> "work"],
                 [a |-> Null, akind |-> "work", b |-> Null, bkind |-> "work"]>>
ReferenceRates == <<[flat |-> "normal", half |-> "none", month |-> "none"]>>

Fresh == [vehicles |-> <<SeededVehicle>>, places |-> <<>>, rules |-> SeededRules,
          rates |-> ReferenceRates, trips |-> <<>>, expenses |-> <<>>, readings |-> <<>>,
          settings |-> <<[auto |-> FALSE, tz |-> "utc"]>>, fixes |-> {}, progressed |-> FALSE]

VARIABLES
    here,     \* the tables of the exporting account, each from row number to row
    revisions,    \* its revisions so far
    export,   \* the export being read: its snapshot, whether the account row changed since, the tables read
    files,    \* the files handed out, each with the account it was read from
    there,    \* the tables of the importing account, with its fixes and progress
    phase,    \* how far each transaction of the importing account has come
    holder,   \* who holds that account's detector lock
    upload,   \* the file being imported and whether it is a dry run
    imports,  \* attempts so far
    stored    \* the writers whose change was stored
portableVars == <<here, revisions, export, files, there, phase, holder, upload, imports, stored>>
targetVars == <<there, phase, holder, upload, imports, stored>>

Put(f, i, row) == [j \in DOMAIN f \cup {i} |-> IF j = i THEN row ELSE f[j]]
Drop(f, S) == [i \in DOMAIN f \ S |-> f[i]]
Rows(f) == {f[i] : i \in DOMAIN f}

(***************************************************************************)
(* What the tables themselves refuse                                       *)
(***************************************************************************)

(* A real keeps a smaller range than the float that is read from a file,   *)
(* the column of a year than an integer of the file, a time a smaller UTC  *)
(* offset, and text is any text but the unstorable.                        *)
Far == 99
RealColumn(x) == x \notin {"tiny", "huge"}
YearColumn(y) == y # Far
TimeColumn(at) == at # Far
SpanColumn(span) == span # "far"
TextColumn(x) == x # "unstorable"
ColumnsHold(b) ==
    /\ \A r \in Rows(b.vehicles) : TextColumn(r.name)
    /\ \A r \in Rows(b.places) : RealColumn(r.radius) /\ TextColumn(r.name)
    /\ \A y \in DOMAIN b.rates : YearColumn(y)
    /\ \A r \in Rows(b.trips) :
        RealColumn(r.distance) /\ SpanColumn(r.span) /\ TextColumn(r.label) /\ TextColumn(r.note)
    /\ \A r \in Rows(b.expenses) : TextColumn(r.note)
    /\ \A r \in Rows(b.readings) : TimeColumn(r.at) /\ TextColumn(r.note)

NullOrRow(f, i) == i = Null \/ i \in DOMAIN f

Storable(b) ==
    /\ ColumnsHold(b)
    /\ Cardinality({i \in DOMAIN b.vehicles : b.vehicles[i].default}) <= 1
    /\ \A i \in DOMAIN b.places :
        /\ b.places[i].radius \in Positive
        /\ \A j \in DOMAIN b.places \ {i} : b.places[i].name # b.places[j].name
    /\ \A r \in Rows(b.rules) :
        /\ NullOrRow(b.places, r.a) /\ NullOrRow(b.places, r.b)
        /\ r.a # Null => r.akind = "none"
        /\ r.b # Null => r.bkind = "none"
        /\ <<r.a, r.akind, r.b, r.bkind>> # <<Null, "none", Null, "none">>
    /\ \A r \in Rows(b.rates) :
        /\ r.flat \in Positive /\ r.half \in Positive \cup {"none"}
        /\ (r.half = "none") = (r.month = "none") /\ r.month # "outside"
    /\ \A t \in Rows(b.trips) :
        /\ NullOrRow(b.vehicles, t.vehicle) /\ NullOrRow(b.places, t.place)
        /\ t.label # "none" => t.source = "manual" /\ t.place = Null /\ ~t.route
        /\ t.label \notin {"blank", "padded", "long"}
    /\ \A x \in Rows(b.expenses) :
        /\ x.vehicle \in DOMAIN b.vehicles /\ NullOrRow(b.trips, x.trip) /\ x.amount \in {"cents"}
    /\ \A i \in DOMAIN b.readings :
        /\ b.readings[i].vehicle \in DOMAIN b.vehicles
        /\ b.readings[i].value \notin {"negative", "nan"}
        /\ \A j \in DOMAIN b.readings \ {i} :
            <<b.readings[i].vehicle, b.readings[i].at>> # <<b.readings[j].vehicle, b.readings[j].at>>

(* The rows that the forms and the API let in: names are trimmed, numbers  *)
(* finite, kinds and times of the tables' choice.  An account keeps a      *)
(* vehicle and its settings, which have one row.                           *)
Distances == Number \ {"nan", "negative", "infinite"}
RowOf ==
    LET kind == {"none", "home", "work"} IN
    [vehicles |-> [name : {"seeded", "plain", "unstorable"}, default : BOOLEAN, active : BOOLEAN],
     places |-> [name : {"Home", "Office"}, radius : Positive, at : {"inside"}],
     rules |-> [a : Nat, akind : kind, b : Nat, bkind : kind],
     rates |-> [flat : Positive, half : Positive \cup {"none"}, month : {"none", "inside"}],
     trips |-> [source : {"manual", "detected"}, span : {"none", "forward"}, distance : Distances,
                snapped : {"none", "other"}, exclusion : {"none", "not_my_vehicle"}, vehicle : Nat, place : Nat,
                label : Text, note : Text, route : BOOLEAN, imported : BOOLEAN],
     expenses |-> [vehicle : Nat, trip : Nat, amount : {"cents"}, note : Text],
     readings |-> [vehicle : Nat, at : Nat, value : Number, note : Text],
     settings |-> [auto : BOOLEAN, tz : {"utc", "far"}]]
AccountBook(b) ==
    /\ DOMAIN b = DOMAIN Fresh /\ DOMAIN b.vehicles # {} /\ DOMAIN b.settings = {1}
    /\ \A name \in DOMAIN RowOf :
        /\ IsFiniteSet(DOMAIN b[name]) /\ DOMAIN b[name] \subseteq Nat \ {Null}
        /\ Rows(b[name]) \subseteq RowOf[name]

ASSUME PortableAssumption == AccountBook(Here) /\ Storable(Here)

(***************************************************************************)
(* The revisions of the exporting account                                  *)
(***************************************************************************)

(* strip() of a form's text: nothing, or a name without blanks around it *)
Trimmed(x) == CASE x = "blank" -> "none" [] x = "padded" -> "plain" [] OTHER -> x
Amount(x) == x = "cents"

New == 10 + revisions
Revise(b) ==
    /\ revisions < MaxRevisions /\ Storable(b)
    /\ here' = b /\ revisions' = revisions + 1
    /\ UNCHANGED <<export, files, targetVars>>

NoDefault == [i \in DOMAIN here.vehicles |-> [here.vehicles[i] EXCEPT !.default = FALSE]]
AddVehicle == \E name \in {"blank", "padded", "unstorable"}, default \in BOOLEAN :
    /\ Trimmed(name) # "none"
    /\ Revise([here EXCEPT !.vehicles = Put(IF default THEN NoDefault ELSE @, New,
            [name |-> Trimmed(name), default |-> default, active |-> TRUE])])
RenameVehicle == \E v \in DOMAIN here.vehicles, name \in {"blank", "plain"} :
    /\ Trimmed(name) # "none"
    /\ Revise([here EXCEPT !.vehicles[v].name = Trimmed(name)])
RetireVehicle == \E v \in DOMAIN here.vehicles :
    Revise([here EXCEPT !.vehicles[v].active = FALSE, !.vehicles[v].default = FALSE])
AutoAssign == Revise([here EXCEPT !.settings[1].auto = ~@])
UpdateTimezone == \E tz \in {"far", "bogus"} : tz # "bogus" /\ Revise([here EXCEPT !.settings[1].tz = tz])

AddPlace == \E name \in {"blank", "Home", "Office"}, radius \in {"zero", "nan", "huge", "normal"},
               at \in {"inside", "outside"} :
    /\ Trimmed(name) # "none" /\ radius \in Positive /\ at = "inside"
    /\ Revise([here EXCEPT !.places = Put(@, New, [name |-> name, radius |-> radius, at |-> at])])
Naming(p) == {i \in DOMAIN here.rules : p \in {here.rules[i].a, here.rules[i].b}}
WithoutPlace(p) == [t \in DOMAIN here.trips |-> [here.trips[t] EXCEPT !.place = IF @ = p THEN Null ELSE @]]
RemovePlace == \E p \in DOMAIN here.places :
    Revise([here EXCEPT !.places = Drop(@, {p}), !.rules = Drop(@, Naming(p)), !.trips = WithoutPlace(p)])
AddRule == \E p \in DOMAIN here.places \cup {Null}, kind \in {"none", "home"} :
    /\ p = Null \/ kind = "none"
    /\ p # Null \/ kind # "none"
    /\ Revise([here EXCEPT !.rules = Put(@, New, [a |-> p, akind |-> kind, b |-> Null, bkind |-> "none"])])
RemoveRule == \E r \in DOMAIN here.rules : Revise([here EXCEPT !.rules = Drop(@, {r})])

UpsertRate == \E year \in {1, 2}, flat \in {"zero", "tiny", "other"}, half \in {"none", "zero", "normal"},
                 month \in {"inside", "outside"} :
    /\ flat \in Positive
    /\ half # "none" => half \in Positive /\ month = "inside"
    /\ Revise([here EXCEPT !.rates = Put(@, year, [flat |-> flat, half |-> half,
            month |-> IF half = "none" THEN "none" ELSE month])])

(* An end before the start is the next day's on the web, refused by the    *)
(* API; a routed trip keeps its geometry and its places, a place whose     *)
(* route failed the place alone, and only a plain one has names.           *)
TripSpan(span, api) == IF span = "forward" \/ api THEN span ELSE "forward"
TripDistance(x) == x \in {"normal", "other"}
AddManualTrip == \E span \in {"none", "forward"}, api \in BOOLEAN, x \in {"tiny", "huge", "normal"},
                    label \in {"padded", "long"}, place \in DOMAIN here.places \cup {Null}, route \in BOOLEAN,
                    v \in DOMAIN here.vehicles \cup {Null} :
    /\ TripSpan(span, api) = "forward" /\ TripDistance(x) /\ label # "long"
    /\ api => place = Null /\ ~route
    /\ Revise([here EXCEPT !.trips = Put(@, New,
            [source |-> "manual", span |-> "forward", distance |-> x, snapped |-> "none", exclusion |-> "none",
             vehicle |-> v, place |-> place, label |-> IF place = Null /\ ~route THEN Trimmed(label) ELSE "none",
             note |-> "none", route |-> route, imported |-> FALSE])])
DetectTrip == \E place \in DOMAIN here.places \cup {Null} :
    Revise([here EXCEPT !.trips = Put(@, New,
        [source |-> "detected", span |-> "forward", distance |-> "normal", snapped |-> "none", exclusion |-> "none",
         vehicle |-> Null, place |-> place, label |-> "none", note |-> "none", route |-> TRUE,
         imported |-> FALSE])])
SnapTrip == \E t \in DOMAIN here.trips :
    /\ here.trips[t].source = "detected" /\ ~here.trips[t].imported
    /\ Revise([here EXCEPT !.trips[t].snapped = "other"])
LabelTrip == \E t \in DOMAIN here.trips, label \in {"blank", "plain", "long"} :
    /\ label # "long"
    /\ Trimmed(label) # "none" =>
        here.trips[t].source = "manual" /\ here.trips[t].place = Null /\ ~here.trips[t].route
    /\ Revise([here EXCEPT !.trips[t].label = Trimmed(label)])
NoteTrip == \E t \in DOMAIN here.trips, note \in {"blank", "padded", "unstorable"} :
    Revise([here EXCEPT !.trips[t].note = Trimmed(note)])
AssignTrip == \E t \in DOMAIN here.trips, v \in DOMAIN here.vehicles \cup {Null} :
    Revise([here EXCEPT !.trips[t].vehicle = v])
ExcludeTrip == \E t \in DOMAIN here.trips, x \in {"not_my_vehicle", "bogus"} :
    x # "bogus" /\ Revise([here EXCEPT !.trips[t].exclusion = x])
WithoutTrip(t) == [x \in DOMAIN here.expenses |-> [here.expenses[x] EXCEPT !.trip = IF @ = t THEN Null ELSE @]]
RemoveTrip == \E t \in DOMAIN here.trips :
    Revise([here EXCEPT !.trips = Drop(@, {t}), !.expenses = WithoutTrip(t)])

AddExpense == \E v \in DOMAIN here.vehicles, t \in DOMAIN here.trips \cup {Null}, x \in {"cents", "fraction"},
                 note \in {"padded", "unstorable"} :
    /\ Amount(x)
    /\ Revise([here EXCEPT !.expenses = Put(@, New,
            [vehicle |-> v, trip |-> t, amount |-> x, note |-> Trimmed(note)])])
RemoveExpense == \E x \in DOMAIN here.expenses : Revise([here EXCEPT !.expenses = Drop(@, {x})])

(* Miles become meters: what was finite may no longer be *)
Meters(x) == IF x = "huge" THEN "infinite" ELSE x
AddReading == \E v \in DOMAIN here.vehicles, at \in {1, 2}, x \in {"zero", "nan", "normal", "huge"} :
    /\ x \in Positive
    /\ Revise([here EXCEPT !.readings = Put(@, New, [vehicle |-> v, at |-> at, value |-> Meters(x), note |-> "none"])])
RemoveReading == \E r \in DOMAIN here.readings : Revise([here EXCEPT !.readings = Drop(@, {r})])

OwnerNext ==
    \/ AddVehicle \/ RenameVehicle \/ RetireVehicle \/ AutoAssign \/ UpdateTimezone
    \/ AddPlace \/ RemovePlace \/ AddRule \/ RemoveRule \/ UpsertRate
    \/ AddManualTrip \/ DetectTrip \/ SnapTrip \/ LabelTrip \/ NoteTrip \/ AssignTrip \/ ExcludeTrip \/ RemoveTrip
    \/ AddExpense \/ RemoveExpense \/ AddReading \/ RemoveReading

(***************************************************************************)
(* The export: one table at a time, all as of its first statement          *)
(***************************************************************************)

(* The rows of a table in the order of their numbers *)
Rank(f, i) == Cardinality({j \in DOMAIN f : j <= i})
Sorted(f) == [k \in 1..Cardinality(DOMAIN f) |-> CHOOSE i \in DOMAIN f : Rank(f, i) = k]
(* The distance a report counts travels, the geometry behind it does not *)
Counted(t) == IF t.snapped = "none" THEN t.distance ELSE t.snapped

Written(name, i, r) ==
    CASE name = "trips" ->
            [id |-> i, source |-> r.source, span |-> r.span, distance |-> Counted(r), exclusion |-> r.exclusion,
             vehicle |-> r.vehicle, place |-> r.place, label |-> r.label, note |-> r.note]
      [] name \in {"vehicles", "places", "rates"} -> Put(r, "id", i)
      [] OTHER -> r
Shape(name, f) == [k \in DOMAIN Sorted(f) |-> Written(name, Sorted(f)[k], f[Sorted(f)[k]])]

NoExport == [step |-> 0, attempt |-> 0, stale |-> FALSE, seen |-> <<>>, book |-> <<>>]
Begin(attempt) == [step |-> 1, attempt |-> attempt, stale |-> FALSE, seen |-> here, book |-> <<>>]
BeginExport ==
    /\ export = NoExport /\ files = {}
    /\ export' = Begin(1)
    /\ UNCHANGED <<here, revisions, files, targetVars>>

(* The account's own row changes: another session, an administrator *)
TouchAccount ==
    /\ export.step = 1 /\ ~export.stale
    /\ export' = [export EXCEPT !.stale = TRUE]
    /\ UNCHANGED <<here, revisions, files, targetVars>>

(* Locking an account row that changed after the snapshot fails; the       *)
(* export is tried once more, from a new snapshot, unless the change was   *)
(* one that ends its session.                                              *)
AdmitExport ==
    /\ export.step = 1
    /\ \/ ~export.stale /\ export' = [export EXCEPT !.step = 2, !.attempt = 1]
       \/ export.stale /\ export.attempt = 1 /\ export' = Begin(2)
       \/ export.stale /\ export' = NoExport
    /\ UNCHANGED <<here, revisions, files, targetVars>>

(* All statements see what the first one saw; a bug would be to read each  *)
(* table as it is by then.                                                 *)
AsOfNow == here
Snapshot == export.seen
ReadTable ==
    /\ export.step \in 2..(Len(Tables) + 1)
    /\ LET name == Tables[export.step - 1] IN
        export' = [export EXCEPT !.step = @ + 1, !.book = Put(@, name, Shape(name, Snapshot[name]))]
    /\ UNCHANGED <<here, revisions, files, targetVars>>

(* A number JSON has no word for refuses the whole file *)
Infinite(book) == \E r \in Rows(book.readings) : r.value = "infinite"
FinishExport ==
    /\ export.step = Len(Tables) + 2
    /\ files' = IF Infinite(export.book) THEN files
                ELSE files \cup {[of |-> export.seen,
                    bundle |-> Put(Put(export.book, "format", 3), "schema", "current")]}
    /\ export' = NoExport
    /\ UNCHANGED <<here, revisions, targetVars>>

ExportNext == BeginExport \/ TouchAccount \/ AdmitExport \/ ReadTable \/ FinishExport

(***************************************************************************)
(* Files edited by hand: a field changed, a row repeated, a table emptied  *)
(***************************************************************************)

(* Of the vehicle, the place and the trip of the account, and of nothing *)
Ids == {Null, 1, 4, 5, 99}
Kinds == {"none", "home", "bogus"}
Notes == {"blank", "long", "unstorable"}
FieldValues ==
    [vehicles |-> [id |-> {1, 3}, name |-> Text, default |-> {TRUE}],
     places |-> [name |-> {"blank", "Home", "unstorable"}, radius |-> Number, at |-> {"outside"}],
     rules |-> [a |-> Ids, akind |-> Kinds, b |-> Ids, bkind |-> Kinds],
     rates |-> [id |-> {Far}, flat |-> Number, half |-> Number, month |-> {"none", "inside", "outside"}],
     trips |-> [source |-> {"manual", "detected", "bogus"}, span |-> {"none", "backward", "far"}, distance |-> Number,
                exclusion |-> {"none", "bogus"}, vehicle |-> Ids, place |-> Ids, label |-> Text, note |-> Notes],
     expenses |-> [vehicle |-> Ids, trip |-> Ids, amount |-> {"fraction", "negative", "text"}, note |-> Notes],
     readings |-> [vehicle |-> Ids, at |-> {Far}, value |-> Number, note |-> Notes],
     settings |-> [tz |-> {"bogus", "far"}]]

OlderTrip(r) == [r EXCEPT !.exclusion = "none", !.label = "none"]
OlderExpense(r) == [r EXCEPT !.trip = Null]
Older(b) == [b EXCEPT !.format = 1, !.schema = "older",
    !.trips = [k \in DOMAIN b.trips |-> OlderTrip(b.trips[k])],
    !.expenses = [k \in DOMAIN b.expenses |-> OlderExpense(b.expenses[k])]]
Changed(b, name, k) ==
    UNION {{[b EXCEPT ![name][k][x] = v] : v \in FieldValues[name][x]} : x \in DOMAIN FieldValues[name]}
Repeated(b, name, k) == [b EXCEPT ![name] = Append(@, @[k])]
RowEdits(b, name, k) == {Repeated(b, name, k)} \cup Changed(b, name, k)
Edited(b, name) == {[b EXCEPT ![name] = <<>>]} \cup (UNION {RowEdits(b, name, k) : k \in DOMAIN b[name]})
ByHand(b) ==
    {[b EXCEPT !.format = v] : v \in 1..4} \cup {[b EXCEPT !.schema = "later"], Older(b)}
    \cup UNION {Edited(b, name) : name \in DOMAIN FieldValues}

(***************************************************************************)
(* What a file is refused for before the database is asked                 *)
(***************************************************************************)

Finite(x) == x \in Number \ {"nan", "infinite"}
AboveZero(x) == x \in Positive
NotNegative(x) == Finite(x) /\ x # "negative"
IdsOf(s) == {s[k].id : k \in DOMAIN s}
Distinct(s) == \A j, k \in DOMAIN s : j # k => s[j].id # s[k].id
Refers(i, s) == i \in IdsOf(s)
MayRefer(i, s) == i = Null \/ Refers(i, s)

VehiclesPass(b) ==
    /\ b.vehicles # <<>> /\ Distinct(b.vehicles)
    /\ \A r \in Rows(b.vehicles) : r.name \notin {"none", "blank"}
    /\ Cardinality({k \in DOMAIN b.vehicles : b.vehicles[k].default}) <= 1
PlacesPass(b) ==
    /\ Distinct(b.places)
    /\ \A k \in DOMAIN b.places : LET r == b.places[k] IN
        /\ r.name # "blank" /\ r.at = "inside" /\ AboveZero(r.radius)
        /\ \A j \in DOMAIN b.places \ {k} : b.places[j].name # r.name
RulesPass(b) == \A r \in Rows(b.rules) :
    /\ MayRefer(r.a, b.places) /\ MayRefer(r.b, b.places)
    /\ r.a # Null => r.akind = "none"
    /\ r.b # Null => r.bkind = "none"
    /\ {r.akind, r.bkind} \subseteq {"none", "home", "work"}
    /\ <<r.a, r.akind, r.b, r.bkind>> # <<Null, "none", Null, "none">>
RatesPass(b) ==
    /\ Distinct(b.rates)
    /\ \A r \in Rows(b.rates) :
        /\ AboveZero(r.flat) /\ (r.half = "none") = (r.month = "none")
        /\ r.half # "none" => AboveZero(r.half) /\ r.month = "inside"
LabelTextPasses(r) == r.label # "none" =>
    r.label \notin {"blank", "padded", "long"} /\ r.source = "manual"
LabelPasses(r) == r.label # "none" =>
    r.label \notin {"blank", "padded", "long"} /\ r.source = "manual" /\ r.place = Null
TripsPass(b) ==
    /\ Distinct(b.trips)
    /\ \A r \in Rows(b.trips) :
        /\ r.source \in {"detected", "manual"} /\ r.span \in {"none", "forward", "far"} /\ NotNegative(r.distance)
        /\ r.exclusion \in {"none", "not_my_vehicle"}
        /\ MayRefer(r.vehicle, b.vehicles) /\ MayRefer(r.place, b.places) /\ LabelPasses(r)
ExpensesPass(b) == \A r \in Rows(b.expenses) :
    Refers(r.vehicle, b.vehicles) /\ Amount(r.amount) /\ MayRefer(r.trip, b.trips)
ReadingsPass(b) == \A k \in DOMAIN b.readings : LET r == b.readings[k] IN
    /\ Refers(r.vehicle, b.vehicles) /\ NotNegative(r.value)
    /\ \A j \in DOMAIN b.readings \ {k} : <<b.readings[j].vehicle, b.readings[j].at>> # <<r.vehicle, r.at>>
SettingsPass(b) ==
    /\ b.settings # <<>>
    /\ b.format = 3 => b.settings[1].tz # "bogus"
Normalizes(b) ==
    /\ b.format \in 1..3
    /\ VehiclesPass(b) /\ PlacesPass(b) /\ RulesPass(b) /\ RatesPass(b)
    /\ TripsPass(b) /\ ExpensesPass(b) /\ ReadingsPass(b) /\ SettingsPass(b)

(***************************************************************************)
(* The import, among the other writers of its account                      *)
(***************************************************************************)

Writer == {"fix", "trip", "place", "rate", "vehicle", "pass"}
Admitted == {a \in DOMAIN phase : phase[a] \notin {"idle", "done"}}
Alone == phase["import"] \in {"alone", "clean"}
Transitions == {<<3, "current">>, <<3, "older">>, <<2, "older">>, <<1, "older">>}
Compatible(b) == <<b.format, b.schema>> \in Transitions

(* The shared lock on the account's row, refused to all while one is alone *)
Admit(w) ==
    /\ w \in Writer /\ phase[w] = "idle" /\ ~Alone
    /\ phase' = [phase EXCEPT ![w] = "admitted"]
    /\ UNCHANGED <<here, revisions, export, files, there, holder, upload, imports, stored>>
NeedsDetector(a) == a \in {"import", "place", "pass"}
LockDetector(a) ==
    /\ NeedsDetector(a) /\ phase[a] = "admitted" /\ holder = "nobody"
    /\ phase' = [phase EXCEPT ![a] = "locked"] /\ holder' = a
    /\ UNCHANGED <<here, revisions, export, files, there, upload, imports, stored>>

(* What one change of each writer leaves, in a row of its own number *)
Mine == 50
Change(w, b) == CASE w = "fix" -> [b EXCEPT !.fixes = @ \cup {Mine}]
    [] w = "trip" -> [b EXCEPT !.trips = Put(@, Mine,
            [source |-> "manual", span |-> "forward", distance |-> "normal", snapped |-> "none",
             exclusion |-> "none", vehicle |-> Null, place |-> Null, label |-> "none", note |-> "none",
             route |-> FALSE, imported |-> FALSE])]
    [] w = "place" -> [b EXCEPT !.places = Put(@, Mine, [name |-> "mine", radius |-> "normal", at |-> "inside"])]
    [] w = "rate" -> [b EXCEPT !.rates = Put(@, 1, [flat |-> "other", half |-> "none", month |-> "none"])]
    [] w = "vehicle" -> IF 1 \in DOMAIN b.vehicles THEN [b EXCEPT !.vehicles[1].name = "mine"] ELSE b
    [] w = "pass" -> [b EXCEPT !.progressed = TRUE]
Landed(w, b) == CASE w = "fix" -> Mine \in b.fixes
    [] w = "trip" -> Mine \in DOMAIN b.trips
    [] w = "place" -> Mine \in DOMAIN b.places
    [] w = "rate" -> b.rates[1].flat = "other"
    [] w = "vehicle" -> 1 \in DOMAIN b.vehicles /\ b.vehicles[1].name = "mine"
    [] w = "pass" -> b.progressed

Free(a) == IF holder = a THEN "nobody" ELSE holder
Commit(w) ==
    /\ w \in Writer /\ phase[w] = IF NeedsDetector(w) THEN "locked" ELSE "admitted"
    /\ there' = Change(w, there)
    /\ stored' = IF there' = there THEN stored ELSE stored \cup {w}
    /\ phase' = [phase EXCEPT ![w] = "done"] /\ holder' = Free(w)
    /\ UNCHANGED <<here, revisions, export, files, upload, imports>>
(* Too long a wait for a lock, or any other failure *)
GiveUp(w) ==
    /\ w \in Writer /\ phase[w] \in {"admitted", "locked"}
    /\ phase' = [phase EXCEPT ![w] = "idle"] /\ holder' = Free(w)
    /\ UNCHANGED <<here, revisions, export, files, there, upload, imports, stored>>

NoUpload == [bundle |-> <<>>, of |-> <<>>, dry |-> FALSE]
Upload ==
    /\ phase["import"] = "idle" /\ ~Alone /\ imports < MaxImports
    /\ \E f \in files, dry \in BOOLEAN : \E b \in {f.bundle} \cup ByHand(f.bundle) :
        /\ Normalizes(b)
        /\ upload' = [bundle |-> b, of |-> IF b = f.bundle THEN f.of ELSE <<>>, dry |-> dry]
    /\ phase' = [phase EXCEPT !["import"] = "admitted"] /\ imports' = imports + 1
    /\ UNCHANGED <<here, revisions, export, files, there, holder, stored>>

EndImport ==
    /\ phase' = [phase EXCEPT !["import"] = "idle"] /\ holder' = Free("import") /\ upload' = NoUpload
    /\ UNCHANGED <<here, revisions, export, files, imports, stored>>

(* The shared lock turned exclusive at once, or not at all; a bug would    *)
(* rely on the detector lock, which not every writer takes.                *)
HoldsDetector == holder = "import"
Exclusive == Admitted = {"import"}

(* Missing reference rates destroy nothing and do not count *)
CleanTarget ==
    /\ there.trips = <<>> /\ there.expenses = <<>> /\ there.readings = <<>> /\ there.places = <<>>
    /\ there.fixes = {} /\ ~there.progressed
    /\ Rows(there.vehicles) = {SeededVehicle} /\ Cardinality(DOMAIN there.vehicles) = 1
    /\ Rows(there.rules) = ToSet(SeededRules) /\ Cardinality(DOMAIN there.rules) = 2
    /\ \A y \in DOMAIN there.rates : y \in DOMAIN ReferenceRates /\ there.rates[y] = ReferenceRates[y]

(* Busy: the detector lock was waited for too long, or someone else is in; *)
(* or refused: another schema, an account that is no longer fresh, a file  *)
(* larger than the storage left to the account.                            *)
Refuse ==
    /\ \/ phase["import"] = "admitted" /\ holder # "nobody"
       \/ phase["import"] = "locked" /\ ~(Compatible(upload.bundle) /\ Exclusive)
       \/ phase["import"] = "alone" /\ ~CleanTarget
       \/ phase["import"] = "clean"
    /\ EndImport /\ there' = there

Upgrade ==
    /\ phase["import"] = "locked" /\ Compatible(upload.bundle) /\ Exclusive
    /\ phase' = [phase EXCEPT !["import"] = "alone"]
    /\ UNCHANGED <<here, revisions, export, files, there, holder, upload, imports, stored>>
CheckTarget ==
    /\ phase["import"] = "alone" /\ CleanTarget
    /\ phase' = [phase EXCEPT !["import"] = "clean"]
    /\ UNCHANGED <<here, revisions, export, files, there, holder, upload, imports, stored>>

(* Rows get new numbers, in the file's order; a trip is marked imported,   *)
(* without route or snapped distance.                                      *)
Base == 60
Renumbered(s, i) == IF i = Null THEN Null ELSE Base + (CHOOSE k \in DOMAIN s : s[k].id = i)
Numbered(s, F) == [i \in {Base + k : k \in DOMAIN s} |-> F[CHOOSE k \in DOMAIN s : Base + k = i]]
InsertVehicles(b) == Numbered(b.vehicles, [k \in DOMAIN b.vehicles |->
    [name |-> b.vehicles[k].name, default |-> b.vehicles[k].default, active |-> b.vehicles[k].active]])
InsertPlaces(b) == Numbered(b.places, [k \in DOMAIN b.places |->
    [name |-> b.places[k].name, radius |-> b.places[k].radius, at |-> b.places[k].at]])
InsertRules(b) == Numbered(b.rules, [k \in DOMAIN b.rules |-> LET r == b.rules[k] IN
    [a |-> Renumbered(b.places, r.a), akind |-> r.akind, b |-> Renumbered(b.places, r.b), bkind |-> r.bkind]])
UpsertRates(b) == [y \in IdsOf(b.rates) |->
    LET r == CHOOSE r \in Rows(b.rates) : r.id = y IN [flat |-> r.flat, half |-> r.half, month |-> r.month]]
InsertTrips(b) == Numbered(b.trips, [k \in DOMAIN b.trips |-> LET r == b.trips[k] IN
    [source |-> r.source, span |-> r.span, distance |-> r.distance, snapped |-> "none",
     exclusion |-> r.exclusion, vehicle |-> Renumbered(b.vehicles, r.vehicle),
     place |-> Renumbered(b.places, r.place), label |-> r.label, note |-> r.note,
     route |-> FALSE, imported |-> TRUE]])
InsertExpenses(b) == Numbered(b.expenses, [k \in DOMAIN b.expenses |-> LET r == b.expenses[k] IN
    [vehicle |-> Renumbered(b.vehicles, r.vehicle), trip |-> Renumbered(b.trips, r.trip), amount |-> r.amount,
     note |-> r.note]])
InsertReadings(b) == Numbered(b.readings, [k \in DOMAIN b.readings |-> LET r == b.readings[k] IN
    [vehicle |-> Renumbered(b.vehicles, r.vehicle), at |-> r.at, value |-> r.value, note |-> r.note]])
UpdateSettings(b) == <<[auto |-> b.settings[1].auto,
    tz |-> IF b.format = 3 THEN b.settings[1].tz ELSE there.settings[1].tz]>>

Imported(b) == [there EXCEPT !.vehicles = InsertVehicles(b), !.places = InsertPlaces(b),
    !.rules = InsertRules(b), !.rates = UpsertRates(b), !.trips = InsertTrips(b),
    !.expenses = InsertExpenses(b), !.readings = InsertReadings(b), !.settings = UpdateSettings(b)]

(* All or nothing: a row the tables refuse undoes the rest, and a dry run  *)
(* does the same work and undoes it.                                       *)
Apply ==
    /\ phase["import"] = "clean"
    /\ there' = IF Storable(Imported(upload.bundle)) /\ ~upload.dry THEN Imported(upload.bundle) ELSE there
    /\ EndImport

ImportNext == Upload \/ LockDetector("import") \/ Upgrade \/ CheckTarget \/ Refuse \/ Apply
WriterNext == \E w \in Writer : Admit(w) \/ LockDetector(w) \/ Commit(w) \/ GiveUp(w)

PortableInit ==
    /\ here = Here /\ revisions = 0 /\ export = NoExport /\ files = {}
    /\ there = Fresh
    /\ phase = [a \in Writer \cup {"import"} |-> "idle"] /\ holder = "nobody"
    /\ upload = NoUpload /\ imports = 0 /\ stored = {}
PortableNext == OwnerNext \/ ExportNext \/ ImportNext \/ WriterNext

PortableSpec == PortableInit /\ [][PortableNext]_portableVars

(***************************************************************************)
(* Properties                                                              *)
(***************************************************************************)

(* An account without the numbers of its rows: what a reader would compare *)
Place(f, i) == IF i = Null THEN 0 ELSE Rank(f, i)
InOrder(f) == [k \in DOMAIN Sorted(f) |-> f[Sorted(f)[k]]]
RuleOf(b, r) == <<Place(b.places, r.a), r.akind, Place(b.places, r.b), r.bkind>>
TripOf(b, t) == <<t.source, t.span, Counted(t), t.exclusion, Place(b.vehicles, t.vehicle),
                  Place(b.places, t.place), t.label, t.note>>
ExpenseOf(b, x) == <<Place(b.vehicles, x.vehicle), Place(b.trips, x.trip), x.amount, x.note>>
ReadingOf(b, r) == <<Place(b.vehicles, r.vehicle), r.at, r.value, r.note>>
Meaning(b) ==
    [vehicles |-> InOrder(b.vehicles), places |-> InOrder(b.places),
     rates |-> [y \in DOMAIN b.rates |-> b.rates[y]],
     rules |-> [k \in DOMAIN Sorted(b.rules) |-> RuleOf(b, InOrder(b.rules)[k])],
     trips |-> [k \in DOMAIN Sorted(b.trips) |-> TripOf(b, InOrder(b.trips)[k])],
     expenses |-> [k \in DOMAIN Sorted(b.expenses) |-> ExpenseOf(b, InOrder(b.expenses)[k])],
     readings |-> [k \in DOMAIN Sorted(b.readings) |-> ReadingOf(b, InOrder(b.readings)[k])],
     settings |-> b.settings[1]]

(* Whatever the owner did, and whatever changed while it was read, a file  *)
(* that was handed out passes every check of an import, fits the tables,   *)
(* and gives back the account as it stood at one moment (_read_export_     *)
(* bundle, normalize_bundle, _apply_import).                               *)
FilesComeBack == \A f \in files :
    /\ Normalizes(f.bundle)
    /\ Storable(Imported(f.bundle)) /\ Meaning(Imported(f.bundle)) = Meaning(f.of)

(* An import never removes what another writer of the account had stored:  *)
(* the account stays fresh from the check to the commit (_apply_import).   *)
StoredWritesStand == \A w \in stored : Landed(w, there)

(* A file that passes the checks fails in the tables for no other reason   *)
(* than one value its column cannot hold, which normalize_bundle does not  *)
(* ask: a number, year or UTC offset out of range, or unstorable text.  No *)
(* reference, duplicate or combination of values slips through to          *)
(* _apply_import's insert_failed.                                          *)
BeyondItsColumn(b) ==
    \/ \E r \in Rows(b.vehicles) : ~TextColumn(r.name)
    \/ \E r \in Rows(b.places) : ~(RealColumn(r.radius) /\ TextColumn(r.name))
    \/ \E r \in Rows(b.rates) : ~YearColumn(r.id)
    \/ \E r \in Rows(b.trips) :
        ~(RealColumn(r.distance) /\ SpanColumn(r.span) /\ TextColumn(r.label) /\ TextColumn(r.note))
    \/ \E r \in Rows(b.expenses) : ~TextColumn(r.note)
    \/ \E r \in Rows(b.readings) : ~(TimeColumn(r.at) /\ TextColumn(r.note))
OnlyValuesSlipThrough ==
    upload # NoUpload => Storable(Imported(upload.bundle)) \/ BeyondItsColumn(upload.bundle)
=============================================================================
