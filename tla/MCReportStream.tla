---------------------------- MODULE MCReportStream ----------------------------
(***************************************************************************)
(* Accounts for ReportStream: trips on the edges of a year, a half-year    *)
(* rate and a week, with the rates, expenses and readings around them.     *)
(***************************************************************************)
EXTENDS ReportStream

Trip(at, category, exclusion, vehicle, m, mark) ==
    [at |-> at, category |-> category, exclusion |-> exclusion, vehicle |-> vehicle, m |-> m, mark |-> mark]

\* Year 2 is the local days 48 to 71, its second half begins with day 60
Edges == {94, 95, 118, 119, 142, 143}
Shapes == {<<"business", "none", "blank">>, <<"personal", "none", "gap">>, <<"unclassified", "none", "low">>,
           <<"business", "not_deductible", "manual">>, <<"business", "not_my_vehicle", "plain">>}
TripOf(at, shape, v, m) == Trip(at, shape[1], shape[2], v, m, shape[3])

Flat == 2 :> [flat |-> 3, half |-> Null, month |-> Null]
Halved == 2 :> [flat |-> 3, half |-> 5, month |-> 7]
Older == 1 :> [flat |-> 2, half |-> 4, month |-> 7]
RateTables == {<<>>, Older, Halved, Older @@ Halved}

Expense(id, vehicle, treatment, category, cents, day, trip) ==
    [id |-> id, vehicle |-> vehicle, treatment |-> treatment, category |-> category, cents |-> cents,
     day |-> day, trip |-> trip]
Spent == {Expense(1, 1, "shared", "fuel", 7, 60, 119), Expense(2, 1, "fully", "parking", 2, 71, Null),
          Expense(3, 2, "shared", "fuel", 5, 47, Null), Expense(4, 2, "shared", "parking", 3, 48, Null)}

Read(v, at, m) == [vehicle |-> v, at |-> at, m |-> m]
Odometers == {{}} \cup
    {{Read(1, first, 100), Read(1, middle[1], middle[2]), Read(1, last, 112)} :
        first \in {90, 95, 100}, middle \in {<<118, 104>>, <<119, 112>>, <<119, 100>>}, last \in {140, 143, 150}}

Books(trips, expenses, readings, rates) ==
    [trips |-> trips, expenses |-> expenses, readings |-> readings, rates |-> rates]

Singles == {Books({TripOf(at, shape, v, 4)}, Spent, {}, rates) :
                at \in Edges, shape \in Shapes, v \in {Null, 1}, rates \in RateTables}
Pairs == {Books({TripOf(95, a, 1, 4), TripOf(119, b, v, 6)}, {}, {}, Halved) :
                a \in Shapes, b \in Shapes, v \in {Null, 1, 2}}
Metered == {Books({TripOf(118, <<"business", "none", "plain">>, 1, 4), TripOf(119, shape, 1, 6)}, Spent, readings, Halved) :
                shape \in Shapes, readings \in Odometers}
AllBooks == {Books({}, {}, {}, <<>>)} \cup Singles \cup Pairs \cup Metered

\* A trip is tagged, a reading or an expense is removed, a rate is set
EditsOf(acc) ==
    {[acc EXCEPT !.trips = (@ \ {t}) \cup {[t EXCEPT !.category = "personal", !.vehicle = 2]}] : t \in acc.trips}
      \cup {[acc EXCEPT !.readings = {r \in @ : r.at # 119}, !.expenses = {e \in @ : e.id # 2}, !.rates = Flat]}

AllOrders == {[annual |-> TRUE, days |-> YearDays(2)], [annual |-> FALSE, days |-> 59..60]}
=============================================================================
