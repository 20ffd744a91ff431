------------------------------- MODULE Figures -------------------------------
(***************************************************************************)
(* What the pages, the reports, the files and the API say of an account:   *)
(* miles by class, deduction, expenses and odometer, each folded by its    *)
(* own code from the same rows.  A distance is in miles, a rate in cents   *)
(* a mile, and Null a figure that is unavailable.  The calendar is small:  *)
(* two ticks to a day, two days to a month, three days to a week.          *)
(***************************************************************************)
EXTENDS Integers, FiniteSets, Sequences, SequencesExt

CONSTANT Offset     \* from stored time to the account's local time

Null == -1
Categories == {"business", "personal", "unclassified"}

Sum(f) == MapThenSumSet(LAMBDA x : f[x], DOMAIN f)
Meters(trips) == MapThenSumSet(LAMBDA t : t.m, trips)
Cents(rows) == MapThenSumSet(LAMBDA e : e.cents, rows)
Earliest(rows) == CHOOSE r \in rows : \A s \in rows : r.at <= s.at
Latest(rows) == CHOOSE r \in rows : \A s \in rows : s.at <= r.at
Ratio(part, whole) == IF whole > 0 THEN <<part, whole>> ELSE <<0, 0>>

(***************************************************************************)
(* Local days                                                              *)
(***************************************************************************)
DayOf(at) == (at + Offset) \div 2
Midnight(day) == 2 * day - Offset
YearOf(day) == day \div 24
MonthOf(day) == ((day % 24) \div 2) + 1
MonthStart(y, m) == 24 * y + 2 * (m - 1)
MonthEnd(y, m) == MonthStart(y, m) + 1
YearDays(y) == MonthStart(y, 1)..MonthEnd(y, 12)
QuarterDays(y, q) == MonthStart(y, 3 * q - 2)..MonthEnd(y, 3 * q)
Monday(day) == day - ((day + 1) % 3)

TripDay(t) == DayOf(t.at)
TripMonth(t) == MonthOf(TripDay(t))
TripYear(t) == YearOf(TripDay(t))

(***************************************************************************)
(* Rates and deductions                                                    *)
(***************************************************************************)

(* A year's rate: flat, and maybe another one from month on *)
InForce(rate, month) == IF rate.month # Null /\ month >= rate.month THEN rate.half ELSE rate.flat

RateFor(rates, y, month) ==
    LET earlier == {x \in DOMAIN rates : x < y}
    IN CASE y \in DOMAIN rates -> InForce(rates[y], month)
         [] y \notin DOMAIN rates /\ earlier # {} -> InForce(rates[Max(earlier)], 12)
         [] OTHER -> Null

(* The one row of the rates that a report or a digest of year y reads *)
LatestRate(rates, y) ==
    LET upTo == {x \in DOMAIN rates : x <= y}
    IN IF upTo = {} THEN <<>> ELSE Max(upTo) :> rates[Max(upTo)]

Deduction(miles, y, rates, month) ==
    IF RateFor(rates, y, month) = Null THEN Null ELSE miles * RateFor(rates, y, month)

(* miles by month *)
SumMonthDeductions(miles, y, rates) ==
    LET deductions == [m \in DOMAIN miles |-> Deduction(miles[m], y, rates, m)]
        priced == {m \in DOMAIN miles : deductions[m] # Null}
    IN CASE priced # {} -> Sum([m \in priced |-> deductions[m]])
         [] priced = {} /\ RateFor(rates, y, 1) # Null -> 0
         [] OTHER -> Null

(* The longest spans of months with one rate *)
RatePeriods(rates, y, months) ==
    LET same(a, b) == \A m \in a..b : m \in months /\ RateFor(rates, y, m) = RateFor(rates, y, a)
    IN {<<RateFor(rates, y, a), a, b>> : <<a, b>> \in
          {p \in months \X months : /\ p[1] <= p[2] /\ same(p[1], p[2])
                                    /\ RateFor(rates, y, p[1]) # Null
                                    /\ ~same(p[1] - 1, p[2]) /\ ~same(p[1], p[2] + 1)}}

(***************************************************************************)
(* Classes of trips: an exclusion is stronger than the category            *)
(***************************************************************************)
Counted(trips) == {t \in trips : t.exclusion # "not_my_vehicle"}
Class(t) == IF t.exclusion = "not_deductible" THEN "nondeductible" ELSE t.category
OfClass(trips, c) == {t \in Counted(trips) : Class(t) = c}
Classified(trips) == {t \in Counted(trips) : Class(t) # "unclassified"}
OnDays(trips, days) == {t \in trips : TripDay(t) \in days}
Between(trips, from, to) == {t \in trips : from <= t.at /\ t.at < to}

ByMonth(trips) ==
    [m \in {TripMonth(t) : t \in trips} |-> Meters({t \in trips : TripMonth(t) = m})]
OfVehicle(rows, v) == {r \in rows : r.vehicle = v}

(***************************************************************************)
(* The report of the days of one year, or of a part of it                  *)
(***************************************************************************)
ValidRange(from, to) == from <= to /\ YearOf(from) = YearOf(to)

Caveats(trips, business, missingRate) ==
    LET marked(S, mark) == Cardinality({t \in S : t.mark = mark})
    IN [gap |-> marked(Counted(trips), "gap"), low |-> marked(Counted(trips), "low"),
        manual |-> marked(Counted(trips), "manual"), noPurpose |-> marked(business, "blank"),
        unclassified |-> Cardinality({t \in trips : t.category = "unclassified"}),
        noRate |-> missingRate]

VehicleLine(trips, y, rates) ==
    LET business == OfClass(trips, "business")
    IN [business |-> Meters(business), personal |-> Meters(OfClass(trips, "personal")),
        nondeductible |-> Meters(OfClass(trips, "nondeductible")),
        total |-> Meters(Classified(trips)),
        deduction |-> SumMonthDeductions(ByMonth(business), y, rates)]

VehicleLines(trips, y, rates) ==
    [v \in {t.vehicle : t \in Classified(trips)} |-> VehicleLine(OfVehicle(trips, v), y, rates)]

MonthLines(business, y, rates) ==
    LET miles == ByMonth(business)
    IN [m \in DOMAIN miles |->
          [count |-> Cardinality({t \in business : TripMonth(t) = m}), business |-> miles[m],
           rate |-> RateFor(rates, y, m), deduction |-> Deduction(miles[m], y, rates, m)]]

RangeReport(trips, rates, days) ==
    LET y == YearOf(Min(days))
        months == {MonthOf(d) : d \in days}
        here == OnDays(trips, days)
        business == OfClass(here, "business")
    IN [year |-> y, months |-> MonthLines(business, y, rates),
        business |-> Meters(business), personal |-> Meters(OfClass(here, "personal")),
        nondeductible |-> Meters(OfClass(here, "nondeductible")),
        share |-> Ratio(Meters(business), Meters(Classified(here))),
        deduction |-> SumMonthDeductions(ByMonth(business), y, rates),
        periods |-> RatePeriods(rates, y, months),
        count |-> Cardinality(Counted(here)),
        caveats |-> Caveats(here, business, RateFor(rates, y, Min(months)) = Null),
        vehicles |-> VehicleLines(here, y, rates)]

AnnualReport(trips, rates, y) == RangeReport(trips, rates, YearDays(y))

(***************************************************************************)
(* Odometer readings against detected trips                                *)
(***************************************************************************)

(* A trip belongs to the interval it starts in *)
Reconcile(readings, trips) ==
    {[from |-> p[1].at, to |-> p[2].at, delta |-> p[2].m - p[1].m,
      detected |-> Meters(Between(trips, p[1].at, p[2].at))] :
        p \in {q \in readings \X readings :
                 q[1].at < q[2].at /\ ~\E r \in readings : q[1].at < r.at /\ r.at < q[2].at}}

(* Intervals without a data error *)
Rising(intervals) == {i \in intervals : i.delta > 0}

CoverageLine(readings, trips, y) ==
    LET rising == Rising(Reconcile(readings, trips))
        delta == MapThenSumSet(LAMBDA i : i.delta, rising)
        detected == MapThenSumSet(LAMBDA i : i.detected, rising)
    IN [from |-> Earliest(readings).at, to |-> Latest(readings).at,
        coverage |-> Ratio(detected, delta), gap |-> delta - detected,
        full |-> /\ Earliest(readings).at <= Midnight(MonthStart(y, 1))
                 /\ Latest(readings).at >= Midnight(MonthStart(y + 1, 1))]

Coverage(trips, readings, y) ==
    LET inYear == {r \in readings : /\ r.at >= Midnight(MonthStart(y, 1))
                                    /\ r.at <= Midnight(MonthStart(y + 1, 1))}
        driven(v) == OfVehicle(Counted(OnDays(trips, YearDays(y))), v)
    IN [v \in {r.vehicle : r \in {s \in inYear : Rising(Reconcile(OfVehicle(inYear, s.vehicle), {})) # {}}} |->
          CoverageLine(OfVehicle(inYear, v), driven(v), y)]

(***************************************************************************)
(* Actual expenses against the standard rate, by vehicle                   *)
(***************************************************************************)
Money(part, whole) == (2 * part + whole) \div (2 * whole)

(* The driving of a year by the odometer, when it can be trusted *)
OdometerSpan(readings, business, y) ==
    LET starts == {r \in readings : r.at <= Midnight(MonthStart(y, 1))}
        ends == {r \in readings : r.at >= Midnight(MonthStart(y + 1, 1))}
        bracket == {r \in readings : r.at >= Latest(starts).at /\ r.at <= Earliest(ends).at}
        delta == Earliest(ends).m - Latest(starts).m
        sound == /\ \A r, s \in bracket : r.at < s.at => r.m < s.m
                 /\ delta >= business
                 /\ delta > 0
    IN CASE starts = {} \/ ends = {} -> [source |-> "gps", invalid |-> FALSE, miles |-> 0]
         [] starts # {} /\ ends # {} /\ sound -> [source |-> "odometer", invalid |-> FALSE, miles |-> delta]
         [] OTHER -> [source |-> "gps", invalid |-> TRUE, miles |-> 0]

(* Standard and actual totals, and which is larger *)
Estimates(business, months, whole, shared, fully, y, rates) ==
    LET deduction == SumMonthDeductions(months, y, rates)
        priced == deduction # Null /\ months # <<>>
        standard == CASE priced -> deduction + fully
                      [] ~priced /\ business = 0 -> fully
                      [] OTHER -> Null
        actual == IF whole > 0 THEN Money(shared * business + fully * whole, whole) ELSE Null
    IN [standard |-> standard, actual |-> actual,
        larger |-> CASE standard = Null \/ actual = Null -> "none"
                     [] Null \notin {standard, actual} /\ actual > standard -> "actual"
                     [] Null \notin {standard, actual} /\ standard > actual -> "standard"
                     [] OTHER -> "tie"]

Comparison(trips, expenses, readings, rates, y) ==
    LET business == OfClass(trips, "business")
        span == OdometerSpan(readings, Meters(business), y)
        whole == IF span.source = "odometer" THEN span.miles ELSE Meters(Counted(trips))
        shared == Cents({e \in expenses : e.treatment = "shared"})
        fully == Cents({e \in expenses : e.treatment = "fully"})
    IN [business |-> Meters(business), denominator |-> whole, source |-> span.source,
        invalid |-> span.invalid, share |-> Ratio(Meters(business), whole),
        shared |-> shared, fully |-> fully,
        estimates |-> Estimates(Meters(business), ByMonth(business), whole, shared, fully, y, rates)]

(* An expense disagrees with the trip it is linked to *)
Conflicts(e, trips) ==
    LET linked == {t \in trips : t.at = e.trip}
    IN {c \in {"vehicle", "date", "not_my_vehicle"} : \E t \in linked :
          \/ c = "vehicle" /\ t.vehicle # e.vehicle
          \/ c = "date" /\ TripDay(t) # e.day
          \/ c = "not_my_vehicle" /\ t.exclusion = "not_my_vehicle"}

ExpenseReport(trips, expenses, readings, rates, y) ==
    LET driven == {t \in Counted(OnDays(trips, YearDays(y))) : t.vehicle # Null}
        spent == {e \in expenses : e.day \in YearDays(y)}
        shared == {e \in spent : e.treatment = "shared"}
    IN [comparisons |-> [v \in {r.vehicle : r \in driven} \cup {r.vehicle : r \in spent} |->
            Comparison(OfVehicle(driven, v), OfVehicle(spent, v), OfVehicle(readings, v), rates, y)],
        categories |-> [c \in {e.category : e \in spent} |-> Cents({e \in spent : e.category = c})],
        shared |-> Cents(shared), fully |-> Cents(spent \ shared), ledger |-> Cents(spent),
        linked |-> [at \in {e.trip : e \in spent} \ {Null} |-> Cents({e \in spent : e.trip = at})],
        conflicts |-> {<<e.id, Conflicts(e, trips)>> : e \in {e \in spent : e.trip # Null}}]

(***************************************************************************)
(* Stats: four views of a year, or of a part of it, and of its neighbours  *)
(***************************************************************************)
StatsCategories == Categories \cup {"nondeductible"}
AnyVehicle == -2
WeeksShown == 4
YearsShown == 5

(* Trips run to the end of the year, expenses only to today *)
StatsPeriod(y, from, to, today) ==
    LET first == IF from = Null THEN MonthStart(y, 1) ELSE Max({from, MonthStart(y, 1)})
        last == IF to = Null THEN MonthEnd(y, 12) ELSE Min({to, MonthEnd(y, 12)})
        elapsed == IF to = Null /\ y >= YearOf(today) THEN Min({today, last}) ELSE last
    IN [year |-> y, days |-> first..last, spent |-> first..elapsed]

VehicleClause(rows, v) == IF v = AnyVehicle THEN rows ELSE OfVehicle(rows, v)

CategoryRows(trips) ==
    [c \in StatsCategories |-> [count |-> Cardinality(OfClass(trips, c)), m |-> Meters(OfClass(trips, c))]]

(* A later year than today's degrades to the part of it that has elapsed *)
MultiyearWindow(present, y, today) ==
    [years |-> {x \in present : x <= y /\ Cardinality({z \in present : x < z /\ z <= y}) < YearsShown},
     month |-> IF y >= YearOf(today) THEN MonthOf(today) ELSE 12,
     day |-> IF y >= YearOf(today) THEN (today % 2) + 1 ELSE 2]

(* The month of the cutoff counts only once its last day has come *)
LastIncludedMonth(w) == IF w.day >= 2 THEN w.month ELSE w.month - 1

MultiyearSeries(trips, w) ==
    [y \in w.years |-> [m \in 1..LastIncludedMonth(w) |->
        [c \in StatsCategories |-> Meters({t \in OfClass(trips, c) : TripYear(t) = y /\ TripMonth(t) = m})]]]

(* The quarter of the cutoff is shown, a later one of the last year is not *)
QuarterlyShare(trips, w) ==
    [p \in {q \in w.years \X (1..4) : q[1] = Max(w.years) => 3 * q[2] - 2 <= w.month} |->
        LET here == OnDays(trips, QuarterDays(p[1], p[2]))
        IN [business |-> Meters(OfClass(here, "business")), personal |-> Meters(OfClass(here, "personal")),
            share |-> Ratio(Meters(OfClass(here, "business")), Meters(Classified(here)))]]

StatsVehicle(trips, spent, y, rates) ==
    [business |-> Meters(OfClass(trips, "business")), personal |-> Meters(OfClass(trips, "personal")),
     nondeductible |-> Meters(OfClass(trips, "nondeductible")), total |-> Meters(Counted(trips)),
     count |-> Cardinality(Counted(trips)), expenses |-> Cents(spent),
     deduction |-> SumMonthDeductions(ByMonth(OfClass(trips, "business")), y, rates)]

(* A vehicle with expenses and no trip keeps its row *)
VehicleBreakdown(trips, spent, y, rates) ==
    [v \in {r.vehicle : r \in Counted(trips)} \cup {e.vehicle : e \in spent} |->
        StatsVehicle(OfVehicle(trips, v), OfVehicle(spent, v), y, rates)]

StatsSummary(acc, p, v, today) ==
    LET all == VehicleClause(acc.trips, v)
        here == OnDays(all, p.days)
        spent == {e \in VehicleClause(acc.expenses, v) : e.day \in p.spent}
        w == MultiyearWindow({TripYear(t) : t \in Counted(all)}, p.year, today)
    IN [totals |-> CategoryRows(here), multiyear |-> MultiyearSeries(all, w),
        quarters |-> QuarterlyShare(all, w), vehicles |-> VehicleBreakdown(here, spent, p.year, acc.rates)]

(* The page's bars: months of the elapsed period, and its last weeks *)
Bars(trips, p) ==
    LET here == OnDays(trips, p.days)
        last == Monday(Max(p.spent))
        bar(c, days) == Meters(OnDays(OfClass(here, c), days))
        shown == {last - 3 * k : k \in 0..(WeeksShown - 1)}
    IN [weekly |-> [monday \in {d \in shown : d + 2 >= Min(p.spent)} |->
                      [c \in StatsCategories |-> bar(c, monday..(monday + 2))]],
        monthly |-> [m \in MonthOf(Min(p.spent))..MonthOf(Max(p.spent)) |->
                      [c \in StatsCategories |-> bar(c, MonthStart(p.year, m)..MonthEnd(p.year, m))]]]

(***************************************************************************)
(* The week's dashboard: one pass over the week's trips                    *)
(***************************************************************************)
WeekFigures(acc, day) ==
    LET monday == Monday(day)
        here == {t \in acc.trips : /\ t.at >= Midnight(monday) /\ t.at < Midnight(monday + 3)
                                   /\ t.exclusion # "not_my_vehicle"}
        charged == {t \in here : t.exclusion = "not_deductible"}
        priced == {t \in here : t.exclusion = "none" /\ t.category = "business" /\ t.m > 0}
        prices == [p \in {<<TripYear(t), TripMonth(t)>> : t \in priced} |->
            Deduction(Meters({t \in priced : TripYear(t) = p[1] /\ TripMonth(t) = p[2]}), p[1], acc.rates, p[2])]
    IN [count |-> Cardinality(here), total |-> Meters(here),
        distance |-> [c \in StatsCategories |->
            IF c = "nondeductible" THEN Meters(charged) ELSE Meters({t \in here \ charged : t.category = c})],
        expenses |-> Cents({e \in acc.expenses : monday <= e.day /\ e.day < monday + 3}),
        deduction |-> IF \E p \in DOMAIN prices : prices[p] = Null THEN Null ELSE Sum(prices)]

(***************************************************************************)
(* The trip archive: a month's heading, and the deduction of the year      *)
(***************************************************************************)
AnyBusiness(trips) ==  \* mutant: without the exclusion
    {t \in trips : t.category = "business"}

Plain(trips) == {t \in trips : t.category = "business" /\ t.exclusion = "none"}

MonthSummary(acc, y, m) ==
    LET here == {t \in acc.trips : /\ t.at >= Midnight(MonthStart(y, m))
                                   /\ t.at < Midnight(MonthEnd(y, m) + 1)}
        business == Meters(Plain(here))
    IN [count |-> Cardinality(here), total |-> Meters({t \in here : t.exclusion # "not_my_vehicle"}),
        business |-> business, deduction |-> Deduction(business, y, acc.rates, m)]

YtdDeduction(acc, y) ==
    SumMonthDeductions(ByMonth(Plain(Between(acc.trips, Midnight(MonthStart(y, 1)), Midnight(MonthStart(y + 1, 1))))),
                       y, acc.rates)

(***************************************************************************)
(* The totals of a workbook: trip by trip, as its rows are written         *)
(***************************************************************************)
RowDeduction(t, rates) ==
    IF t \in Plain({t}) THEN Deduction(t.m, TripYear(t), rates, TripMonth(t)) ELSE Null

TripsSheet(trips, rates) ==
    [m |-> Meters({t \in trips : t.exclusion # "not_my_vehicle"}),
     deduction |-> MapThenSumSet(LAMBDA t : RowDeduction(t, rates), {t \in trips : RowDeduction(t, rates) # Null})]

(***************************************************************************)
(* The digest's summary of days of one year                                *)
(***************************************************************************)
DigestFold(trips) ==
    LET mine == {t \in trips : t.exclusion # "not_my_vehicle"}
        deducted == {t \in mine : t.exclusion # "not_deductible" /\ t.category = "business"}
    IN [unclassified |-> Cardinality({t \in trips : t.category = "unclassified"}),
        nondeductible |-> Meters({t \in mine : t.exclusion = "not_deductible"}),
        business |-> Meters(deducted), months |-> ByMonth(deducted)]

DigestSummary(acc, from, to) ==
    LET fold == DigestFold(Between(acc.trips, Midnight(from), Midnight(to + 1)))
    IN [fold EXCEPT !.months = SumMonthDeductions(@, YearOf(from), LatestRate(acc.rates, YearOf(from)))]

(***************************************************************************)
(* What every figure of one year must agree on                             *)
(***************************************************************************)
Total(f, g(_)) == Sum([x \in DOMAIN f |-> g(f[x])])
Known(cents) == IF cents = Null THEN 0 ELSE cents

(* The parts of a report make its totals *)
PartsMakeTheReport(acc, y) ==
    LET r == AnnualReport(acc.trips, acc.rates, y)
        quarters == [q \in 1..4 |-> RangeReport(acc.trips, acc.rates, QuarterDays(y, q))]
    IN /\ \A part \in {r.months, r.vehicles, quarters} :
            /\ r.business = Total(part, LAMBDA x : x.business)
            /\ r.deduction # Null => r.deduction = Total(part, LAMBDA x : x.deduction)
            /\ r.deduction = Null => \A x \in DOMAIN part : part[x].deduction = Null
       /\ r.share[1] <= r.share[2]
       /\ r.personal = Total(r.vehicles, LAMBDA x : x.personal)
       /\ r.count = Total(quarters, LAMBDA x : x.count)

(* The archive, the sheet of trips and the digest show the report's miles and deduction *)
PagesAgreeWithReport(acc, y) ==
    LET r == AnnualReport(acc.trips, acc.rates, y)
        months == [m \in 1..12 |-> MonthSummary(acc, y, m)]
        sheet == TripsSheet(OnDays(acc.trips, YearDays(y)), acc.rates)
        digest == DigestSummary(acc, MonthStart(y, 1), MonthEnd(y, 12))
    IN /\ Total(months, LAMBDA x : x.business) = r.business
       /\ \A m \in DOMAIN r.months : months[m].deduction = r.months[m].deduction
       /\ YtdDeduction(acc, y) = r.deduction
       /\ sheet.deduction = Known(r.deduction)
       /\ sheet.m = Total(months, LAMBDA x : x.total)
       /\ <<digest.business, digest.nondeductible, digest.unclassified, digest.months>> =
              <<r.business, r.nondeductible, r.caveats.unclassified, r.deduction>>

(* Stats of a year shows the report's miles by class, month, quarter and vehicle *)
StatsAgreeWithReport(acc, y, today) ==
    LET r == AnnualReport(acc.trips, acc.rates, y)
        p == StatsPeriod(y, Null, Null, today)
        s == StatsSummary(acc, p, AnyVehicle, today)
        miles(x) == <<x.business, x.personal, x.nondeductible>>
        past == y < YearOf(today)
    IN /\ <<s.totals["business"].m, s.totals["personal"].m, s.totals["nondeductible"].m>> = miles(r)
       /\ \A v \in DOMAIN s.vehicles :
            /\ v \in DOMAIN r.vehicles => /\ miles(s.vehicles[v]) = miles(r.vehicles[v])
                                          /\ s.vehicles[v].deduction = r.vehicles[v].deduction
            /\ v \notin DOMAIN r.vehicles => miles(s.vehicles[v]) = <<0, 0, 0>>
       /\ DOMAIN r.vehicles \subseteq DOMAIN s.vehicles
       /\ past /\ y \in DOMAIN s.multiyear =>
            /\ Total(s.multiyear[y], LAMBDA x : x["business"]) = r.business
            /\ \A q \in 1..4 : LET share == RangeReport(acc.trips, acc.rates, QuarterDays(y, q))
                               IN /\ s.quarters[<<y, q>>].business = share.business
                                  /\ s.quarters[<<y, q>>].share = share.share
       /\ past => Total(Bars(acc.trips, p).monthly, LAMBDA x : x["business"]) = r.business

(* The dashboard of a week shows the report of its days, and its bar on the page of Stats *)
WeeksAgree(acc, y, today) ==
    LET bars == Bars(acc.trips, StatsPeriod(y, Null, Null, today)).weekly
    IN \A monday \in {d \in YearDays(y) : d = Monday(d) /\ d + 2 \in YearDays(y)} :
         LET w == WeekFigures(acc, monday)
             r == RangeReport(acc.trips, acc.rates, monday..(monday + 2))
         IN /\ <<w.distance["business"], w.distance["personal"], w.distance["nondeductible"], w.count>> =
                   <<r.business, r.personal, r.nondeductible, r.count>>
            /\ r.deduction # Null => w.deduction = r.deduction
            /\ w.deduction = Null => r.deduction = Null
            /\ monday \in DOMAIN bars => bars[monday] = w.distance

(* The ledger is its categories and its vehicles; no actual cost exceeds what was spent *)
ExpensesAgree(acc, y, today) ==
    LET r == AnnualReport(acc.trips, acc.rates, y)
        e == ExpenseReport(acc.trips, acc.expenses, acc.readings, acc.rates, y)
        s == StatsSummary(acc, StatsPeriod(y, Null, Null, today), AnyVehicle, today)
        covered == Coverage(acc.trips, acc.readings, y)
        spent(v) == e.comparisons[v].shared + e.comparisons[v].fully
    IN /\ e.ledger = e.shared + e.fully
       /\ e.ledger = Sum(e.categories)
       /\ e.ledger = Sum([v \in DOMAIN e.comparisons |-> spent(v)])
       /\ \A v \in DOMAIN e.comparisons :
            LET c == e.comparisons[v]
            IN /\ c.share[1] <= c.share[2] /\ c.estimates.actual <= spent(v)
               /\ v \in DOMAIN r.vehicles => c.business = r.vehicles[v].business
               /\ c.business > 0 => Known(r.vehicles[v].deduction) + c.fully = c.estimates.standard
                                    \/ (c.estimates.standard = Null /\ r.deduction = Null)
               /\ y < YearOf(today) => v \in DOMAIN s.vehicles /\ s.vehicles[v].expenses = spent(v)
       /\ \A v \in DOMAIN covered :
            covered[v].coverage[1] <= Meters(OfVehicle(Counted(OnDays(acc.trips, YearDays(y))), v))
=============================================================================
