----------------------------- MODULE ReportStream -----------------------------
(***************************************************************************)
(* The way a report is really made.  The server reads the account under    *)
(* one exported snapshot and sends it row by row, in the order of its      *)
(* queries, to a helper process that keeps folds and never the rows; the   *)
(* owner goes on editing meanwhile.  What the helper renders must be what  *)
(* Figures computes of the account as it was.                              *)
(***************************************************************************)
EXTENDS Figures

CONSTANTS Accounts,     \* the accounts to begin with: [trips, expenses, readings, rates]
          Orders,       \* the reports asked for: [annual, days]
          Edits(_),     \* the accounts one edit away
          Todays,       \* days they are looked at
          MaxChanges    \* bound: edits of the owner while a report is made

VARIABLES books,        \* the account's rows
          bound,        \* the account is enabled, its session's version unchanged
          changes,
          stage, order, \* where the report is, and what was asked for
          snap,         \* the rows of the snapshot the report reads
          sent,         \* rows sent in this stage
          prices,       \* the rates the helper has
          total,        \* its fold over every trip
          group,        \* its state for the vehicle at hand
          sums,         \* what it keeps of the vehicles and the expenses
          shown         \* what it rendered

figureVars == <<books, bound, changes, stage, order, snap, sent, prices, total, group, sums, shown>>
helperVars == <<total, group, sums>>

Add(f, k, x) == [j \in DOMAIN f \cup {k} |->
    (IF j \in DOMAIN f THEN f[j] ELSE 0) + IF j = k THEN x ELSE 0]

(***************************************************************************)
(* The helper's fold over trips, of the account or of one vehicle          *)
(***************************************************************************)
NewFold == [m |-> [c \in {"business", "personal", "nondeductible"} |-> 0],
            months |-> <<>>, counts |-> <<>>, count |-> 0, unclassified |-> 0,
            marks |-> [k \in {"gap", "low", "manual"} |-> 0], blank |-> 0,
            included |-> FALSE, gps |-> 0, present |-> FALSE]

FoldClass(t) ==
    CASE t.exclusion = "not_deductible" -> {"nondeductible"}
      [] t.exclusion # "not_deductible" -> {t.category} \ {"unclassified"}

FoldAdd(f, t, days) ==
    LET class == FoldClass(t)
        business == class = {"business"}
        queued == [f EXCEPT !.unclassified = @ + IF t.category = "unclassified" THEN 1 ELSE 0]
        counted == [queued EXCEPT
            !.count = @ + 1, !.gps = @ + t.m, !.present = TRUE, !.included = @ \/ class # {},
            !.m = [c \in DOMAIN @ |-> @[c] + IF c \in class THEN t.m ELSE 0],
            !.months = IF business THEN Add(@, TripMonth(t), t.m) ELSE @,
            !.counts = IF business THEN Add(@, TripMonth(t), 1) ELSE @,
            !.blank = @ + IF business /\ t.mark = "blank" THEN 1 ELSE 0,
            !.marks = [k \in DOMAIN @ |-> @[k] + IF t.mark = k THEN 1 ELSE 0]]
    IN CASE TripDay(t) \notin days -> f
         [] TripDay(t) \in days /\ t.exclusion = "not_my_vehicle" -> queued
         [] OTHER -> counted

(* fold.add answers whether the trip counts *)
FoldTakes(t, days) == TripDay(t) \in days /\ t.exclusion # "not_my_vehicle"

FoldReport(f, rates, days, vehicles) ==
    LET y == YearOf(Min(days))
        months == {MonthOf(d) : d \in days}
        classified == f.m["business"] + f.m["personal"] + f.m["nondeductible"]
    IN [year |-> y, business |-> f.m["business"], personal |-> f.m["personal"],
        nondeductible |-> f.m["nondeductible"], share |-> Ratio(f.m["business"], classified),
        months |-> [m \in DOMAIN f.months |->
            [count |-> f.counts[m], business |-> f.months[m], rate |-> RateFor(rates, y, m),
             deduction |-> Deduction(f.months[m], y, rates, m)]],
        deduction |-> SumMonthDeductions(f.months, y, rates), periods |-> RatePeriods(rates, y, months),
        count |-> f.count, vehicles |-> vehicles,
        caveats |-> [gap |-> f.marks["gap"], low |-> f.marks["low"], manual |-> f.marks["manual"],
                     noPurpose |-> f.blank, unclassified |-> f.unclassified,
                     noRate |-> RateFor(rates, y, Min(months)) = Null]]

(***************************************************************************)
(* One vehicle: its trips, then its expenses, then its readings, by time   *)
(***************************************************************************)
NewGroup(v) ==
    [vehicle |-> v, fold |-> NewFold, file |-> <<>>, shared |-> 0, fully |-> 0, spent |-> FALSE,
     anchor |-> {}, last |-> {}, ended |-> {}, invalid |-> FALSE,
     first |-> {}, previous |-> {}, count |-> 0, delta |-> 0, detected |-> 0, ahead |-> 1]

GroupTrip(g, t, o) ==
    [g EXCEPT !.fold = FoldAdd(@, t, o.days),
              !.file = IF FoldTakes(t, o.days) /\ o.annual /\ g.vehicle # Null THEN Append(@, t) ELSE @]

GroupExpense(g, e) ==
    [g EXCEPT !.spent = TRUE,
              !.fully = @ + IF e.treatment = "fully" THEN e.cents ELSE 0,
              !.shared = @ + IF e.treatment = "shared" THEN e.cents ELSE 0]

(* The readings around the year: the last one before it, the first one after it *)
Anchor(g, r, y) ==
    CASE g.ended # {} -> g
      [] g.ended = {} /\ r.at <= Midnight(MonthStart(y, 1)) ->
            [g EXCEPT !.anchor = {r}, !.last = {r}, !.invalid = FALSE]
      [] OTHER ->
            [g EXCEPT !.invalid = @ \/ \E s \in g.last : r.m <= s.m,
                      !.last = IF g.anchor # {} THEN {r} ELSE @,
                      !.ended = IF r.at >= Midnight(MonthStart(y + 1, 1)) THEN {r} ELSE @]

(* The trips of the interval that ends at r: the file is read once, forward *)
Interval(g, r) ==
    LET passed == {i \in g.ahead..Len(g.file) : \A j \in g.ahead..i : g.file[j].at < r.at}
        inside == {i \in passed : \A s \in g.previous : s.at <= g.file[i].at}
        detected == MapThenSumSet(LAMBDA i : g.file[i].m, inside)
        delta == r.m - (CHOOSE s \in g.previous : TRUE).m
    IN [g EXCEPT !.ahead = @ + Cardinality(passed),
                 !.delta = @ + IF delta > 0 THEN delta ELSE 0,
                 !.detected = @ + IF delta > 0 THEN detected ELSE 0]

Reading(g, r, y) ==
    LET anchored == Anchor(g, r, y)
        through == IF g.previous = {} THEN anchored ELSE Interval(anchored, r)
    IN IF r.at < Midnight(MonthStart(y, 1)) \/ r.at > Midnight(MonthStart(y + 1, 1)) THEN anchored
       ELSE [through EXCEPT !.count = @ + 1, !.previous = {r}, !.first = IF @ = {} THEN {r} ELSE @]

GroupCoverage(g, y) ==
    LET first == CHOOSE r \in g.first : TRUE
        last == CHOOSE r \in g.previous : TRUE
    IN [from |-> first.at, to |-> last.at, coverage |-> Ratio(g.detected, g.delta),
        gap |-> g.delta - g.detected,
        full |-> first.at <= Midnight(MonthStart(y, 1)) /\ last.at >= Midnight(MonthStart(y + 1, 1))]

GroupComparison(g, rates, y) ==
    LET business == g.fold.m["business"]
        bracketed == g.anchor # {} /\ g.ended # {}
        delta == (CHOOSE r \in g.ended : TRUE).m - (CHOOSE r \in g.anchor : TRUE).m
        trusted == bracketed /\ ~g.invalid /\ delta >= business /\ delta > 0
        whole == IF trusted THEN delta ELSE g.fold.gps
        priced == {m \in DOMAIN g.fold.months : Deduction(g.fold.months[m], y, rates, m) # Null}
        standard == IF priced # {} \/ business = 0
                    THEN Sum([m \in priced |-> Deduction(g.fold.months[m], y, rates, m)]) + g.fully ELSE Null
        actual == IF whole > 0 THEN Money(g.shared * business + g.fully * whole, whole) ELSE Null
    IN [business |-> business, denominator |-> whole, source |-> IF trusted THEN "odometer" ELSE "gps",
        invalid |-> bracketed /\ ~trusted, share |-> Ratio(business, whole),
        shared |-> g.shared, fully |-> g.fully,
        estimates |-> [standard |-> standard, actual |-> actual,
            larger |-> CASE Null \in {standard, actual} -> "none"
                         [] standard # Null /\ standard = actual -> "tie"
                         [] OTHER -> IF actual > standard THEN "actual" ELSE "standard"]]

(* The group ends: what it adds to the report's lines *)
EndGroup(s, g, rates, o) ==
    LET y == YearOf(Min(o.days))
        f == g.fold
        line == [business |-> Sum(f.months), personal |-> f.m["personal"], nondeductible |-> f.m["nondeductible"],
                 total |-> Sum(f.months) + f.m["personal"] + f.m["nondeductible"],
                 deduction |-> SumMonthDeductions(f.months, y, rates)]
        yearly == o.annual /\ g.vehicle # Null
        plus(h, holds, x) == IF holds THEN (g.vehicle :> x) @@ h ELSE h
    IN [s EXCEPT !.vehicles = plus(@, f.included, line),
                 !.coverage = plus(@, yearly /\ g.count >= 2 /\ g.delta > 0, GroupCoverage(g, y)),
                 !.comparisons = plus(@, yearly /\ (f.present \/ g.spent), GroupComparison(g, rates, y)),
                 !.shared = @ + g.shared, !.fully = @ + g.fully]

(***************************************************************************)
(* What the server sends, read under the snapshot                          *)
(***************************************************************************)
NotASnapshot == books  \* mutant: each query reads what is committed by then

Source == snap

InOrder(rows) == SetToSortSeq(rows, LAMBDA a, b : a.at < b.at)
TripRows(o) == InOrder(OnDays(Source.trips, o.days))
ExpenseRows(o) ==
    SetToSortSeq({e \in Source.expenses : o.annual /\ e.day \in o.days},
                 LAMBDA a, b : a.day < b.day \/ (a.day = b.day /\ a.id < b.id))

Event(kind, rows) == [i \in DOMAIN rows |-> [kind |-> kind, row |-> <<rows[i]>>]]
GroupEvents(o, v) ==
    LET of(rows) == SelectSeq(rows, LAMBDA r : r.vehicle = v)
        body == Event("trip", of(TripRows(o))) \o Event("expense", of(ExpenseRows(o)))
                    \o Event("reading", of(IF o.annual THEN InOrder(Source.readings) ELSE <<>>))
    IN IF body = <<>> THEN <<>>
       ELSE <<[kind |-> "start", row |-> <<v>>]>> \o body \o <<[kind |-> "end", row |-> <<v>>]>>

Vehicles == {r.vehicle : r \in Source.trips \cup Source.expenses \cup Source.readings}
Groups(o) == FlattenSeq([i \in 1..Cardinality(Vehicles) |->
    GroupEvents(o, SetToSortSeq(Vehicles, <)[i])])

(***************************************************************************)
(* A report is made                                                        *)
(***************************************************************************)
NoSums == [vehicles |-> <<>>, coverage |-> <<>>, comparisons |-> <<>>, categories |-> <<>>,
           shared |-> 0, fully |-> 0]

FiguresInit ==
    /\ books \in Accounts
    /\ bound = TRUE /\ changes = 0
    /\ stage = "idle" /\ order = <<>> /\ sent = 0
    /\ snap = books /\ prices = <<>>
    /\ total = NewFold /\ group = NewGroup(Null) /\ sums = NoSums /\ shown = <<>>

Ask(o) ==
    /\ stage = "idle"
    /\ stage' = "asked" /\ order' = <<o>>
    /\ UNCHANGED <<books, bound, changes, snap, sent, prices, shown, helperVars>>

(* The snapshot is taken, the binding checked, the rates sent *)
PrepareReport ==
    /\ stage = "asked"
    /\ snap' = books
    /\ stage' = IF bound THEN "trips" ELSE "refused"
    /\ prices' = IF bound THEN LatestRate(books.rates, YearOf(Min(order[1].days))) ELSE prices
    /\ UNCHANGED <<books, bound, changes, order, sent, shown, helperVars>>

(* One row of a stage, or the end of its rows *)
Row(here, rows, after) ==
    /\ stage = here
    /\ stage' = IF sent < Len(rows) THEN here ELSE after
    /\ sent' = IF sent < Len(rows) THEN sent + 1 ELSE 0
    /\ UNCHANGED <<books, bound, changes, order, snap, prices, shown>>

GlobalTrip ==
    LET rows == TripRows(order[1])
    IN /\ Row("trips", rows, "groups")
       /\ total' = IF sent < Len(rows) THEN FoldAdd(total, rows[sent + 1], order[1].days) ELSE total
       /\ UNCHANGED <<group, sums>>

GroupRow(g, event, o) ==
    CASE event.kind = "start" -> NewGroup(event.row[1])
      [] event.kind = "trip" -> GroupTrip(g, event.row[1], o)
      [] event.kind = "expense" -> GroupExpense(g, event.row[1])
      [] event.kind = "reading" -> Reading(g, event.row[1], YearOf(Min(o.days)))
      [] event.kind = "end" -> g

VehicleRow ==
    LET rows == Groups(order[1])
        event == rows[sent + 1]
    IN /\ Row("groups", rows, "expenses")
       /\ group' = IF sent < Len(rows) THEN GroupRow(group, event, order[1]) ELSE group
       /\ sums' = IF sent < Len(rows) /\ event.kind = "end" THEN EndGroup(sums, group, prices, order[1]) ELSE sums
       /\ UNCHANGED total

ExpenseRow ==
    LET rows == ExpenseRows(order[1])
    IN /\ Row("expenses", rows, "sent")
       /\ sums' = IF sent < Len(rows)
                  THEN [sums EXCEPT !.categories = Add(@, rows[sent + 1].category, rows[sent + 1].cents)]
                  ELSE sums
       /\ UNCHANGED <<total, group>>

Render ==
    /\ stage = "sent"
    /\ stage' = "rendered"
    /\ shown' = [report |-> FoldReport(total, prices, order[1].days, sums.vehicles),
                 coverage |-> sums.coverage, comparisons |-> sums.comparisons, categories |-> sums.categories,
                 shared |-> sums.shared, fully |-> sums.fully, ledger |-> sums.shared + sums.fully]
    /\ UNCHANGED <<books, bound, changes, order, snap, sent, prices, helperVars>>

(***************************************************************************)
(* Meanwhile                                                               *)
(***************************************************************************)
OwnerEdits ==
    /\ stage \notin {"idle", "rendered", "refused"} /\ changes < MaxChanges
    /\ books' \in Edits(books)
    /\ changes' = changes + 1
    /\ UNCHANGED <<bound, stage, order, snap, sent, prices, shown, helperVars>>

(* The account is disabled, or its sessions are ended *)
Unbind ==
    /\ stage = "asked" /\ bound
    /\ bound' = FALSE
    /\ UNCHANGED <<books, changes, stage, order, snap, sent, prices, shown, helperVars>>

FiguresNext ==
    \/ \E o \in Orders : Ask(o)
    \/ PrepareReport \/ GlobalTrip \/ VehicleRow \/ ExpenseRow \/ Render
    \/ OwnerEdits \/ Unbind

(***************************************************************************)
(* Properties                                                              *)
(***************************************************************************)

(* A report that is delivered shows, in every figure, the account as it was at one moment *)
(* after it was asked for, and as the plain computation over all its rows has it: the     *)
(* folds of the helper, the forward-only reading of the trips between two readings, the   *)
(* one row of rates and the edits of the meantime make no difference                      *)
PagesShowTheAccount ==
    stage = "rendered" =>
        LET y == YearOf(Min(order[1].days))
            e == ExpenseReport(snap.trips, snap.expenses, snap.readings, snap.rates, y)
            yearly == order[1].annual
        IN /\ shown.report = RangeReport(snap.trips, snap.rates, order[1].days)
           /\ yearly => /\ shown.coverage = Coverage(snap.trips, snap.readings, y)
                        /\ shown.comparisons = e.comparisons /\ shown.categories = e.categories
                        /\ shown.shared = e.shared /\ shown.fully = e.fully /\ shown.ledger = e.ledger
           /\ ~yearly => shown.ledger = 0 /\ shown.coverage = <<>>

(* Whatever an account holds, what its pages, files and messages say of a year agrees,    *)
(* though each folds the rows with code of its own: report, quarters, months, vehicles,   *)
(* week, archive, Stats, digest, workbook, ledger and comparison                          *)
FiguresAgree ==
    stage = "asked" /\ order[1].annual /\ bound => \A today \in Todays :
        LET y == YearOf(Min(order[1].days))
        IN /\ PartsMakeTheReport(books, y) /\ PagesAgreeWithReport(books, y)
           /\ StatsAgreeWithReport(books, y, today)
           /\ WeeksAgree(books, y, today)
           /\ ExpensesAgree(books, y, today)

(* Both hold: a report is what the account was, and the figures of an account agree *)
ReportsAgree == PagesShowTheAccount /\ FiguresAgree
=============================================================================
