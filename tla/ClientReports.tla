----------------------------- MODULE ClientReports -----------------------------
(***************************************************************************)
(* The figures of the reports page (utils/reportHelpers.js, for the demo   *)
(* build's report in demo/handlers.js) beside the registry's purchase      *)
(* totals (utils/procurementIdentity.js), over licenses edited in the      *)
(* demo.                                                                   *)
(*                                                                         *)
(* The same licenses are added up in many ways: by line, by purchase order *)
(* with a manual total in place of its lines, by the part of a term a      *)
(* range covers, by year, by supported license, by fiscal quarter.  A year *)
(* has twelve days here, one to each month; an amount is quantity times    *)
(* price in the smallest unit of money.  A license's publisher, supplier   *)
(* and department only split a sum and are left out, as are renewals and   *)
(* links to support records, which other modules change.                   *)
(***************************************************************************)
EXTENDS Integers, FiniteSets, Sequences, FiniteSetsExt

CONSTANTS
    Portfolios,   \* the licenses to start from: functions from ids to lines
    None,         \* an empty field
    Amounts,      \* amounts to enter
    Days,         \* days to enter
    Today, NotificationDays,
    FiscalMonths, \* months a fiscal year may begin with
    MaxEdits      \* bound: edits of licenses

YearDays == 12
OneYearMax == 13  \* MAX_ONE_YEAR_TERM_DAYS: an anniversary-inclusive year

VARIABLES
    lines,        \* [id -> license]
    filters,      \* of the page: [retired, range]
    edits

vars == <<lines, filters, edits>>

-----------------------------------------------------------------------------
(* What a license is worth *)

Currencies == {"EUR", "USD"}

(* [amount, known]; sums pass over an amount that is not known.              *)
Value(amount) == IF amount = None THEN [amount |-> 0, known |-> FALSE]
                                  ELSE [amount |-> amount, known |-> TRUE]

SupportIsIncluded(l) == l.type \in {"freeware", "perpetual"} /\ l.coverage = "included"

(* getLicenseLineValue: a free license is worth the support paid with it.   *)
LineValue(l) ==
    IF l.type # "freeware" THEN Value(l.price)
    ELSE Value(IF l.coverage = "included" /\ l.cost # None THEN l.cost ELSE 0)

RecurringValue(l) == IF SupportIsIncluded(l) THEN Value(l.cost) ELSE LineValue(l)

isRecurringLicense(l) ==
    \/ l.type \in {"subscription", "maintenance"}
    \/ l.type = "service" /\ l.renewable
    \/ SupportIsIncluded(l) /\ Value(l.cost).amount > 0

(* The days of a term; none when an end is open or before the start.        *)
Period(from, to) == IF None \in {from, to} THEN {} ELSE from..to
Term(l) == IF SupportIsIncluded(l) THEN Period(l.from, l.to) ELSE Period(l.start, l.end)

Abs(n) == IF n < 0 THEN -n ELSE n
Rounded(n, d) == (2 * n + d) \div (2 * d)

Annualized(amount, term) ==
    IF Cardinality(term) > OneYearMax THEN Rounded(amount * YearDays, Cardinality(term)) ELSE amount

Annual(l) == Annualized(RecurringValue(l).amount, Term(l))

(* No range is chosen: amounts are not cut to the days of one.              *)
AllTerms == {}

(* The share of an amount that falls in a range; all of it without a term.  *)
Share(amount, term, range) ==
    IF range = AllTerms \/ term = {} THEN amount
    ELSE Rounded(amount * Cardinality(term \cap range), Cardinality(term))

(* getReportLicenseValue, of publishers and vendors: included support       *)
(* replaces the purchase when a range is chosen.                            *)
ReportAmount(l, range) ==
    IF range # AllTerms /\ isRecurringLicense(l)
    THEN Share(RecurringValue(l).amount, Term(l), range) ELSE LineValue(l).amount

(* Of the overview and the purchase orders, where it does not.              *)
SpendAmount(l, range) ==
    IF range # AllTerms /\ isRecurringLicense(l)
    THEN Share(LineValue(l).amount, Term(l), range) ELSE LineValue(l).amount

(* computeExpirationStatus *)
Status(l) ==
    CASE l.retired -> "retired"
      [] ~l.retired /\ l.start # None /\ l.start > Today -> "upcoming"
      [] OTHER -> IF l.end = None
                  THEN IF l.type \in {"freeware", "perpetual"} THEN "perpetual" ELSE "active"
                  ELSE IF l.end < Today THEN "expired"
                  ELSE IF l.end <= Today + NotificationDays THEN "expiring" ELSE "active"

-----------------------------------------------------------------------------
(* The filters *)

StartOfYear == (Today \div YearDays) * YearDays

(* resolveReportDateRange: all terms, this year, the last twelve months, or *)
(* from one day to a later one.                                             *)
Ranges == {AllTerms, StartOfYear..(StartOfYear + YearDays - 1), (Today - YearDays)..Today}
          \cup {range \in {Period(from, to) : from, to \in Days} : Cardinality(range) > 1}
Chosen == filters.range

licenseOverlapsReportRange(l, range) ==
    CASE l.start # None /\ l.end # None -> Period(l.start, l.end) \cap range # {}
      [] l.start # None /\ l.end = None -> l.start <= Max(range)
      [] l.start = None /\ l.end # None -> l.end >= Min(range)
      [] OTHER -> TRUE

(* filterLicenses *)
Filtered ==
    {i \in DOMAIN lines :
        /\ lines[i].retired => filters.retired
        /\ Chosen # AllTerms => licenseOverlapsReportRange(lines[i], Chosen)}

-----------------------------------------------------------------------------
(* The figures *)

Sum(S, f(_)) == SumFunctionOnSet([i \in S |-> f(i)], S)
In(cur) == {i \in Filtered : lines[i].cur = cur}

(* getSpendByPublisher, getVendorTable, over all of their rows              *)
PublisherSpend(cur) == Sum(In(cur), LAMBDA i : ReportAmount(lines[i], Chosen))

(* getLifecycleBudget: lines upcoming or retired are passed over.           *)
Budgeted == {"active", "expiring", "expired"}
BudgetStatus(l) == IF Status(l) = "perpetual" THEN "active" ELSE Status(l)
Budget(cur) ==
    [status \in Budgeted |->
        Sum({i \in In(cur) : BudgetStatus(lines[i]) = status}, LAMBDA i : ReportAmount(lines[i], Chosen))]

(* getSpendComparison *)
Counted(cur) == {i \in In(cur) : lines[i].type = "freeware" => lines[i].coverage = "included"}
LineTotal(S) == Sum(S, LAMBDA i : SpendAmount(lines[i], Chosen))
Unkeyed(cur) == {i \in Counted(cur) : lines[i].po = None}
Orders(cur) == {{j \in Counted(cur) : lines[j].po = lines[i].po} : i \in Counted(cur) \ Unkeyed(cur)}

(* A manual total on one line stands for all of them.                       *)
Overrides(S) == {i \in S : lines[i].override # None}
Override(S) == lines[Min(Overrides(S))].override
PoTotal(S) == IF Overrides(S) # {} THEN Override(S) ELSE LineTotal(S)

LicenseSpend(cur) == LineTotal(Counted(cur))
PoSpend(cur) == LineTotal(Unkeyed(cur)) + Sum(Orders(cur), PoTotal)

(* getPurchaseOrderReport: lines without a number make a row as well.       *)
PoRows(cur) == Orders(cur) \cup ({Unkeyed(cur)} \ {{}})
PoReportTotal(cur) == Sum(PoRows(cur), PoTotal)

(* isForecastActive, getRecurringRecords *)
ForecastActive(cur) ==
    {i \in In(cur) : /\ Status(lines[i]) \in {"active", "perpetual", "expiring"}
                     /\ isRecurringLicense(lines[i])}

(* isCurrentMaintenanceCoverage: the last day, read as its midnight, is     *)
(* over.                                                                    *)
SupportIsCurrent(l) == (l.from = None \/ l.from <= Today) /\ (l.to = None \/ l.to > Today)

RecurringRecords(cur) ==
    {i \in ForecastActive(cur) : SupportIsIncluded(lines[i]) => SupportIsCurrent(lines[i])}

(* getBudgetForecast *)
Baseline(cur) == Sum(RecurringRecords(cur), LAMBDA i : Annual(lines[i]))

(* getCostOverview *)
RecurringCost(cur) ==
    Sum(ForecastActive(cur), LAMBDA i :
        IF Chosen = AllTerms THEN Annual(lines[i])
        ELSE Share(RecurringValue(lines[i]).amount, Term(lines[i]), Chosen))

(* getPerpetualMaintenanceReport *)
Perpetual == {p \in Filtered : lines[p].type = "perpetual"}
RecordValue(m) == IF lines[m].cost # None THEN Value(lines[m].cost) ELSE Value(lines[m].price)
LinkedRecords(p, cur) ==
    {m \in In(cur) : lines[m].type = "maintenance" /\ (p \in lines[m].parents \/ m \in lines[p].linked)}
HasSupport(p, cur) ==
    IF lines[p].coverage = "included" THEN lines[p].cost # None /\ lines[p].cur = cur
                                      ELSE \E m \in LinkedRecords(p, cur) : RecordValue(m).known

(* A row with records linked is worth those that no row before counted.     *)
BadSupportTotal(cur) ==
    LET rows == {p \in Perpetual : HasSupport(p, cur)}
    IN Sum(rows, LAMBDA p : IF LinkedRecords(p, cur) = {} THEN lines[p].cost
                            ELSE Sum(LinkedRecords(p, cur), LAMBDA m : RecordValue(m).amount))
SupportTotal(cur) ==
    LET rows == {p \in Perpetual : HasSupport(p, cur)}
    IN Sum({p \in rows : LinkedRecords(p, cur) = {}}, LAMBDA p : lines[p].cost)
       + Sum(UNION {LinkedRecords(p, cur) : p \in rows}, LAMBDA m : RecordValue(m).amount)

(* getRenewalCalendar: the first of four quarters is the fiscal year's      *)
(* current one.                                                             *)
QuarterIndex(fiscal) == (((Today % YearDays) + YearDays + 1 - fiscal) % YearDays) \div 3
Quarter(fiscal, n) ==
    LET month == (fiscal - 1 + QuarterIndex(fiscal) * 3) % YearDays
        year == IF month > Today % YearDays THEN Today \div YearDays - 1 ELSE Today \div YearDays
        first == year * YearDays + month + n * 3
    IN first..(first + 2)
FiscalQuarter(fiscal, n) == ((QuarterIndex(fiscal) + n) % 4) + 1
Ending(fiscal, n) ==
    {i \in Filtered :
        /\ lines[i].end # None /\ Status(lines[i]) \in {"active", "expiring"}
        /\ lines[i].end \in Quarter(fiscal, n)
        /\ \A m \in 0..(n - 1) : lines[i].end \notin Quarter(fiscal, m)}

(* procurementIdentityKey; an order is a pending order or a bundle.         *)
Identity(i) ==
    LET l == lines[i]
    IN CASE l.order # None -> <<"pending-order", l.order, l.cur>>
         [] l.order = None /\ l.po # None -> <<"po", l.po, l.cur>>
         [] OTHER -> <<"unkeyed", i, l.cur>>
Purchase(i) == {j \in DOMAIN lines : Identity(j) = Identity(i)}

(* getProcurementBreakdown, of the registry's rows: without a range.        *)
RegistryTotal(i) ==
    LET S == {j \in Purchase(i) : ~lines[j].retired}
    IN IF Overrides(S) # {} THEN Override(S) ELSE Sum(S, LAMBDA j : Value(lines[j].price).amount)

-----------------------------------------------------------------------------
(* Edits of a license in the demo *)

(* normaliseLicenseTypeFields on a change of type, then decorateLicense:    *)
(* support bundled with a subscription follows its term and amount.         *)
OfType(l, type) ==
    [l EXCEPT !.type = type,
              !.price = IF type = "freeware" THEN None ELSE @,
              !.end = IF type \in {"freeware", "perpetual"} THEN None ELSE @]
Decorated(l) ==
    IF l.type # "subscription" \/ l.coverage # "included" THEN l
    ELSE [l EXCEPT !.from = l.start, !.to = l.end,
                   !.cost = IF l.price = None THEN @ ELSE l.price]

Save(i, l) ==
    /\ edits < MaxEdits /\ l # lines[i]
    /\ lines' = [lines EXCEPT ![i] = Decorated(l)] /\ edits' = edits + 1
    /\ UNCHANGED filters

Empty == {None}

(* PATCH of a field; one that never ends keeps no end.                      *)
PatchPrice(i) == \E price \in Amounts \cup Empty : Save(i, [lines[i] EXCEPT !.price = price])
PatchStart(i) == \E day \in Days \cup Empty : Save(i, [lines[i] EXCEPT !.start = day])
PatchEnd(i) ==
    /\ lines[i].type \notin {"freeware", "perpetual"}
    /\ \E day \in Days \cup Empty : Save(i, [lines[i] EXCEPT !.end = day])
PatchCurrency(i) == \E cur \in Currencies : Save(i, [lines[i] EXCEPT !.cur = cur])
PatchPoNumber(i) == \E po \in {"A", "B"} \cup Empty : Save(i, [lines[i] EXCEPT !.po = po])
PatchType(i) ==
    \E type \in {"freeware", "perpetual", "subscription"} : Save(i, OfType(lines[i], type))

(* assertCoverageChangeAllowed, recordIncludedSupportExit                   *)
PatchCoverage(i) ==
    \E coverage \in {"included", "separately_tracked", "unknown"} :
        LET l == [lines[i] EXCEPT !.coverage = coverage]
            leaves == lines[i].coverage = "included" /\ coverage # "included" /\ ~lines[i].active
        IN /\ lines[i].active => coverage = "separately_tracked"
           /\ coverage = "separately_tracked" => lines[i].type \in {"freeware", "perpetual"}
           /\ Save(i, IF leaves THEN [l EXCEPT !.from = None, !.to = None, !.cost = None] ELSE l)

(* applyIncludedSupportUpdate *)
EditIncludedSupport(i) ==
    /\ SupportIsIncluded(lines[i]) /\ ~lines[i].active
    /\ \E cost \in Amounts \cup Empty, from, to \in Days \cup Empty :
        /\ None \notin {from, to} => from <= to
        /\ Save(i, [lines[i] EXCEPT !.cost = cost, !.from = from, !.to = to])

(* normalizeRetirementUpdate: one that still runs is only scheduled.        *)
Retire(i) ==
    \E retired \in BOOLEAN :
        /\ retired /\ lines[i].end # None => lines[i].end < Today
        /\ Save(i, [lines[i] EXCEPT !.retired = retired])

(* The manual total of a purchase is on each of its lines; it needs a PO    *)
(* number.                                                                  *)
SetPoTotal(i) ==
    /\ lines[i].po # None /\ edits < MaxEdits
    /\ \E total \in Amounts \cup Empty :
        lines' = [j \in DOMAIN lines |->
                    IF j \in Purchase(i) THEN Decorated([lines[j] EXCEPT !.override = total])
                    ELSE lines[j]]
    /\ edits' = edits + 1 /\ UNCHANGED filters

(* The page's filters; a range that ends before it begins is not sent.      *)
SetFilters ==
    /\ \E retired \in BOOLEAN, range \in Ranges :
        filters' = [retired |-> retired, range |-> range]
    /\ UNCHANGED <<lines, edits>>

-----------------------------------------------------------------------------
Init ==
    /\ lines \in Portfolios
    /\ filters = [retired |-> FALSE, range |-> AllTerms]
    /\ edits = 0

Next ==
    \/ \E i \in DOMAIN lines :
        \/ PatchPrice(i) \/ PatchStart(i) \/ PatchEnd(i) \/ PatchCurrency(i) \/ PatchPoNumber(i)
        \/ PatchType(i) \/ PatchCoverage(i) \/ EditIncludedSupport(i) \/ Retire(i) \/ SetPoTotal(i)
    \/ SetFilters

Spec == Init /\ [][Next]_vars

-----------------------------------------------------------------------------
(* Properties.                                                              *)

TypeOK ==
    /\ filters \in [retired : BOOLEAN, range : Ranges] /\ edits \in 0..MaxEdits
    /\ \A i \in DOMAIN lines :
        /\ lines[i].cur \in Currencies /\ (lines[i].active => lines[i].linked # {})
        /\ lines[i].type \in {"freeware", "perpetual"} => lines[i].end = None

(* Publishers and the overview spend the same over all terms.  The budget   *)
(* by status is what publishers spend when every line in sight has begun    *)
(* and none is retired; over a range, its part in force is the recurring    *)
(* cost of the overview, when the lines in force all recur.  Purchase       *)
(* orders of the report and of the overview spend the same in any range,    *)
(* unless a line kept the manual total of a purchase order it no longer     *)
(* names.                                                                   *)
SpendAgrees ==
    \A cur \in Currencies :
        /\ Chosen = AllTerms => PublisherSpend(cur) = LicenseSpend(cur)
        /\ (\A i \in In(cur) : Status(lines[i]) \notin {"upcoming", "retired"})
           => PublisherSpend(cur) = Sum(Budgeted, LAMBDA s : Budget(cur)[s])
        /\ (Chosen # AllTerms /\ \A i \in In(cur) :
                BudgetStatus(lines[i]) \in {"active", "expiring"} => isRecurringLicense(lines[i]))
           => RecurringCost(cur) = Budget(cur)["active"] + Budget(cur)["expiring"]
        /\ Overrides(Unkeyed(cur)) = {} => PoReportTotal(cur) = PoSpend(cur)

(* The registry shows for a purchase what its row of the report says, when  *)
(* all of the row's lines are of that purchase, in sight and not free.      *)
RegistryAgrees ==
    \A cur \in Currencies : \A row \in Orders(cur) : \A i \in row :
        (Chosen = AllTerms /\ Purchase(i) = row /\ \A j \in row : ~lines[j].retired /\ lines[j].type # "freeware")
        => RegistryTotal(i) = PoTotal(row)

(* Recorded support counts once, however many licenses share a record,      *)
(* unless included support was entered over a record still linked.          *)
SupportCountsOnce ==
    \A cur \in Currencies :
        LET included == {p \in Perpetual : lines[p].coverage = "included"}
        IN (\A p \in included : LinkedRecords(p, cur) = {}) =>
            SupportTotal(cur) =
                Sum({p \in included \cap In(cur) : lines[p].cost # None}, LAMBDA p : lines[p].cost)
                + Sum({m \in In(cur) : \E p \in Perpetual \ included : m \in LinkedRecords(p, cur)},
                      LAMBDA m : RecordValue(m).amount)

(* The forecast starts from the recurring cost of the overview, when no     *)
(* license in force has included support that is over or to come.           *)
BaselineIsRecurringCost ==
    \A cur \in Currencies :
        (Chosen = AllTerms /\ \A i \in ForecastActive(cur) :
                             SupportIsIncluded(lines[i]) => SupportIsCurrent(lines[i]))
        => Baseline(cur) = RecurringCost(cur)

(* A term's shares of the years it covers add up to its amount, up to half  *)
(* a unit for each rounded share.                                           *)
SharesAddUp ==
    \A i \in DOMAIN lines :
        LET l == lines[i]
            years == {d \div YearDays : d \in Term(l)}
            total == Sum(years, LAMBDA y :
                         ReportAmount(l, (y * YearDays)..(y * YearDays + YearDays - 1)))
        IN isRecurringLicense(l) /\ years # {} =>
            2 * Abs(total - RecurringValue(l).amount) <= Cardinality(years)

(* The calendar's quarters begin with the one of today, follow each other   *)
(* without a gap, are named for the fiscal year, and each ending is in one. *)
QuartersTile ==
    \A fiscal \in FiscalMonths :
        LET year == Min(Quarter(fiscal, 0))..(Min(Quarter(fiscal, 0)) + YearDays - 1)
        IN /\ Today \in Quarter(fiscal, 0)
           /\ UNION {Quarter(fiscal, n) : n \in 0..3} = year
           /\ \A n \in 0..3 : FiscalQuarter(fiscal, n) = 1 <=>
                               Min(Quarter(fiscal, n)) % YearDays = fiscal - 1
           /\ Sum(0..3, LAMBDA n : Cardinality(Ending(fiscal, n))) =
              Cardinality({i \in Filtered : /\ lines[i].end \in year
                                            /\ Status(lines[i]) \in {"active", "expiring"}})

FiguresAgree ==
    /\ SpendAgrees /\ RegistryAgrees /\ SupportCountsOnce /\ BaselineIsRecurringCost
    /\ SharesAddUp /\ QuartersTile

=============================================================================
