--------------------------- MODULE PageSummaries ---------------------------
(***************************************************************************)
(* What the Pages reports read from the prepared facts: summaries by       *)
(* product area, page rule and displayed page, distinct counts, the        *)
(* denominators of penetration, daily rows, period-to-date series and      *)
(* flows (apps/pages/queries.py:61-226 and 1037-2760), and the figures     *)
(* apps/pages/services.py makes of them.  Every query has a form for all   *)
(* companies (cohort = Everyone) and one for a set of companies, which     *)
(* takes its measures from the company table instead of the page table.    *)
(*                                                                         *)
(* Names, identifiers and the order of rows are left out.                  *)
(***************************************************************************)
EXTENDS PageFacts

CONSTANTS
    PageName,       \* the name a page rule gives; for no rule, None
    Grains,         \* a subset of {"area", "page", "display"}
    Everyone,       \* no company filter
    Companies

\* The key of a URL is never that of a rule (queries.py:2551), and the company of a
\* session is no filter of its own.
ASSUME SummariesAssumption ==
    /\ Grains \subseteq {"area", "page", "display"}
    /\ None \notin Companies /\ \A C \in SUBSET Companies : C # Everyone
    /\ \A s \in Sessions : Identity[s].company \in Companies \cup {None}
    /\ \A p, q \in Pages : p.url = q.rule => p.url = None

Cohorts == {Everyone} \cup SUBSET Companies

Within(rows, from, to) == {r \in rows : from <= r.date /\ r.date <= to}

\* AND company_id = ANY(cohort)
OfCohort(rows, cohort) == IF cohort = Everyone THEN rows ELSE {r \in rows : r.company \in cohort}

\* What a row is grouped by.  A page without a rule shows the name of its area.
RowKey(grain, r) ==
    CASE grain = "area"    -> <<r.area>>
      [] grain = "page"    -> <<r.area, r.rule>>
      [] grain = "display" -> <<r.area, IF r.rule = None THEN r.area ELSE PageName[r.rule]>>

\* Mutant of MeasureRows: a filter that selects nobody is no filter.
MeasureRowsOfSome(from, to, cohort) ==
    IF cohort \in {Everyone, {}} THEN Within(tables.pages, from, to)
    ELSE OfCohort(Within(tables.companies, from, to), cohort)

\* The page table has no company: a filtered query reads the company table.
MeasureRows(from, to, cohort) ==
    IF cohort = Everyone THEN Within(tables.pages, from, to)
    ELSE OfCohort(Within(tables.companies, from, to), cohort)

CompanyRows(from, to, cohort) == OfCohort(Within(tables.companies, from, to), cohort)

UserRows(from, to, cohort) == OfCohort(Within(tables.users, from, to), cohort)

OfKey(grain, rows, key) == {r \in rows : RowKey(grain, r) = key}

Summary(grain, from, to, cohort) ==
    LET measures == MeasureRows(from, to, cohort)
    IN  [key \in {RowKey(grain, r) : r \in measures} |->
            LET rows == OfKey(grain, measures, key)
            IN  [visits    |-> Total(rows, LAMBDA r : r.visits),
                 engaged   |-> Total(rows, LAMBDA r : r.engaged),
                 clicks    |-> Total(rows, LAMBDA r : r.clicks),
                 clicked   |-> Total(rows, LAMBDA r : r.clicked),
                 companies |-> CountOf(OfKey(grain, CompanyRows(from, to, cohort), key),
                                       LAMBDA r : r.company),
                 users     |-> CountOf(OfKey(grain, UserRows(from, to, cohort), key),
                                       LAMBDA r : r.user)]]

AreaSummary(from, to, cohort) == Summary("area", from, to, cohort)
PageSummary(from, to, cohort) == Summary("page", from, to, cohort)
DisplaySummary(from, to, cohort) == Summary("display", from, to, cohort)

SummaryOf(grain, from, to, cohort) ==
    CASE grain = "area"    -> AreaSummary(from, to, cohort)
      [] grain = "page"    -> PageSummary(from, to, cohort)
      [] grain = "display" -> DisplaySummary(from, to, cohort)

DistinctCounts(from, to, cohort) ==
    [companies |-> CountOf(CompanyRows(from, to, cohort), LAMBDA r : r.company),
     users     |-> CountOf(UserRows(from, to, cohort), LAMBDA r : r.user)]

----------------------------------------------------------------------------
(* Penetration: users of the row over the users its companies could have.  *)
(* For an area those are all active users of the companies that adopted it,*)
(* for a page the users these companies have on that page.                 *)

AdoptingCompanies(grain, key, from, to, cohort) ==
    {r.company : r \in OfKey(grain, CompanyRows(from, to, cohort), key)}

AreaDenominator(key, from, to, cohort) ==
    Cardinality({u.user : u \in {w \in Within(tables.users, from, to) :
                                    w.company \in AdoptingCompanies("area", key, from, to, cohort)}})

PageDenominator(key, from, to, cohort) ==
    Cardinality({u.user : u \in {w \in OfKey("page", Within(tables.users, from, to), key) :
                                    w.company \in AdoptingCompanies("page", key, from, to, cohort)}})

DisplayDenominator(key, from, to, cohort) ==
    Cardinality({u.user : u \in {w \in OfKey("display", Within(tables.users, from, to), key) :
                                    w.company \in AdoptingCompanies("display", key, from, to, cohort)}})

DenominatorOf(grain, key, from, to, cohort) ==
    CASE grain = "area"    -> AreaDenominator(key, from, to, cohort)
      [] grain = "page"    -> PageDenominator(key, from, to, cohort)
      [] grain = "display" -> DisplayDenominator(key, from, to, cohort)

----------------------------------------------------------------------------
(* Daily rows, with the project's active companies and users of the day.   *)

\* A cohort has its own daily actives: the project's would be too many.
CohortDaily(d, cohort) ==
    LET companies == CompanyRows(d, d, cohort)
    IN  IF companies = {} THEN [companies |-> 0, users |-> 0]
        ELSE [companies |-> CountOf(companies, LAMBDA r : r.company),
              users     |-> CountOf(UserRows(d, d, cohort), LAMBDA r : r.user)]

ProjectDay(d) ==
    [companies |-> Total(On(tables.project, d), LAMBDA r : r.companies),
     users     |-> Total(On(tables.project, d), LAMBDA r : r.users)]

DailyActives(d, cohort) == IF cohort = Everyone THEN ProjectDay(d) ELSE CohortDaily(d, cohort)

NoDaily == [visits |-> 0, engaged |-> 0, clicks |-> 0, clicked |-> 0, companies |-> 0, users |-> 0]

\* Mutant of DailyCounts: of all companies.
DailyCountsOfAll(grain, key, d, cohort) ==
    [companies |-> CountOf(OfKey(grain, CompanyRows(d, d, Everyone), key), LAMBDA r : r.company),
     users     |-> CountOf(OfKey(grain, UserRows(d, d, Everyone), key), LAMBDA r : r.user)]

DailyCounts(grain, key, d, cohort) ==
    [companies |-> CountOf(OfKey(grain, CompanyRows(d, d, cohort), key), LAMBDA r : r.company),
     users     |-> CountOf(OfKey(grain, UserRows(d, d, cohort), key), LAMBDA r : r.user)]

\* Pages without a filter read the counts stored with the page instead.
StoredCounts(key, d) ==
    LET rows == OfKey("page", Within(tables.pages, d, d), key)
    IN  [companies |-> Total(rows, LAMBDA r : r.companies), users |-> Total(rows, LAMBDA r : r.users)]

DailyRow(grain, key, d, cohort) ==
    LET rows == OfKey(grain, MeasureRows(d, d, cohort), key)
        counts == IF grain = "page" /\ cohort = Everyone THEN StoredCounts(key, d)
                  ELSE DailyCounts(grain, key, d, cohort)
    IN  IF rows = {} THEN NoDaily
        ELSE [visits    |-> Total(rows, LAMBDA r : r.visits),
              engaged   |-> Total(rows, LAMBDA r : r.engaged),
              clicks    |-> Total(rows, LAMBDA r : r.clicks),
              clicked   |-> Total(rows, LAMBDA r : r.clicked),
              companies |-> counts.companies, users |-> counts.users]

----------------------------------------------------------------------------
(* Period-to-date series: the distinct counts of every day of a period are *)
(* running sums of the identities first seen on each day.                  *)

\* Mutant of FirstSeen: the last day instead of the first.
LastSeen(rows, who) ==
    {r \in rows : ~ \E q \in rows : q[who] = r[who] /\ q.date > r.date}

\* The rows of the first day of each identity.
FirstSeen(rows, who) ==
    {r \in rows : ~ \E q \in rows : q[who] = r[who] /\ q.date < r.date}

\* Identities first seen on day d, one for each identity and key.
CompanyEvents(grain, key, d, from, to, cohort) ==
    LET rows == OfKey(grain, CompanyRows(from, to, cohort), key)
    IN  CountOf({r \in FirstSeen(rows, "company") : r.date = d}, LAMBDA r : r.company)

UserEvents(grain, key, d, from, to, cohort) ==
    LET rows == OfKey(grain, UserRows(from, to, cohort), key)
    IN  CountOf({r \in FirstSeen(rows, "user") : r.date = d}, LAMBDA r : r.user)

ProjectCompanyEvents(d, from, to, cohort) ==
    LET rows == CompanyRows(from, to, cohort)
    IN  CountOf({r \in FirstSeen(rows, "company") : r.date = d}, LAMBDA r : r.company)

\* A user counts for a row from the first day on which the row has a company
\* of theirs and they have been seen with it (on the row itself, for pages).
PenetrationEvents(grain, key, d, from, to, cohort) ==
    LET companies == OfKey(grain, CompanyRows(from, to, cohort), key)
        users     == LET all == {u \in Within(tables.users, from, to) : u.company # None}
                     IN  IF grain = "area" THEN all ELSE OfKey(grain, all, key)
        \* the day on which the user and the company are both there
        Since(u)  == Min({Max({Min({q.date : q \in {w \in companies : w.company = c.company}}),
                               Min({q.date : q \in {w \in users : /\ w.user = u
                                                                  /\ w.company = c.company}})}) :
                          c \in {w \in companies : \E q \in users : q.user = u /\ q.company = w.company}})
        counted   == {q.user : q \in {w \in users : w.company \in {c.company : c \in companies}}}
    IN  Cardinality({u \in counted : Since(u) = d})

Running(daily, from, d) == MapThenSumSet(LAMBDA i : daily[i], from .. d)

PeriodToDate(grain, key, d, from, to, cohort) ==
    LET days == from .. d
        row  == [i \in days |-> DailyRow(grain, key, i, cohort)]
    IN  [companies   |-> Running([i \in days |-> CompanyEvents(grain, key, i, from, to, cohort)], from, d),
         users       |-> Running([i \in days |-> UserEvents(grain, key, i, from, to, cohort)], from, d),
         active      |-> Running([i \in days |-> ProjectCompanyEvents(i, from, to, cohort)], from, d),
         denominator |-> Running([i \in days |-> PenetrationEvents(grain, key, i, from, to, cohort)], from, d),
         visits      |-> Running([i \in days |-> row[i].visits], from, d),
         engaged     |-> Running([i \in days |-> row[i].engaged], from, d),
         clicks      |-> Running([i \in days |-> row[i].clicks], from, d),
         clicked     |-> Running([i \in days |-> row[i].clicked], from, d)]

\* The figures of a report row over from..to.
ChangeRow(grain, key, from, to, cohort) ==
    LET s == SummaryOf(grain, from, to, cohort)
        row == IF key \in DOMAIN s THEN s[key] ELSE NoDaily
    IN  [companies   |-> row.companies, users |-> row.users,
         active      |-> DistinctCounts(from, to, cohort).companies,
         denominator |-> DenominatorOf(grain, key, from, to, cohort),
         visits      |-> row.visits, engaged |-> row.engaged,
         clicks      |-> row.clicks, clicked |-> row.clicked]

----------------------------------------------------------------------------
(* Flows: the transitions from or to one page rule, read with one condition*)
(* or as the union of two reads, without those from the page to itself.    *)

FromVisit(t) == CHOOSE v \in visits : VisitKey(v) = t.from
ToVisit(t) == CHOOSE v \in visits : VisitKey(v) = t.to

FlowKey(v) == IF v.rule # None THEN v.rule ELSE v.url

FlowPairs == {<<FlowKey(FromVisit(t)), FlowKey(ToVisit(t))>> : t \in transitions}

DetailFlow(rule) ==
    [p \in {q \in FlowPairs : q[1] # q[2]} |->
        Cardinality({t \in transitions :
            /\ FromVisit(t).rule = rule \/ ToVisit(t).rule = rule
            /\ p = <<FlowKey(FromVisit(t)), FlowKey(ToVisit(t))>>})]

\* Mutant of DetailFlowByRule: with the transitions from a page to itself.
DetailFlowWithItself(rule) ==
    [p \in FlowPairs |->
        LET Links(sel(_)) ==
                Cardinality({t \in transitions :
                    sel(t) /\ p = <<FlowKey(FromVisit(t)), FlowKey(ToVisit(t))>>})
        IN  Links(LAMBDA t : FromVisit(t).rule = rule) + Links(LAMBDA t : ToVisit(t).rule = rule)]

DetailFlowByRule(rule) ==
    [p \in {q \in FlowPairs : q[1] # q[2]} |->
        LET Links(sel(_)) ==
                Cardinality({t \in transitions :
                    sel(t) /\ p = <<FlowKey(FromVisit(t)), FlowKey(ToVisit(t))>>})
        IN  Links(LAMBDA t : FromVisit(t).rule = rule) + Links(LAMBDA t : ToVisit(t).rule = rule)]

\* Pairs of rules with transitions both ways, and how many there are each way.
TwoWayMovement(from, to) ==
    LET moves == {t \in transitions : OnDays(t.to.start, from, to)}
        Moves(a, b) == Cardinality({t \in moves : FromVisit(t).rule = a /\ ToVisit(t).rule = b})
        rules == {v.rule : v \in visits} \ {None}
    IN  [p \in {q \in rules \X rules : q[1] # q[2] /\ Moves(q[1], q[2]) > 0 /\ Moves(q[2], q[1]) > 0} |->
            Moves(p[1], p[2])]

----------------------------------------------------------------------------
Periods == {p \in Days \X Days : p[1] <= p[2]}

\* The series of a period is exact: its value on any day is the figure that the
\* report has for the period up to that day.  First-seen dates and running sums
\* over one set of queries, distinct counts over another, for every grain and
\* company filter (queries.py:87-226, services.py:1828-1928).
PeriodToDateExact ==
    \A grain \in Grains, cohort \in Cohorts, p \in Periods :
        \A key \in DOMAIN SummaryOf(grain, p[1], p[2], cohort), d \in p[1] .. p[2] :
            PeriodToDate(grain, key, d, p[1], p[2], cohort) = ChangeRow(grain, key, p[1], d, cohort)

Widens(narrow, wide) ==
    IF wide = Everyone THEN narrow = Companies ELSE \E c \in wide : narrow = wide \ {c}

WithinCohort(row, d, cohort) ==
    /\ row.companies <= DailyActives(d, cohort).companies
    /\ row.users <= DailyActives(d, cohort).users

\* A wider cohort never shows less, and all companies together show the
\* companies of the unfiltered report and no more visits than it has.  On no day
\* has a row more companies or users than the project or the cohort has active,
\* whichever tables they come from: adoption stays within 100 %.
FiltersNarrow ==
    \A grain \in Grains, p \in Periods :
        \A key \in DOMAIN SummaryOf(grain, p[1], p[2], Everyone) :
            /\ \A narrow, wide \in Cohorts :
                  LET n == ChangeRow(grain, key, p[1], p[2], narrow)
                      w == ChangeRow(grain, key, p[1], p[2], wide)
                  IN  Widens(narrow, wide) => \A f \in DOMAIN n : n[f] <= w[f]
            /\ ChangeRow(grain, key, p[1], p[2], Companies).companies
                   = ChangeRow(grain, key, p[1], p[2], Everyone).companies
            /\ p[1] = p[2] =>
                  \A cohort \in Cohorts : WithinCohort(DailyRow(grain, key, p[1], cohort), p[1], cohort)

\* The queries of the transitions agree: the flow of a page read with one
\* condition or with two (a transition from the page to itself under another URL
\* is read twice by these), and the movement between two pages.
FlowsAgree ==
    /\ \A rule \in {v.rule : v \in visits} \ {None} : DetailFlow(rule) = DetailFlowByRule(rule)
    /\ LET moves == TwoWayMovement(0, Max(Days))
       IN  \A p \in DOMAIN moves : moves[p] = DetailFlow(p[1])[p]

\* The reports that are read between two rebuilds agree with each other and
\* with themselves, for every period, grain and company filter.
ReportsAgree == job = Idle => PeriodToDateExact /\ FiltersNarrow /\ FlowsAgree
=============================================================================
