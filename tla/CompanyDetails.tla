--------------------------- MODULE CompanyDetails ---------------------------
(***************************************************************************)
(* The day-by-day series behind the cards of the Companies report and of a *)
(* company's detail page, and the totals they stand next to: new and       *)
(* reactivated companies and users, and the users of a company at risk     *)
(* (apps/pages/company_analytics.py:383-402,                               *)
(* apps/pages/company_detail_analytics.py).  All are derived from the      *)
(* facts of CompanyHealth; a visit of a user counts one visit.             *)
(***************************************************************************)
EXTENDS CompanyHealth

CONSTANTS
    Lookback,           \* the longest period users' risk is judged on
    UserEngagedFloor,   \* a drop of less engagement than this is no risk
    UserVisitsFloor     \* a drop of fewer visits than this is no risk

ASSUME CompanyDetailsAssumption ==
    /\ Lookback \in Nat \ {0}
    /\ UserEngagedFloor \in Nat /\ UserVisitsFloor \in Nat

----------------------------------------------------------------------------
(* New and reactivated companies, by the first day of the period on which  *)
(* each was active.                                                        *)

FirstDayIs(F, day) == (\E f \in F : f.day = day) /\ \A f \in F : day <= f.day

NewReactivatedOn(F, from, to, day) ==
    LET n              == to - from + 1
        previousActive == ActiveCompanies(During(F, from - n .. from - 1))
        activeBefore   == {c \in Companies : SeenBefore(F, c, from - n)}
    IN  {c \in ActiveCompanies(During(F, from .. to)) :
            /\ FirstDayIs(During(OfCompany(F, c), from .. to), day)
            /\ \/ FirstSeenIn(F, c, from, to)
               \/ IsReactivated(c, previousActive, activeBefore)}

\* The sum of a function over from..to.
Total(value, from, to) ==
    LET sum[d \in from - 1 .. to] == IF d < from THEN 0 ELSE sum[d - 1] + value[d]
    IN  sum[to]

NewReactivatedTrend(F, from, to) ==
    [day \in from .. to |-> Cardinality(NewReactivatedOn(F, from, to, day))]

----------------------------------------------------------------------------
(* Users of one company.                                                   *)

\* New and reactivated users of from..to; previousStart begins the period
\* before it.
NewUsers(F, c, from, to) ==
    {u \in UsersIn(During(F, from .. to), c) : \A f \in OfUser(F, c, u) : from <= f.day}

ReactivatedUsers(F, c, from, to, previousStart) ==
    {u \in UsersIn(During(F, from .. to), c) :
        /\ During(OfUser(F, c, u), previousStart .. from - 1) = {}
        /\ \E f \in OfUser(F, c, u) : f.day < previousStart}

NewReactivatedUsers(F, c, from, to, previousStart) ==
    LET users == NewUsers(F, c, from, to) \cup ReactivatedUsers(F, c, from, to, previousStart)
        daily == [day \in from .. to |->
                    Cardinality({u \in users : FirstDayIs(During(OfUser(F, c, u), from .. to), day)})]
    IN  [day \in from .. to |-> Total(daily, from, day)]

RiskDays(from, to) == IF to - from + 1 < Lookback THEN to - from + 1 ELSE Lookback

\* What a user did in a period.
UserRow(F, c, u, days) ==
    LET D == During(OfUser(F, c, u), days)
    IN  [visits |-> Cardinality(D), engaged |-> Cardinality({f \in D : f.engaged})]

UserAtRisk(previous, current) ==
    \/ previous.engaged >= UserEngagedFloor /\ Halved(previous.engaged, current.engaged)
    \/ previous.visits >= UserVisitsFloor /\ Halved(previous.visits, current.visits)

\* The users the page of the company calls at risk in a report that ends on a
\* day: active in the period, and judged on two risk periods of n days that end
\* with it.
AtRiskUsers(F, c, from, day, n) ==
    {u \in UsersIn(During(F, from .. day), c) :
        UserAtRisk(UserRow(F, c, u, day - 2 * n + 1 .. day - n), UserRow(F, c, u, day - n + 1 .. day))}

\* Mutant of UserHistoryStart: the last risk period before the first day only.
UserHistoryOnePeriod(from, to) == from - RiskDays(from, to)

UserHistoryStart(from, to) == from - (2 * RiskDays(from, to) - 1)

\* prefix[i] sums the first i days from the history's start.
Prefix(value, from, to) ==
    LET sum[i \in 0 .. to - from + 1] == IF i = 0 THEN 0 ELSE sum[i - 1] + value[from + i - 1]
    IN  sum

RangeSum(prefix, history, end, from, to) ==
    LET first == IF from > history THEN from ELSE history
        last  == IF to < end THEN to ELSE end
    IN  IF first > last THEN 0 ELSE prefix[last - history + 1] - prefix[first - history]

\* The number of users at risk as of each day, out of prefix sums.
AtRiskUserTrend(F, c, from, to) ==
    LET n       == RiskDays(from, to)
        history == UserHistoryStart(from, to)
        users   == UsersIn(During(F, from .. to), c)
        visits  == [u \in users |->
                      Prefix([d \in history .. to |-> UserRow(F, c, u, {d}).visits], history, to)]
        engaged == [u \in users |->
                      Prefix([d \in history .. to |-> UserRow(F, c, u, {d}).engaged], history, to)]
        row(u, first, last) == [visits  |-> RangeSum(visits[u], history, to, first, last),
                                engaged |-> RangeSum(engaged[u], history, to, first, last)]
    IN  [day \in from .. to |->
            Cardinality({u \in users :
                /\ During(OfUser(F, c, u), from .. day) # {}
                /\ UserAtRisk(row(u, day - 2 * n + 1, day - n), row(u, day - n + 1, day))})]

----------------------------------------------------------------------------

\* The series of each card ends at, or adds up to, the figure that stands next
\* to it: new and reactivated companies, new and reactivated users (in the
\* period and in the one before it), and, as of every day, the users at risk.
TrendsEndAtFigures ==
    build.phase = "headline" =>
        \A n \in Lengths :
            LET from   == PeriodStart(n, today)
                to     == PeriodEnd(today)
                figure == [s \in {"new", "reactivated"} |-> Cardinality(WithStatus(facts, facts, from, to, s))]
            IN  /\ Total(NewReactivatedTrend(facts, from, to), from, to) = figure["new"] + figure["reactivated"]
                /\ \A c \in ActiveCompanies(facts) :
                     /\ \A start \in {from, from - n} :
                          LET end         == start + n - 1
                              isNew       == NewUsers(facts, c, start, end)
                              reactivated == ReactivatedUsers(facts, c, start, end, start - n)
                          IN  NewReactivatedUsers(facts, c, start, end, start - n)[end]
                                  = Cardinality(isNew) + Cardinality(reactivated \ isNew)
                     /\ \A day \in from .. to :
                          AtRiskUserTrend(facts, c, from, to)[day]
                              = Cardinality(AtRiskUsers(facts, c, from, day, RiskDays(from, to)))
=============================================================================
