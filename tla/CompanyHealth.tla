--------------------------- MODULE CompanyHealth ---------------------------
(***************************************************************************)
(* The Companies report of one project: who is new, reactivated, dormant   *)
(* or at risk in a range, and the at-risk trend, which is walked with two  *)
(* rolling windows over one bulk read of daily facts                       *)
(* (apps/pages/company_analytics.py), and the reads that the ranges of a   *)
(* cache rebuild share (apps/pages/analytics_memo.py,                      *)
(* apps/pages/services.py:815-925).                                        *)
(*                                                                         *)
(* A report is built from several reads; each sees the facts committed by  *)
(* then.  It is built inside a fact rebuild, which holds the rebuild lock  *)
(* of the project; by a management command, which shares reads but holds   *)
(* no lock; or for one range on demand, with neither.  The date may change *)
(* between two ranges of one rebuild.                                      *)
(*                                                                         *)
(* Abstractions.  A fact is a visit as the daily tables count it; it lasts *)
(* one unit of engagement or none.  A table is the set of its facts: a     *)
(* first-seen date is a minimum over such a set, taken where it is used.   *)
(* The filter of a report (its cohort) is not modelled: it would narrow    *)
(* every read alike.                                                       *)
(***************************************************************************)
EXTENDS Integers, Sequences, FiniteSets

CONSTANTS
    Companies, Users, Areas, None,
    Ranges,         \* the period lengths of a rebuild, in its order
    EngagedFloor,   \* a drop of less engagement than this is no risk
    StaleAfter(_),  \* days without activity that are a risk, by period length;
                    \* 0 where a period is too short to tell
    FirstDay,       \* today, at first
    LastDay,        \* bound on today
    Facts,          \* bound: the facts there may be
    Changing,       \* bound: those that may come or go during a build
    MaxFacts        \* bound on the facts

Fact == [day : Int, company : Companies, user : Users \cup {None},
         area : Areas \cup {None}, engaged : BOOLEAN]

Lengths == {Ranges[i] : i \in DOMAIN Ranges}

ASSUME CompanyHealthAssumption ==
    /\ Ranges \in Seq(Nat \ {0}) /\ Ranges # <<>>
    /\ EngagedFloor \in Nat /\ FirstDay \in Int /\ LastDay \in Int
    /\ None \notin Users \cup Areas
    /\ IsFiniteSet(Companies) /\ IsFiniteSet(Users) /\ IsFiniteSet(Areas)
    /\ \A n \in Lengths : StaleAfter(n) \in Nat
    /\ Facts \subseteq Fact /\ IsFiniteSet(Facts) /\ Changing \subseteq Facts /\ MaxFacts \in Nat

VARIABLES
    facts,      \* the daily tables
    today,
    memo,       \* the reads shared within the scope
    build,      \* the report being built
    walk,       \* the two rolling windows and what they gave so far
    outdated    \* history: the facts changed since the build began

vars == <<facts, today, memo, build, walk, outdated>>

----------------------------------------------------------------------------
(* Facts of a span of days.                                                *)

During(F, days) == {f \in F : f.day \in days}

OfCompany(F, c) == {f \in F : f.company = c}

ActiveCompanies(F) == {f.company : f \in F}

Engagement(F, c) == Cardinality({f \in OfCompany(F, c) : f.engaged})

UsersIn(F, c) == {f.user : f \in OfCompany(F, c)} \ {None}

AreasIn(F, c) == {f.area : f \in OfCompany(F, c)} \ {None}

SeenBefore(F, c, day) == \E f \in OfCompany(F, c) : f.day < day

FirstSeenIn(F, c, from, to) ==
    During(OfCompany(F, c), from .. to) # {} /\ ~ SeenBefore(F, c, from)

----------------------------------------------------------------------------
(* What a company's figures say.  A row has the engagement, the users and  *)
(* the areas of a company in a period.                                     *)

Halved(previous, current) == 2 * current <= previous

\* The days since the company was last seen, by the dates it was active on.
Stale(dates, from, to, n) ==
    /\ StaleAfter(n) # 0
    /\ \E d \in dates : d \in from .. to
    /\ \A d \in dates : d <= to => to - d >= StaleAfter(n)

AtRisk(row, previous, stale) ==
    \/ previous.engaged >= EngagedFloor /\ Halved(previous.engaged, row.engaged)
    \/ previous.users >= 2 /\ Halved(previous.users, row.users)
    \/ previous.areas >= 2 /\ row.areas < previous.areas
    \/ row.users = 1 /\ previous.users >= 2
    \/ stale

\* The row of a company in a headline report.
RowOf(F, c) ==
    [engaged |-> Engagement(F, c), users |-> Cardinality(UsersIn(F, c)),
     areas |-> Cardinality(AreasIn(F, c))]

DatesOf(F, c) == {f.day : f \in OfCompany(F, c)}

IsReactivated(c, previousActive, activeBefore) == c \notin previousActive /\ c \in activeBefore

\* The status a report for from..to gives the active company c; seen is the
\* table as it was when the first-seen dates were read.
StatusOf(F, seen, c, from, to) ==
    LET n        == to - from + 1
        current  == During(F, from .. to)
        previous == During(F, from - n .. from - 1)
    IN  IF FirstSeenIn(seen, c, from, to) THEN "new"
        ELSE IF IsReactivated(c, ActiveCompanies(previous),
                              {d \in Companies : SeenBefore(F, d, from - n)})
             THEN "reactivated"
        ELSE IF AtRisk(RowOf(current, c), RowOf(previous, c),
                       Stale(DatesOf(current, c), from, to, n))
             THEN "at_risk"
        ELSE "steady"

WithStatus(F, seen, from, to, status) ==
    {c \in ActiveCompanies(During(F, from .. to)) : StatusOf(F, seen, c, from, to) = status}

----------------------------------------------------------------------------
(* The rolling windows: counters per company, and per company and area or  *)
(* user.  A key at zero is a key that is gone.                             *)

Window == [days : [Companies -> Nat], engaged : [Companies -> Nat],
           areas : [Companies \X Areas -> Nat], users : [Companies \X Users -> Nat]]

NewWindow == [days    |-> [c \in Companies |-> 0],
              engaged |-> [c \in Companies |-> 0],
              areas   |-> [k \in Companies \X Areas |-> 0],
              users   |-> [k \in Companies \X Users |-> 0]]

AdjustCount(count, amount) == IF count + amount > 0 THEN count + amount ELSE 0

AdjustDay(w, L, day, direction) ==
    LET D == During(L, {day})
    IN  [days    |-> [c \in Companies |->
                        IF OfCompany(D, c) = {} THEN w.days[c]
                        ELSE AdjustCount(w.days[c], direction)],
         engaged |-> [c \in Companies |-> AdjustCount(w.engaged[c], direction * Engagement(D, c))],
         areas   |-> [k \in Companies \X Areas |->
                        IF k[2] \notin AreasIn(D, k[1]) THEN w.areas[k]
                        ELSE AdjustCount(w.areas[k], direction)],
         users   |-> [k \in Companies \X Users |->
                        IF k[2] \notin UsersIn(D, k[1]) THEN w.users[k]
                        ELSE AdjustCount(w.users[k], direction)]]

InWindow(w) == {c \in Companies : w.days[c] > 0 \/ \E u \in Users : w.users[<<c, u>>] > 0}

WindowRow(w, c) ==
    [engaged |-> w.engaged[c],
     users   |-> Cardinality({u \in Users : w.users[<<c, u>>] > 0}),
     areas   |-> Cardinality({a \in Areas : w.areas[<<c, a>>] > 0})]

\* The number of companies at risk as of the last day of the current window.
AtRiskNow(w) ==
    LET n   == w.length
        day == w.currentStart + n - 1
    IN  Cardinality(
            {c \in InWindow(w.current) :
                /\ ~ FirstSeenIn(w.seen, c, w.currentStart, day)
                /\ ~ IsReactivated(c, InWindow(w.previous),
                                   {d \in InWindow(w.current) : SeenBefore(w.seen, d, w.previousStart)})
                /\ AtRisk(WindowRow(w.current, c), WindowRow(w.previous, c),
                          Stale(DatesOf(w.loaded, c), w.currentStart, day, n))})

\* Mutant of HistoryFloor: two whole periods before the last day of the first.
LaterHistoryFloor(from, to) == from - 2 * (to - from)

\* The earliest day the trend of a period reads.
HistoryFloor(from, to) == from - (2 * (to - from + 1) - 1)

----------------------------------------------------------------------------
(* Periods end on the last complete day.                                   *)

PeriodStart(n, now) == now - n

PeriodEnd(now) == now - 1

PreviousStart(from, to) == from - (to - from + 1)

\* The days that the trends of a range charted on these days read.
TrendDays(from, to) == HistoryFloor(from, to) .. to

\* The days that all at-risk reads of a rebuild begun now will cover.
PlannedDays(now) ==
    UNION {TrendDays(PeriodStart(n, now), PeriodEnd(now))
           \cup TrendDays(PeriodStart(n, now) - n, PeriodStart(n, now) - 1) : n \in Lengths}

----------------------------------------------------------------------------
(* The build of a report.  memo.days are the days the shared at-risk read  *)
(* covers, memo.seen the table the shared first-seen dates were read from. *)
(* Spans that meet are merged: a span is the set of its days.              *)

NoMemo == [scope |-> FALSE, planned |-> {}, days |-> {}, loaded |-> {}, read |-> FALSE, seen |-> {}]

NoBuild == [phase |-> "idle", locked |-> FALSE, todo |-> <<>>, from |-> 0, to |-> 0,
            first |-> 0, last |-> 0, seen |-> {}, atRisk |-> 0]

NoWalk == [length |-> 0, loaded |-> {}, seen |-> {}, filled |-> 0,
           currentStart |-> 0, previousStart |-> 0, previousEnd |-> 0,
           current |-> NewWindow, previous |-> NewWindow, trend |-> <<>>]

Init ==
    /\ facts = {} /\ today = FirstDay
    /\ memo = NoMemo /\ build = NoBuild /\ walk = NoWalk
    /\ outdated = FALSE

\* A fact rebuild elsewhere adds or removes a fact; one that holds the lock
\* of this build excludes it.
FactsRebuilt ==
    /\ build.phase # "idle" => ~ build.locked /\ ~ outdated
    /\ \E f \in IF build.phase = "idle" THEN Facts ELSE Changing :
          \/ f \notin facts /\ Cardinality(facts) < MaxFacts /\ facts' = facts \cup {f}
          \/ f \in facts /\ facts' = facts \ {f}
    /\ outdated' = (build.phase # "idle")
    /\ UNCHANGED <<today, memo, build, walk>>

\* The date is read when a build or a range begins.
Midnight ==
    /\ build.phase = "headline" /\ today < LastDay
    /\ today' = today + 1
    /\ UNCHANGED <<facts, memo, build, walk, outdated>>

Begin(scope, locked, ranges) ==
    /\ build.phase = "idle"
    /\ memo' = [NoMemo EXCEPT !.scope = scope, !.planned = IF scope THEN PlannedDays(today) ELSE {}]
    /\ build' = [NoBuild EXCEPT !.phase = "headline", !.locked = locked, !.todo = ranges]
    /\ outdated' = FALSE
    /\ UNCHANGED <<facts, today, walk>>

RebuildCaches == \E locked \in BOOLEAN : Begin(TRUE, locked, Ranges)

BuildOnDemand == \E n \in Lengths : Begin(FALSE, FALSE, <<n>>)

Headline ==
    /\ build.phase = "headline"
    /\ LET n    == Head(build.todo)
           from == PeriodStart(n, today)
           to   == PeriodEnd(today)
           seen == IF memo.read THEN memo.seen ELSE facts
       IN  /\ memo' = IF memo.scope THEN [memo EXCEPT !.read = TRUE, !.seen = seen] ELSE memo
           /\ build' = [build EXCEPT !.phase = "load", !.from = from, !.to = to,
                                     !.first = from, !.last = to, !.seen = seen,
                                     !.atRisk = Cardinality(WithStatus(facts, seen, from, to, "at_risk"))]
    /\ UNCHANGED <<facts, today, walk, outdated>>

\* The bulk read of a trend, or a shared one that covers it.
LoadFacts ==
    /\ build.phase = "load"
    /\ LET from      == build.first
           to        == build.last
           n         == to - from + 1
           requested == TrendDays(from, to)
           reused    == memo.days # {} /\ requested \subseteq memo.days
           days      == IF reused THEN memo.days ELSE requested \cup memo.planned \cup memo.days
           loaded    == IF reused THEN memo.loaded ELSE During(facts, days)
       IN  /\ memo' = IF memo.scope THEN [memo EXCEPT !.days = days, !.loaded = loaded] ELSE memo
           /\ walk' = [NoWalk EXCEPT !.length = n, !.loaded = loaded, !.seen = build.seen,
                                     !.currentStart = from - (n - 1),
                                     !.previousEnd = from - n,
                                     !.previousStart = from - n - (n - 1)]
    /\ build' = [build EXCEPT !.phase = "fill"]
    /\ UNCHANGED <<facts, today, outdated>>

WithPoint(w) == [w EXCEPT !.trend = Append(@, AtRiskNow(w))]

\* The next day of each window, until both hold a whole period.
Fill ==
    /\ build.phase = "fill"
    /\ LET w == [walk EXCEPT
                   !.current  = AdjustDay(@, walk.loaded, walk.currentStart + walk.filled, 1),
                   !.previous = AdjustDay(@, walk.loaded, walk.previousStart + walk.filled, 1),
                   !.filled   = @ + 1]
       IN  IF w.filled = w.length
           THEN walk' = WithPoint(w) /\ build' = [build EXCEPT !.phase = "walk"]
           ELSE walk' = w /\ UNCHANGED build
    /\ UNCHANGED <<facts, today, memo, outdated>>

\* Mutant of Slid: the day before the previous period stays in it.
SlidKeepingDeparted(w) ==
    [w EXCEPT
        !.current  = AdjustDay(AdjustDay(@, w.loaded, w.currentStart, -1),
                               w.loaded, w.currentStart + w.length, 1),
        !.previous = AdjustDay(@, w.loaded, w.previousEnd + 1, 1),
        !.currentStart = @ + 1, !.previousStart = @ + 1, !.previousEnd = @ + 1]

\* The windows one day later.
Slid(w) ==
    [w EXCEPT
        !.current  = AdjustDay(AdjustDay(@, w.loaded, w.currentStart, -1),
                               w.loaded, w.currentStart + w.length, 1),
        !.previous = AdjustDay(AdjustDay(@, w.loaded, w.previousStart, -1),
                               w.loaded, w.previousEnd + 1, 1),
        !.currentStart = @ + 1, !.previousStart = @ + 1, !.previousEnd = @ + 1]

Slide ==
    /\ build.phase = "walk" /\ Len(walk.trend) < walk.length
    /\ walk' = WithPoint(Slid(walk))
    /\ UNCHANGED <<facts, today, memo, build, outdated>>

\* The trend of the selected period is followed by that of the previous one.
ChartPrevious ==
    /\ build.phase = "walk" /\ Len(walk.trend) = walk.length
    /\ build.first = build.from
    /\ build' = [build EXCEPT !.phase = "load",
                              !.first = PreviousStart(build.from, build.to),
                              !.last = build.from - 1]
    /\ walk' = NoWalk
    /\ UNCHANGED <<facts, today, memo, outdated>>

EndRange ==
    /\ build.phase = "walk" /\ Len(walk.trend) = walk.length
    /\ build.first # build.from
    /\ IF Len(build.todo) > 1
       THEN build' = [NoBuild EXCEPT !.phase = "headline", !.locked = build.locked,
                                     !.todo = Tail(build.todo)]
            /\ UNCHANGED memo
       ELSE build' = NoBuild /\ memo' = NoMemo
    /\ walk' = NoWalk
    /\ UNCHANGED <<facts, today, outdated>>

Next ==
    \/ FactsRebuilt \/ Midnight
    \/ RebuildCaches \/ BuildOnDemand
    \/ Headline \/ LoadFacts \/ Fill \/ Slide \/ ChartPrevious \/ EndRange

Spec == Init /\ [][Next]_vars

----------------------------------------------------------------------------
(* Properties.                                                             *)

Phases == {"idle", "headline", "load", "fill", "walk"}

Memo == [scope : BOOLEAN, planned : SUBSET Int, days : SUBSET Int, loaded : SUBSET Facts,
         read : BOOLEAN, seen : SUBSET Facts]

Build == [phase : Phases, locked : BOOLEAN, todo : Seq(Lengths), from : Int, to : Int,
          first : Int, last : Int, seen : SUBSET Facts, atRisk : Nat]

Walk == [length : Nat, loaded : SUBSET Facts, seen : SUBSET Facts, filled : Nat,
         currentStart : Int, previousStart : Int, previousEnd : Int,
         current : Window, previous : Window, trend : Seq(Nat)]

HealthTypeOK ==
    /\ facts \subseteq Facts /\ today \in Int /\ outdated \in BOOLEAN
    /\ memo \in Memo /\ build \in Build /\ walk \in Walk

InArea(F, c, a) == {f \in OfCompany(F, c) : f.area = a}

OfUser(F, c, u) == {f \in OfCompany(F, c) : f.user = u}

DaysOf(F, days) == {d \in days : \E f \in F : f.day = d}

\* A window counts the facts of exactly these days.
Counts(w, F, days) ==
    /\ \A c \in Companies :
          /\ w.days[c] = Cardinality(DaysOf(OfCompany(F, c), days))
          /\ w.engaged[c] = Engagement(During(F, days), c)
    /\ \A k \in Companies \X Areas : w.areas[k] = Cardinality(DaysOf(InArea(F, k[1], k[2]), days))
    /\ \A k \in Companies \X Users : w.users[k] = Cardinality(DaysOf(OfUser(F, k[1], k[2]), days))

\* However far the two windows have moved, their counters are those of two
\* adjacent periods of the loaded facts: what left was taken out once, what
\* came in was counted once, and no counter was cut off at zero.
WindowsExact ==
    LET from == walk.currentStart
        prev == from - walk.length
    IN  /\ Counts(walk.current, walk.loaded, from .. from + walk.filled - 1)
        /\ Counts(walk.previous, walk.loaded, prev .. prev + walk.filled - 1)

AtRiskOn(F, n, day) == Cardinality(WithStatus(F, F, day - n + 1, day, "at_risk"))

\* Every point of both trends is the number of companies that a report for
\* the period that ends on that day would call at risk, and the last point of
\* the selected trend is the number in the headline, as long as no fact
\* changed during the build: also when the read was shared with other ranges
\* and reaches further, and when the date changed between two ranges.
TrendAgrees ==
    ~ outdated /\ walk.trend # <<>> =>
        LET n == walk.length
        IN  /\ \A i \in DOMAIN walk.trend :
                  walk.trend[i] = AtRiskOn(facts, n, build.first + i - 1)
            /\ Len(walk.trend) = n /\ build.first = build.from =>
                  walk.trend[n] = build.atRisk
=============================================================================
