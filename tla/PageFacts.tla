----------------------------- MODULE PageFacts -----------------------------
(***************************************************************************)
(* The prepared facts behind the Pages, Companies and Users reports:       *)
(* page visits cut out of the stored events, the judgement that takes      *)
(* completed low-confidence anonymous sessions out of the reports, the     *)
(* transitions between visits, and the daily tables                        *)
(* (apps/pages/services.py:704-812 and 1024-1085, apps/pages/queries.py).  *)
(*                                                                         *)
(* A rebuild replaces a window of local days.  It is one transaction under *)
(* an advisory lock, but each of its statements reads the events committed *)
(* by then, and ingest takes no part in the lock: the model splits the     *)
(* rebuild before each statement that reads events.  What it has written   *)
(* so far is in "job" and becomes visible with its last step; job.outdated *)
(* is history: an event came in since the rebuild began.                   *)
(*                                                                         *)
(* Abstractions.  A page stands for a URL with its rule and the product    *)
(* area both give it; the identity of an event is the identity of its      *)
(* fragment (Identity), so the samples and minima over a visit are exact;  *)
(* every click is on the same element; the other event types differ only   *)
(* in being deliberate or not.  Events of one visitor have distinct times. *)
(***************************************************************************)
EXTENDS Integers, FiniteSets, FiniteSetsExt

CONSTANTS
    Sessions,       \* analytics sessions (identity fragments)
    Visitor,        \* the visitor GUID of a session, or None
    Identity,       \* the user and the company of a session, each or None
    Pages,          \* records [url, rule, area]; url or rule may be None
    Types,          \* event types, "click" among them
    Deliberate,     \* the types that show a decision of the visitor
    Times,          \* event timestamps
    Moments,        \* the times at which rebuilds run
    Windows,        \* the pairs of days that are rebuilt together
    DayLength,      \* a local day
    Timeout,        \* the session timeout
    MaxDuration,    \* SESSION_MAX_DURATION_SECONDS: no session spans more
    EngagedCap,     \* the most engagement one pause counts for
    MaxSpan,        \* a session this long is meaningful
    MinOffset,      \* an interaction this late is meaningful
    Arrivals(_),    \* bound: the events that may arrive
    MaxEvents,      \* bound on the events
    None

ASSUME PageFactsAssumption ==
    /\ Times \subseteq Nat /\ Times # {} /\ IsFiniteSet(Times)
    /\ Moments \subseteq Nat
    /\ DayLength \in Nat \ {0} /\ Timeout \in Nat /\ MaxSpan \in Nat
    /\ Timeout + MaxSpan <= DayLength
    /\ MaxDuration \in Nat /\ MaxDuration <= DayLength
    /\ MinOffset \in Nat /\ EngagedCap \in Nat /\ MaxEvents \in Nat
    /\ Windows \subseteq Nat \X Nat
    /\ Deliberate \subseteq Types
    /\ \A p \in Pages : {"url", "rule", "area"} \subseteq DOMAIN p
    /\ \A s \in Sessions : {"user", "company"} \subseteq DOMAIN Identity[s]

VARIABLES
    events,         \* the stored events
    now,            \* the time of the next rebuild
    visits,         \* pages_pagevisit
    transitions,    \* pages_pagetransition, as pairs of visit keys
    tables,         \* the daily tables
    job,            \* the rebuild in progress
    settled         \* history: days rebuilt from the events as they are now,
                    \* with or after the day before them

vars == <<events, now, visits, transitions, tables, job, settled>>

Event == [session : Sessions, ts : Times, type : Types, page : Pages]

Day(t) == t \div DayLength

Days == 0 .. Day(Max(Times))

Apart(s, t) == IF s <= t THEN t - s ELSE s - t

OnDays(t, from, to) == from <= Day(t) /\ Day(t) <= to

\* Mutant of Widened: only the events of the days themselves.
Strictly(E, from, to) == {e \in E : OnDays(e.ts, from, to)}

\* The events read to rebuild the days from..to: a day more on each side.
Widened(E, from, to) == {e \in E : OnDays(e.ts, from - 1, to + 1)}

WithUrl(E) == {e \in E : e.page.url # None}

IsAnonymous(e) == Identity[e.session].user = None /\ Identity[e.session].company = None

----------------------------------------------------------------------------
(* Page visits: runs of a session's events on one page, cut at a change of *)
(* URL or rule and at a pause longer than the timeout.                     *)

Previous(B, e) ==
    {p \in B : /\ p.session = e.session /\ p.ts < e.ts
               /\ ~ \E q \in B : q.session = e.session /\ p.ts < q.ts /\ q.ts < e.ts}

StartsVisit(B, e) ==
    \A p \in Previous(B, e) :
        \/ p.page.url # e.page.url
        \/ p.page.rule # e.page.rule
        \/ e.ts - p.ts > Timeout

EventsOfVisit(B, e) ==
    {f \in B : /\ f.session = e.session
               /\ \A s \in B : s.session = e.session /\ StartsVisit(B, s)
                                   => (s.ts <= e.ts <=> s.ts <= f.ts)}

Engagement(es) ==
    MapThenSumSet(LAMBDA e : LET later == {f.ts : f \in {g \in es : g.ts > e.ts}}
                             IN  IF later = {} THEN 0
                                 ELSE Min({Min(later) - e.ts, EngagedCap}), es)

VisitFrom(B, e) ==
    LET es == EventsOfVisit(B, e)
    IN  [session |-> e.session, start |-> e.ts, end |-> Max({f.ts : f \in es}),
         user |-> Identity[e.session].user, company |-> Identity[e.session].company,
         url |-> e.page.url, rule |-> e.page.rule, area |-> e.page.area,
         engaged |-> Engagement(es),
         clicks |-> Cardinality({f \in es : f.type = "click"}),
         eligible |-> TRUE]

\* The visits that start on the days from..to, out of the events E.
VisitsOf(E, from, to) ==
    LET B == WithUrl(Widened(E, from, to))
    IN  {VisitFrom(B, e) : e \in {b \in B : OnDays(b.ts, from, to) /\ StartsVisit(B, b)}}

----------------------------------------------------------------------------
(* Low-confidence sessions, judged on the run of a visitor's events.       *)

StartsScope(E, e) ==
    ~ \E p \in E : Visitor[p.session] = Visitor[e.session] /\ p.ts < e.ts /\ e.ts - p.ts <= Timeout

Scope(E, e) ==
    {f \in E : /\ Visitor[f.session] = Visitor[e.session]
               /\ \A s \in E : Visitor[s.session] = Visitor[e.session] /\ StartsScope(E, s)
                                   => (s.ts <= e.ts <=> s.ts <= f.ts)}

PageKeys(S) == {<<e.page.url, e.page.rule>> : e \in WithUrl(S)}

\* Mutant of IsMeaningful: an identity alone is not enough.
IsActive(S) ==
    \/ \E e \in S : e.type \in Deliberate /\ \E f \in S : e.ts - f.ts >= MinOffset
    \/ \E p, q \in PageKeys(S) : p # q
    \/ \E e, f \in S : e.ts - f.ts >= MaxSpan

IsMeaningful(S) ==
    \/ \E e \in S : ~ IsAnonymous(e)
    \/ \E e \in S : e.type \in Deliberate /\ \E f \in S : e.ts - f.ts >= MinOffset
    \/ \E p, q \in PageKeys(S) : p # q
    \/ \E e, f \in S : e.ts - f.ts >= MaxSpan

IsComplete(S, moment) == \A e \in S : e.ts < moment - Timeout

LowConfidence(E, e, moment) ==
    /\ Visitor[e.session] # None
    /\ ~ IsMeaningful(Scope(E, e))
    /\ IsComplete(Scope(E, e), moment)

\* A visit is matched to a scope by its visitor and its start.
IsExcluded(E, v, moment) ==
    \E e \in E : /\ Visitor[e.session] = Visitor[v.session]
                 /\ LowConfidence(E, e, moment)
                 /\ \E f, g \in Scope(E, e) : f.ts <= v.start /\ v.start <= g.ts

Judged(V, E, from, to, moment) ==
    {IF OnDays(v.start, from, to) /\ IsExcluded(Widened(E, from, to), v, moment)
     THEN [v EXCEPT !.eligible = FALSE] ELSE v : v \in V}

----------------------------------------------------------------------------
(* Transitions between consecutive visits of a session.                    *)

VisitKey(v) == [session |-> v.session, start |-> v.start]

IsTransition(V, v, w) ==
    /\ v.session = w.session /\ v.start < w.start
    /\ ~ \E u \in V : u.session = v.session /\ v.start < u.start /\ u.start < w.start
    /\ w.start - v.end <= Timeout
    /\ v.rule # w.rule \/ v.url # w.url \/ v.area # w.area

TransitionsOf(V) ==
    {[from |-> VisitKey(p[1]), to |-> VisitKey(p[2])] :
        p \in {q \in V \X V : IsTransition(V, q[1], q[2])}}

\* Mutant of UntouchedTransitions: those into the window stay.
UntouchedDepartures(T, from, to) == {t \in T : ~ OnDays(t.from.start, from, to)}

UntouchedTransitions(T, from, to) ==
    {t \in T : ~ OnDays(t.from.start, from, to) /\ ~ OnDays(t.to.start, from, to)}

TransitionsIn(V, from, to) ==
    TransitionsOf({v \in V : v.eligible /\ OnDays(v.start, from, to)})

----------------------------------------------------------------------------
(* Daily tables.  Each is a set of rows, one for each group.               *)

Total(rows, value(_)) == MapThenSumSet(value, rows)

CountOf(rows, value(_)) == Cardinality({value(r) : r \in rows} \ {None})

Clicked(V) == {v \in V : v.clicks > 0}

PageDaily(V) ==
    {LET g == {v \in V : Day(v.start) = k[1] /\ v.rule = k[2] /\ v.area = k[3]}
     IN  [date |-> k[1], rule |-> k[2], area |-> k[3],
          visits |-> Cardinality(g), clicked |-> Cardinality(Clicked(g)),
          engaged |-> Total(g, LAMBDA v : v.engaged), clicks |-> Total(g, LAMBDA v : v.clicks),
          companies |-> CountOf(g, LAMBDA v : v.company), users |-> CountOf(g, LAMBDA v : v.user)] :
        k \in {<<Day(v.start), v.rule, v.area>> : v \in V}}

\* No condition on eligibility: an excluded session is anonymous.
CompanyDaily(V) ==
    {LET g == {v \in V : Day(v.start) = k[1] /\ v.rule = k[2] /\ v.area = k[3] /\ v.company = k[4]}
     IN  [date |-> k[1], rule |-> k[2], area |-> k[3], company |-> k[4],
          visits |-> Cardinality(g), clicked |-> Cardinality(Clicked(g)),
          engaged |-> Total(g, LAMBDA v : v.engaged), clicks |-> Total(g, LAMBDA v : v.clicks),
          users |-> CountOf(g, LAMBDA v : v.user)] :
        k \in {<<Day(v.start), v.rule, v.area, v.company>> : v \in {w \in V : w.company # None}}}

\* A user's row names one of the companies of the visits, always the same.
UserDaily(V) ==
    {LET g == {v \in V : Day(v.start) = k[1] /\ v.rule = k[2] /\ v.area = k[3] /\ v.user = k[4]}
         companies == {v.company : v \in g} \ {None}
     IN  [date |-> k[1], rule |-> k[2], area |-> k[3], user |-> k[4],
          company |-> IF companies = {} THEN None ELSE CHOOSE c \in companies : TRUE,
          visits |-> Cardinality(g), engaged |-> Total(g, LAMBDA v : v.engaged),
          clicks |-> Total(g, LAMBDA v : v.clicks)] :
        k \in {<<Day(v.start), v.rule, v.area, v.user>> : v \in {w \in V : w.user # None}}}

RawPageDaily(V) ==
    {LET g == {v \in V : Day(v.start) = k[1] /\ v.url = k[2]}
     IN  [date |-> k[1], url |-> k[2], visits |-> Cardinality(g),
          clicked |-> Cardinality(Clicked(g)),
          engaged |-> Total(g, LAMBDA v : v.engaged), clicks |-> Total(g, LAMBDA v : v.clicks),
          companies |-> CountOf(g, LAMBDA v : v.company), users |-> CountOf(g, LAMBDA v : v.user)] :
        k \in {<<Day(v.start), v.url>> : v \in V}}

\* Mutant of ProjectDaily: nobody counts as a company.
ProjectDailyWithNobody(V) ==
    {LET g == {v \in V : Day(v.start) = d}
     IN  [date |-> d, visits |-> Cardinality(g), engaged |-> Total(g, LAMBDA v : v.engaged),
          clicks |-> Total(g, LAMBDA v : v.clicks),
          companies |-> Cardinality({v.company : v \in g}), users |-> CountOf(g, LAMBDA v : v.user)] :
        d \in {Day(v.start) : v \in V}}

ProjectDaily(V) ==
    {LET g == {v \in V : Day(v.start) = d}
     IN  [date |-> d, visits |-> Cardinality(g), engaged |-> Total(g, LAMBDA v : v.engaged),
          clicks |-> Total(g, LAMBDA v : v.clicks),
          companies |-> CountOf(g, LAMBDA v : v.company), users |-> CountOf(g, LAMBDA v : v.user)] :
        d \in {Day(v.start) : v \in V}}

\* The visits a click falls into; a click that falls into none is counted.
VisitsAt(V, e) ==
    {v \in V : v.session = e.session /\ v.url = e.page.url /\ v.start <= e.ts /\ e.ts <= v.end}

\* Mutant of CountedClicks: whatever visit the click falls into.
AllClicks(E, V, from, to) == {e \in WithUrl(E) : e.type = "click" /\ OnDays(e.ts, from, to)}

CountedClicks(E, V, from, to) ==
    {e \in WithUrl(E) : /\ e.type = "click" /\ OnDays(e.ts, from, to)
                        /\ VisitsAt(V, e) = {} \/ \E v \in VisitsAt(V, e) : v.eligible}

ActionDaily(E, V, from, to) ==
    LET counted == CountedClicks(E, V, from, to)
    IN  {LET g == {e \in counted : Day(e.ts) = k[1] /\ e.page.url = k[2]}
         IN  [date |-> k[1], url |-> k[2], clicks |-> Cardinality(g),
              users |-> CountOf(g, LAMBDA e : Identity[e.session].user),
              companies |-> CountOf(g, LAMBDA e : Identity[e.session].company),
              visits |-> Cardinality(UNION {VisitsAt(V, e) : e \in g})] :
            k \in {<<Day(e.ts), e.page.url>> : e \in counted}}

NoTables == [pages |-> {}, companies |-> {}, users |-> {}, raw |-> {}, actions |-> {}, project |-> {}]

\* The tables with the rows of the days from..to made again.
Aggregated(T, V, E, from, to) ==
    LET all      == {v \in V : OnDays(v.start, from, to)}
        eligible == {v \in all : v.eligible}
        Kept(rows) == {r \in rows : ~ (from <= r.date /\ r.date <= to)}
    IN  [pages     |-> Kept(T.pages) \cup PageDaily(eligible),
         companies |-> Kept(T.companies) \cup CompanyDaily(all),
         users     |-> Kept(T.users) \cup UserDaily(all),
         raw       |-> Kept(T.raw) \cup RawPageDaily(eligible),
         actions   |-> Kept(T.actions) \cup ActionDaily(E, V, from, to),
         project   |-> Kept(T.project) \cup ProjectDaily(eligible)]

----------------------------------------------------------------------------
Idle == [step |-> "idle"]

Init ==
    /\ events = {} /\ now = Min(Moments)
    /\ visits = {} /\ transitions = {} /\ tables = NoTables
    /\ job = Idle /\ settled = {}

\* An event is stored, possibly late.  Its session is part of a visit of the
\* visitor, which the resolver keeps shorter than the maximum duration.
Ingest(e) ==
    /\ Cardinality(events) < MaxEvents
    /\ e.ts <= now
    /\ \A f \in events : Visitor[f.session] = Visitor[e.session] => f.ts # e.ts
    /\ \A f \in events : f.session = e.session => Apart(f.ts, e.ts) <= MaxDuration
    /\ events' = events \cup {e}
    /\ settled' = {}
    /\ job' = IF job = Idle THEN Idle ELSE [job EXCEPT !.outdated = TRUE]
    /\ UNCHANGED <<now, visits, transitions, tables>>

\* Time passes between rebuilds, which completes sessions.
Wait ==
    /\ job = Idle
    /\ now' \in Moments /\ now' > now
    /\ settled' = {}
    /\ UNCHANGED <<events, visits, transitions, tables, job>>

\* The old visits and transitions of the window go, its visits are cut anew.
Segment(from, to) ==
    /\ job = Idle
    /\ job' = [step |-> "segmented", from |-> from, to |-> to, outdated |-> FALSE,
               visits |-> {v \in visits : ~ OnDays(v.start, from, to)}
                              \cup VisitsOf(events, from, to),
               transitions |-> UntouchedTransitions(transitions, from, to)]
    /\ UNCHANGED <<events, now, visits, transitions, tables, settled>>

\* Low-confidence visits are marked, and the transitions are made.
Judge ==
    /\ job.step = "segmented"
    /\ LET V == Judged(job.visits, events, job.from, job.to, now)
       IN  job' = [job EXCEPT !.step = "judged", !.visits = V,
                   !.transitions = @ \cup TransitionsIn(V, job.from, job.to)]
    /\ UNCHANGED <<events, now, visits, transitions, tables, settled>>

\* The daily tables are made, the clicks from the events, and all is committed.
Commit ==
    /\ job.step = "judged"
    /\ visits' = job.visits
    /\ transitions' = job.transitions
    /\ tables' = Aggregated(tables, job.visits, events, job.from, job.to)
    /\ job' = Idle
    /\ settled' = IF job.outdated THEN {}
                  ELSE settled \cup {d \in job.from .. job.to :
                                        d = 0 \/ d - 1 \in settled \/ d > job.from}
    /\ UNCHANGED <<events, now>>

Next ==
    \/ \E e \in {a \in Event : Arrivals(a)} : Ingest(e)
    \/ Wait
    \/ \E w \in Windows : Segment(w[1], w[2])
    \/ Judge
    \/ Commit

Spec == Init /\ [][Next]_vars

----------------------------------------------------------------------------
\* However the windows were cut and in whatever order they were rebuilt, the
\* visits of a settled day and their eligibility are those of one rebuild of
\* everything: "a partial rebuild cannot mistake one half of a two-page session
\* for a single-page one" (analytics_eligibility.py:85-90).
WindowsAgree ==
    LET complete == Judged(VisitsOf(events, 0, Max(Days)), events, 0, Max(Days), now)
    IN  \A d \in settled :
            {v \in visits : Day(v.start) = d} = {v \in complete : Day(v.start) = d}

On(rows, d) == {r \in rows : r.date = d}

\* The company and the user tables carry no condition on eligibility, and need
\* none: a visit taken out of the reports has neither (queries.py:809-815).
CompaniesUnaffected ==
    \A v \in visits : ~ v.eligible => v.user = None /\ v.company = None

\* The tables of one day tell one story: the pages, the URLs and the project
\* have the same visits, engagement and clicks, and the project's companies and
\* users are those of the tables without the condition on eligibility.
DaysAgree ==
    \A d \in Days :
        LET project == On(tables.project, d)
        IN  /\ \A rows \in {On(tables.pages, d), On(tables.raw, d)} :
                /\ Total(rows, LAMBDA r : r.visits) = Total(project, LAMBDA r : r.visits)
                /\ Total(rows, LAMBDA r : r.engaged) = Total(project, LAMBDA r : r.engaged)
                /\ Total(rows, LAMBDA r : r.clicks) = Total(project, LAMBDA r : r.clicks)
            /\ CountOf(On(tables.companies, d), LAMBDA r : r.company)
                   = Total(project, LAMBDA r : r.companies)
            /\ CountOf(On(tables.users, d), LAMBDA r : r.user)
                   = Total(project, LAMBDA r : r.users)

\* On a settled day every click is counted once, but those of a session taken
\* out of the reports are not: the one click of a bounce "must not turn up in
\* top actions" (queries.py:923-934).
ClicksCounted ==
    \A d \in settled :
        Total(On(tables.actions, d), LAMBDA r : r.clicks)
            = Cardinality({e \in WithUrl(events) : /\ e.type = "click" /\ Day(e.ts) = d
                                                   /\ ~ LowConfidence(events, e, now)})

\* The eight tables tell the same story, for each day and for each identity.
TablesAgree == CompaniesUnaffected /\ DaysAgree /\ ClicksCounted

\* Rebuilds of parts leave no transition to or from a visit that is gone, taken
\* out or no longer the next one, and miss none within a day.
TransitionsSound ==
    LET eligible == {v \in visits : v.eligible}
    IN  /\ transitions \subseteq TransitionsOf(eligible)
        /\ \A t \in TransitionsOf(eligible) :
              Day(t.from.start) = Day(t.to.start) => t \in transitions
=============================================================================
