--------------------------- MODULE VisitSessions ---------------------------
(***************************************************************************)
(* The session resolver: how event times sent by browsers become the       *)
(* visits (Session rows) of one visitor.                                   *)
(*                                                                         *)
(* apps/tracker/session_resolver.py resolves a batch of points inside one  *)
(* database transaction that holds the row lock of the visitor.  The lock  *)
(* serialises the batches of a visitor, so one batch is in progress at a   *)
(* time; it loads the visits near its points, resolves the points in event *)
(* time order on the loaded rows, and commits or rolls back as a whole.    *)
(* Visits of different visitors never meet: one visitor is modelled.       *)
(***************************************************************************)
EXTENDS VisitRows, FiniteSets

CONSTANT VisitIds   \* primary keys of Session rows

VARIABLES
    visits,        \* committed Session rows of the visitor
    visitor,       \* committed Visitor row
    work,          \* rows loaded or created by the batch in progress
    batch          \* progress of that batch

vars == <<visits, visitor, work, batch>>

Phases == {"idle", "loaded", "resolving"}

TypeOK ==
    /\ visits \in [VisitIds -> Visit \union {Absent}]
    /\ visitor \in VisitorRow \union {Absent}
    /\ work \in [VisitIds -> Visit \union {Absent}]
    /\ batch \in [phase: Phases, first: Nat, at: Nat, last: Nat]

NoRows == [v \in VisitIds |-> Absent]
NoBatch == [phase |-> "idle", first |-> 0, at |-> 0, last |-> 0]

Init ==
    /\ visits = NoRows
    /\ visitor = Absent
    /\ work = NoRows
    /\ batch = NoBatch

-----------------------------------------------------------------------------
(* Rows and the questions the resolver asks about them.                    *)

Rows(f) == {v \in VisitIds : f[v] # Absent}

\* What a reader inside the transaction sees: its own rows over the table.
Overlay(f, g) == [v \in VisitIds |-> IF f[v] # Absent THEN f[v] ELSE g[v]]
View == Overlay(work, visits)

Candidates(t) == {v \in Rows(work) : Contains(work[v], t)}

\* Mutant of FutureSessions: the length of the visit moved back is not checked.
FutureSessionsOfAnyLength(t) ==
    {v \in Rows(work) : work[v].start > t /\ work[v].start - t < Timeout}

FutureSessions(t) ==
    {v \in Rows(work) : /\ work[v].start > t
                        /\ work[v].start - t < Timeout
                        /\ work[v].last < t + MaxDuration}

Started(t) == {v \in Rows(work) : work[v].start <= t}
Later(t) == {v \in Rows(work) : work[v].start > t}

\* First and last of a set of loaded rows in the order of the loaded list.
Earliest(S) == CHOOSE v \in S : \A u \in S : work[v].start <= work[u].start
Latest(S) == CHOOSE v \in S : \A u \in S : work[u].start <= work[v].start

\* end, but not beyond the first of the loaded rows S.
UpTo(end, S) == IF S = {} THEN end ELSE Lesser(end, work[Earliest(S)].start)

\* The visit an event that proves no activity falls back to.
PassiveSession(t) ==
    IF Started(t) # {} THEN Latest(Started(t)) ELSE Earliest(Rows(work))

ReusesVisit(t, active) ==
    /\ ~active
    /\ Rows(work) # {}
    /\ t < MaximumEnd(work[PassiveSession(t)])

\* Mutant of PreviousOpen: the search also takes visits that start later.
PreviousOpenNone(t) == {v \in Later(t) : work[v].end = Open}

PreviousOpen(t) == {v \in Started(t) : work[v].end = Open}

\* Mutant of Extended: an event older than the last activity also sets it.
ExtendedByAnyEvent(v, t) ==
    LET s == work[v]
        until == Lesser(UpTo(t + Timeout, Later(s.start)), MaximumEnd(s))
    IN  [s EXCEPT !.last = t, !.end = IF s.end = Open THEN Open ELSE until]

\* Activity at t in the loaded visit v.
Extended(v, t) ==
    LET s == work[v]
        until == Lesser(UpTo(t + Timeout, Later(s.start)), MaximumEnd(s))
    IN  IF t > s.last
        THEN [s EXCEPT !.last = t, !.end = IF s.end = Open THEN Open ELSE until]
        ELSE s

\* Mutant of NewVisit: a visit inserted before a later one is not cut at it.
NewVisitPastNext(t) ==
    [start |-> t,
     last  |-> t,
     end   |-> IF Later(t) = {} THEN Open ELSE Lesser(t + Timeout, t + MaxDuration)]

NewVisit(t) ==
    [start |-> t,
     last  |-> t,
     end   |-> IF Later(t) = {} THEN Open
               ELSE UpTo(Lesser(t + Timeout, t + MaxDuration), Later(t))]

-----------------------------------------------------------------------------
(* The batch: one transaction under the visitor lock.                      *)

\* A request brings points between first and last.  The visitor row is found
\* or created and locked, then the visits near the points are read.
Begin(first, last) ==
    /\ batch.phase = "idle"
    /\ first <= last
    /\ work' = [v \in VisitIds |->
                   IF visits[v] # Absent /\ InWindow(visits[v], first, last)
                   THEN visits[v] ELSE Absent]
    /\ batch' = [phase |-> "loaded", first |-> first, at |-> first, last |-> last]
    /\ UNCHANGED <<visits, visitor>>

\* The next point in event time order; the earliest one is at first.
TakesPoint(t) ==
    /\ batch.phase # "idle"
    /\ batch.phase = "loaded" => t = batch.first
    /\ batch.at <= t /\ t <= batch.last
    /\ batch' = [phase |-> "resolving", first |-> batch.first, at |-> t, last |-> batch.last]
    /\ UNCHANGED <<visits, visitor>>

\* The point lies inside one loaded visit.
ResolveInside(t, active) ==
    /\ TakesPoint(t)
    /\ \E v \in Candidates(t) :
        /\ Candidates(t) = {v}
        /\ work' = IF active THEN [work EXCEPT ![v] = Extended(v, t)] ELSE work

\* The point lies in no visit but shortly before one: that visit now starts at
\* the point.  It is no later than any activity of it, so nothing else changes.
ResolveBefore(t, active) ==
    /\ TakesPoint(t)
    /\ Candidates(t) = {}
    /\ \E v \in FutureSessions(t) :
        /\ FutureSessions(t) = {v}
        /\ work' = [work EXCEPT ![v].start = t]

\* A passive point outside every visit is credited to a visit, unchanged.
ResolvePassive(t, active) ==
    /\ TakesPoint(t)
    /\ Candidates(t) = {} /\ FutureSessions(t) = {}
    /\ ReusesVisit(t, active)
    /\ UNCHANGED work

\* The point starts a visit, after the open visit it ran out of is closed.
ResolveNew(t, active) ==
    /\ TakesPoint(t)
    /\ Candidates(t) = {} /\ FutureSessions(t) = {}
    /\ ~ReusesVisit(t, active)
    /\ LET expired == {v \in PreviousOpen(t) :
                          /\ v = Latest(PreviousOpen(t))
                          /\ t >= EffectiveEnd(work[v])}
       IN  \E new \in VisitIds \ (Rows(work) \union Rows(visits)) :
              work' = [v \in VisitIds |->
                          IF v = new THEN NewVisit(t)
                          ELSE IF v \in expired THEN Closed(work[v])
                          ELSE work[v]]

Resolve(t, active) ==
    \/ ResolveInside(t, active)
    \/ ResolveBefore(t, active)
    \/ ResolvePassive(t, active)
    \/ ResolveNew(t, active)

\* Mutant of Commit: the visitor's span is not widened.
CommitWithoutSpan ==
    /\ batch.phase = "resolving" /\ batch.at = batch.last
    /\ visits' = View
    /\ visitor' = IF visitor = Absent
                  THEN [first |-> batch.first, last |-> batch.first]
                  ELSE visitor
    /\ work' = NoRows
    /\ batch' = NoBatch

\* Every point is resolved: the rows are saved, the visitor's span is widened
\* and the transaction commits.
Commit ==
    /\ batch.phase = "resolving" /\ batch.at = batch.last
    /\ visits' = View
    /\ visitor' = IF visitor = Absent
                  THEN [first |-> batch.first, last |-> batch.last]
                  ELSE [first |-> Lesser(visitor.first, batch.first),
                        last  |-> Greater(visitor.last, batch.last)]
    /\ work' = NoRows
    /\ batch' = NoBatch

\* SessionResolutionError, a database error or a killed worker.
Rollback ==
    /\ batch.phase # "idle"
    /\ work' = NoRows
    /\ batch' = NoBatch
    /\ UNCHANGED <<visits, visitor>>

Next ==
    \/ \E first, last \in Times : Begin(first, last)
    \/ \E t \in Times, active \in BOOLEAN : Resolve(t, active)
    \/ Commit
    \/ Rollback

Spec == Init /\ [][Next]_vars

-----------------------------------------------------------------------------
(* Properties.                                                             *)

\* The intervals of two visits never share an instant, neither in the table nor
\* for the batch in progress: so a point lies in at most one visit and the
\* resolver never has to refuse one for overlapping several.
Disjoint(f) ==
    \A u, v \in Rows(f) :
        u # v => \/ EffectiveEnd(f[u]) <= f[v].start
                 \/ EffectiveEnd(f[v]) <= f[u].start

VisitsDisjoint == Disjoint(visits) /\ Disjoint(View)

\* The visitor has at most one visit that is not closed, also between two points
\* of a batch: the partial unique index trk_session_one_open_per_visitor is never
\* what stops a request.
OneOpen(f) ==
    \A u, v \in Rows(f) : f[u].end = Open /\ f[v].end = Open => u = v

AtMostOneOpenVisit == OneOpen(visits) /\ OneOpen(View)

\* The activity a visit has recorded lies inside the visit: moving its start back
\* and closing it at a cutoff never leave its last activity outside.
ActivityInside(f) ==
    \A v \in Rows(f) : Contains(f[v], f[v].last)

LastActivityInsideVisit == ActivityInside(visits) /\ ActivityInside(View)

\* A batch never takes recorded activity away from a visit: what was between its
\* start and its last activity stays there, so an event that is sent again is
\* resolved to the visit that holds it already.
SpanOnlyGrows ==
    [][\A v \in Rows(visits) :
          v \in Rows(visits)' => /\ visits'[v].start <= visits[v].start
                                 /\ visits'[v].last >= visits[v].last]_visits

\* The loaded rows are enough: a visit that is not loaded is closed and too far
\* from every point still to come to contain it or to be the visit after it.
WindowComplete ==
    batch.phase # "idle" =>
        \A v \in Rows(visits) \ Rows(work) :
            /\ visits[v].end # Open
            /\ \/ visits[v].start >= batch.last + LateWindow
               \/ visits[v].end < batch.first - LateWindow

-----------------------------------------------------------------------------
(* The inductive invariant behind them.                                    *)

\* More than disjointness: an open visit that is not the last one (the retention
\* job can remove the open visit and leave closed ones) is so far before the next
\* that neither can ever reach the other.
Separated(f) ==
    \A u, v \in Rows(f) :
        u # v /\ f[u].start <= f[v].start =>
            IF f[u].end = Open
            THEN /\ f[u].start + MaxDuration <= f[v].start
                 /\ f[u].start + 2 * MaxDuration <= f[v].last
            ELSE EffectiveEnd(f[u]) <= f[v].start

Sound(f) == ActivityInside(f) /\ OneOpen(f) /\ Separated(f)

BatchOrdered ==
    IF batch.phase = "idle" THEN work = NoRows
    ELSE batch.first <= batch.at /\ batch.at <= batch.last

\* A loaded row holds at least the span its committed row holds.
WorkGrows ==
    \A v \in Rows(visits) \intersect Rows(work) :
        work[v].start <= visits[v].start /\ visits[v].last <= work[v].last

IInv ==
    /\ TypeOK
    /\ BatchOrdered
    /\ WindowComplete
    /\ Sound(visits)
    /\ Sound(View)

=============================================================================
