----------------------------- MODULE VisitRows -----------------------------
(***************************************************************************)
(* Session rows (visits) and the questions the tracker asks about one of   *)
(* them: when it ends, whether an event time lies in it, what closing it   *)
(* leaves.  Shared by the modules that model the resolver, the identity    *)
(* fragments and the retention job.                                        *)
(***************************************************************************)
EXTENDS Integers

CONSTANTS
    Times,         \* event times a browser may send
    Timeout,       \* SESSION_EXPIRATION_SECONDS
    MaxDuration,   \* SESSION_MAX_DURATION_SECONDS
    LateWindow,    \* SESSION_LATE_EVENT_MAX_AGE_SECONDS
    Open,          \* ended_at of a row that is not closed (NULL)
    Absent         \* no such row

\* A Session row: the columns the resolver reads and writes.
Visit == [start: Nat, last: Nat, end: Nat \union {Open}]

\* A Visitor row.
VisitorRow == [first: Nat, last: Nat]

\* Ticks since the earliest representable time.
ASSUME TimesAssumption == Times \subseteq Nat

\* The shipped settings are 1800, 43200 and 86400 seconds.  The code takes them
\* from the environment and does not compare them.
ASSUME SettingsAssumption ==
    /\ Timeout \in Nat \ {0} /\ MaxDuration \in Nat /\ LateWindow \in Nat
    /\ Timeout <= MaxDuration
    /\ 2 * MaxDuration <= LateWindow

ASSUME SentinelAssumption ==
    /\ Open \notin Nat
    /\ Absent \notin Visit
    /\ Absent \notin VisitorRow

-----------------------------------------------------------------------------

Lesser(a, b) == IF a <= b THEN a ELSE b
Greater(a, b) == IF a >= b THEN a ELSE b

MaximumEnd(s) == s.start + MaxDuration

EffectiveEnd(s) ==
    Lesser(IF s.end = Open THEN s.last + Timeout ELSE s.end, MaximumEnd(s))

Contains(s, t) == s.start <= t /\ t < EffectiveEnd(s)

\* Mutant of InWindow: an open visit is loaded only when it starts nearby.
InWindowByStart(s, first, last) ==
    /\ s.start < last + LateWindow
    /\ (IF s.end = Open THEN s.start ELSE s.end) >= first - LateWindow

\* The row a batch over [first, last] loads.
InWindow(s, first, last) ==
    \/ s.end = Open
    \/ /\ s.start < last + LateWindow
       /\ s.end >= first - LateWindow

\* The row after _close_session at its cutoff.
Closed(s) ==
    LET end == Greater(s.start, EffectiveEnd(s))
    IN  [s EXCEPT !.end = end, !.last = Lesser(s.last, end)]

=============================================================================
