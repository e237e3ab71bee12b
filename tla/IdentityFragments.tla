------------------------- MODULE IdentityFragments -------------------------
(***************************************************************************)
(* Identity fragments (AnalyticsSession rows) of one visit.                *)
(*                                                                         *)
(* The analytics endpoint (apps/tracker/analytics_tracker.py) resolves the *)
(* events of a request to visits in one transaction and then gives each    *)
(* event its fragment in a transaction of its own: the row lock of the     *)
(* visit is free in between.  Meanwhile other requests of the visitor grow *)
(* the visit, move its start back or close it, fragments included          *)
(* (session_resolver.py), and the retention job may delete it.             *)
(*                                                                         *)
(* The events of one request meet only in the order they are placed, which *)
(* is the order of the request and not of time: each is an actor here.     *)
(* What module VisitSessions shows of a visit among its neighbours is used *)
(* here as what can happen to the one visit of this module.                *)
(***************************************************************************)
EXTENDS VisitRows, FiniteSets

CONSTANTS
    Events,        \* events that may be in progress
    FragmentIds,   \* primary keys of AnalyticsSession rows
    Identities,    \* pairs of user_id and company_id, the anonymous one included
    None,          \* an event that has no fragment, or no identity yet
    \* bound of the model
    MaxStored      \* stored events that are followed

VARIABLES
    visit,         \* the Session row
    fragments,     \* its AnalyticsSession rows
    event,         \* events in progress
    stored         \* AnalyticsEvent rows linked to the fragments

vars == <<visit, fragments, event, stored>>

Fragment == [identity: Identities, start: Nat, last: Nat, end: Nat \union {Open}]

ASSUME FragmentAssumption == Absent \notin Fragment /\ None \notin FragmentIds

\* An event whose visit was deleted after it had been resolved is stranded.
EventPhases == {"none", "resolved", "stranded", "placed"}

Event == [phase: EventPhases, at: Nat, identity: Identities \union {None},
          fragment: FragmentIds \union {None}]

StoredEvent == [at: Nat, identity: Identities, fragment: FragmentIds]

FragmentsTypeOK ==
    /\ visit \in Visit \union {Absent}
    /\ fragments \in [FragmentIds -> Fragment \union {Absent}]
    /\ event \in [Events -> Event]
    /\ stored \subseteq StoredEvent

NoRows == [f \in FragmentIds |-> Absent]

NoEvent == [phase |-> "none", at |-> 0, identity |-> None, fragment |-> None]

Init ==
    /\ visit = Absent
    /\ fragments = NoRows
    /\ event = [e \in Events |-> NoEvent]
    /\ stored = {}

Rows == {f \in FragmentIds : fragments[f] # Absent}

-----------------------------------------------------------------------------
(* The visit, as the resolver changes it.                                  *)

\* A visit that starts at t: open, or closed at its timeout or at a later visit.
Created(t) ==
    {[start |-> t, last |-> t, end |-> Open]}
    \union {[start |-> t, last |-> t, end |-> n] :
               n \in t + 1 .. Lesser(t + Timeout, t + MaxDuration)}

\* Activity at t inside it: a closed one ends later, at the next visit at most.
Grown(t) ==
    LET until == Lesser(t + Timeout, MaximumEnd(visit))
    IN  IF t <= visit.last THEN {visit}
        ELSE IF visit.end = Open THEN {[visit EXCEPT !.last = t]}
        ELSE {[visit EXCEPT !.last = t, !.end = n] :
                 n \in Lesser(EffectiveEnd(visit), until) .. until}

\* Mutant of MovedBack: the length of the visit is not checked.
MovedBackFar(t) ==
    IF t < visit.start /\ visit.start - t < Timeout
    THEN {[visit EXCEPT !.start = t]} ELSE {}

MovedBack(t) ==
    IF t < visit.start /\ visit.start - t < Timeout /\ visit.last < t + MaxDuration
    THEN {[visit EXCEPT !.start = t]} ELSE {}

\* What the visit may be after a point at t is resolved to it.
Resolved(t) ==
    IF visit = Absent THEN Created(t)
    ELSE IF Contains(visit, t) THEN Grown(t)
    ELSE MovedBack(t)

\* An event of the endpoint is resolved.
Resolve(e, t, identity) ==
    /\ event[e].phase = "none"
    /\ visit' \in Resolved(t)
    /\ event' = [event EXCEPT ![e] = [phase |-> "resolved", at |-> t,
                                      identity |-> identity, fragment |-> None]]
    /\ UNCHANGED <<fragments, stored>>

\* A point of the recording endpoint is.
Record(t) ==
    /\ visit # Absent
    /\ visit' \in Resolved(t)
    /\ UNCHANGED <<fragments, event, stored>>

\* Every open fragment of a visit ends with it.
CloseFragments(end) ==
    [f \in FragmentIds |->
        IF f \in Rows /\ fragments[f].end = Open
        THEN [fragments[f] EXCEPT !.end = end] ELSE fragments[f]]

\* A point past its end starts another visit: this one is closed.
Close ==
    /\ visit # Absent /\ visit.end = Open
    /\ visit' = Closed(visit)
    /\ fragments' = CloseFragments(visit'.end)
    /\ UNCHANGED <<event, stored>>

\* The retention job deletes it: the fragments stay behind, linked to no visit.
Delete ==
    /\ visit # Absent
    /\ visit' = Absent
    /\ fragments' = NoRows
    /\ stored' = {}
    /\ event' = [e \in Events |->
                    IF event[e].phase = "resolved"
                    THEN [event[e] EXCEPT !.phase = "stranded"]
                    ELSE IF event[e].phase = "placed"
                    THEN NoEvent
                    ELSE event[e]]

-----------------------------------------------------------------------------
(* The fragment of an event.                                               *)

FragmentContains(f, t) == f.start <= t /\ (f.end = Open \/ t < f.end)

Containing(t) == {f \in Rows : FragmentContains(fragments[f], t)}

LaterStarts(t) == {fragments[f].start : f \in {g \in Rows : fragments[g].start > t}}

\* The last of the fragments that start by t; the order of two that start
\* together is that of their random keys.
Previous(t) ==
    {f \in Rows : /\ fragments[f].start <= t
                  /\ \A g \in Rows : fragments[g].start <= t =>
                        fragments[g].start <= fragments[f].start}

\* Mutant of EndAt: the visit is not read again, and it was open then.
EndAtUnread(t) ==
    IF LaterStarts(t) = {} THEN Open
    ELSE CHOOSE n \in LaterStarts(t) : \A k \in LaterStarts(t) : n <= k

\* Where a fragment that takes over at t ends.
EndAt(t) ==
    IF LaterStarts(t) = {} THEN visit.end
    ELSE CHOOSE n \in LaterStarts(t) : \A k \in LaterStarts(t) : n <= k

\* Mutant of NewFragment: it is left open.
NewFragmentOpen(e, end) ==
    [identity |-> event[e].identity, start |-> event[e].at, last |-> event[e].at,
     end |-> Open]

NewFragment(e, end) ==
    [identity |-> event[e].identity, start |-> event[e].at, last |-> event[e].at,
     end |-> end]

PlacedIn(e, f) ==
    event' = [event EXCEPT ![e] = [event[e] EXCEPT !.phase = "placed",
                                                !.fragment = f]]

\* The event's identity is that of the fragment which contains it.
Join(e) ==
    \E f \in Containing(event[e].at) :
        /\ Containing(event[e].at) = {f}
        /\ fragments[f].identity = event[e].identity
        /\ fragments' = [fragments EXCEPT
                            ![f].last = Greater(fragments[f].last, event[e].at)]
        /\ PlacedIn(e, f)

\* Mutant of MaySplit: activity after the event does not matter.
MaySplitAnywhere(e, f) == fragments[f].identity # event[e].identity

\* The event's identity takes the containing fragment over, unless that has
\* recorded later activity.
MaySplit(e, f) ==
    /\ fragments[f].identity # event[e].identity
    /\ event[e].at >= fragments[f].last

Split(e) ==
    \E f \in Containing(event[e].at), new \in FragmentIds \ Rows :
        /\ Containing(event[e].at) = {f}
        /\ MaySplit(e, f)
        /\ fragments' = [fragments EXCEPT
                            ![f].end = event[e].at,
                            ![new] = NewFragment(e, fragments[f].end)]
        /\ PlacedIn(e, new)

\* The event is left unresolved: IdentityResolutionError.
Skip(e) ==
    /\ \/ Cardinality(Containing(event[e].at)) > 1
       \/ \E f \in Containing(event[e].at) :
             /\ Containing(event[e].at) = {f}
             /\ fragments[f].identity # event[e].identity
             /\ event[e].at < fragments[f].last
    /\ event' = [event EXCEPT ![e] = NoEvent]
    /\ UNCHANGED fragments

\* The fragment before the event takes it if it is of the same identity and ends
\* exactly there.
Continues(e, f) ==
    /\ fragments[f].identity = event[e].identity
    /\ fragments[f].end \in {Open, event[e].at}

Continue(e) ==
    /\ Containing(event[e].at) = {}
    /\ \E f \in Previous(event[e].at) :
        /\ Continues(e, f)
        /\ fragments' = [fragments EXCEPT
              ![f].end = IF fragments[f].end = event[e].at
                        THEN EndAt(event[e].at) ELSE fragments[f].end,
              ![f].last = Greater(fragments[f].last, event[e].at)]
        /\ PlacedIn(e, f)

Insert(e) ==
    /\ Containing(event[e].at) = {}
    /\ \/ Previous(event[e].at) = {}
       \/ \E f \in Previous(event[e].at) : ~Continues(e, f)
    /\ \E new \in FragmentIds \ Rows :
        /\ fragments' = [fragments EXCEPT ![new] = NewFragment(e, EndAt(event[e].at))]
        /\ PlacedIn(e, new)

\* Under the row lock of the visit.
Place(e) ==
    /\ event[e].phase = "resolved"
    /\ Join(e) \/ Split(e) \/ Skip(e) \/ Continue(e) \/ Insert(e)
    /\ UNCHANGED <<visit, stored>>

\* The request stores what it has placed.
Store(e) ==
    /\ event[e].phase = "placed"
    /\ Cardinality(stored) < MaxStored
    /\ stored' = stored \union {[at |-> event[e].at, identity |-> event[e].identity,
                                 fragment |-> event[e].fragment]}
    /\ event' = [event EXCEPT ![e] = NoEvent]
    /\ UNCHANGED <<visit, fragments>>

\* The request fails: the visit is gone, or the process is.  Fragments stay.
Fail(e) ==
    /\ event[e].phase # "none"
    /\ event' = [event EXCEPT ![e] = NoEvent]
    /\ UNCHANGED <<visit, fragments, stored>>

Next ==
    \/ \E e \in Events, t \in Times, identity \in Identities : Resolve(e, t, identity)
    \/ \E t \in Times : Record(t)
    \/ Close \/ Delete
    \/ \E e \in Events : Place(e) \/ Store(e) \/ Fail(e)

Spec == Init /\ [][Next]_vars

-----------------------------------------------------------------------------
(* Properties.                                                             *)

\* Two fragments of a visit never share an instant, so an event belongs to at most
\* one and none is refused for overlapping several.
FragmentsDisjoint ==
    \A f, g \in Rows :
        f # g => \/ fragments[f].end # Open /\ fragments[f].end <= fragments[g].start
                 \/ fragments[g].end # Open /\ fragments[g].end <= fragments[f].start

\* Whatever was placed stays attributable: the event lies in the span of activity
\* of its fragment, which ends no earlier, and has the fragment's identity.
Fits(x) ==
    LET f == fragments[x.fragment]
    IN  /\ f # Absent
        /\ f.identity = x.identity
        /\ f.start <= x.at /\ x.at <= f.last
        /\ f.end = Open \/ f.last <= f.end

EventsFitFragments ==
    /\ \A x \in stored : Fits(x)
    /\ \A e \in Events : event[e].phase = "placed" => Fits(event[e])

\* A closed visit has no open fragment, also when it is closed between the
\* resolution of an event and the creation of its fragment.
ClosedVisitClosesFragments ==
    visit # Absent /\ visit.end # Open => \A f \in Rows : fragments[f].end # Open

\* Activity attributed to a fragment, and an event that is still to be placed, lie
\* inside the visit, however its start and end have moved since.
ActivityInsideVisit ==
    /\ \A f \in Rows : Contains(visit, fragments[f].start)
                       /\ Contains(visit, fragments[f].last)
    /\ \A e \in Events : event[e].phase = "resolved" => Contains(visit, event[e].at)
=============================================================================
