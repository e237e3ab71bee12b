----------------------- MODULE IdentityFragmentsProofs -----------------------
(***************************************************************************)
(* The fragments of a visit stay disjoint, inside it and true to the       *)
(* events they were given, for every number of events, fragments and       *)
(* identities and every setting that satisfies SettingsAssumption.         *)
(***************************************************************************)
EXTENDS IdentityFragments, WellFoundedInduction, TLAPS

\* What a visit among its neighbours keeps (VisitSessions): its activity is inside it.
VisitSound ==
    visit # Absent =>
        /\ visit.start <= visit.last /\ visit.last < visit.start + MaxDuration
        /\ visit.end # Open => visit.last < visit.end

FragmentsOrdered ==
    \A f \in Rows :
        /\ fragments[f].start <= fragments[f].last
        /\ fragments[f].end # Open => fragments[f].last <= fragments[f].end

\* The fragments and the events still to be placed lie between the start and the last
\* activity of the visit, which is stronger than lying before its end.
InsideSpan ==
    /\ visit = Absent => Rows = {}
    /\ \A f \in Rows : /\ visit.start <= fragments[f].start
                       /\ fragments[f].last <= visit.last
    /\ \A e \in Events : event[e].phase = "resolved" =>
          visit # Absent /\ visit.start <= event[e].at /\ event[e].at <= visit.last

\* An event in progress has an identity, and a fragment once it is placed.
EventsIdentified ==
    \A e \in Events :
        /\ event[e].phase \in {"resolved", "placed"} => event[e].identity \in Identities
        /\ event[e].phase = "placed" => event[e].fragment \in FragmentIds

IInv ==
    /\ FragmentsTypeOK /\ VisitSound /\ FragmentsOrdered /\ InsideSpan
    /\ EventsIdentified
    /\ FragmentsDisjoint /\ ClosedVisitClosesFragments /\ EventsFitFragments

-----------------------------------------------------------------------------
(* The visit.                                                              *)

\* A visit that takes a point contains it and reaches at least as far as before.
LEMMA VisitStep ==
    ASSUME visit \in Visit \union {Absent}, VisitSound,
           NEW t \in Times, visit' \in Resolved(t)
    PROVE  /\ visit' \in Visit /\ visit' # Absent /\ VisitSound'
           /\ visit'.start <= t /\ t <= visit'.last
           /\ visit # Absent => /\ visit'.start <= visit.start
                                /\ visit.last <= visit'.last
                                /\ visit'.end = Open <=> visit.end = Open
<1>0. t \in Nat /\ Absent \notin Visit /\ Open \notin Nat
  BY TimesAssumption, SentinelAssumption
<1>1. CASE visit = Absent
  BY <1>0, <1>1, SettingsAssumption
     DEF Resolved, Created, Lesser, Visit, VisitSound
<1>2. CASE visit # Absent /\ Contains(visit, t)
  <2>1. visit' \in Grown(t)
    BY <1>2 DEF Resolved
  <2>2. visit \in Visit /\ visit.start <= t /\ t < EffectiveEnd(visit)
        /\ EffectiveEnd(visit) \in Nat /\ EffectiveEnd(visit) <= visit.start + MaxDuration
    BY <1>0, <1>2, SettingsAssumption
       DEF Contains, EffectiveEnd, MaximumEnd, Lesser, Visit
  <2>3. CASE t <= visit.last
    BY <1>0, <1>2, <2>1, <2>2, <2>3, SettingsAssumption DEF Grown, VisitSound, Visit
  <2>4. CASE t > visit.last /\ visit.end = Open
    <3>1. visit' = [visit EXCEPT !.last = t]
      BY <1>0, <2>1, <2>2, <2>4 DEF Grown, Visit
    <3>2. visit' \in Visit /\ visit'.start = visit.start /\ visit'.last = t /\ visit'.end = Open
      BY <1>0, <2>2, <2>4, <3>1 DEF Visit
    <3>3. QED
      BY <1>0, <1>2, <2>2, <2>4, <3>2, SettingsAssumption DEF VisitSound, Visit
  <2>5. CASE t > visit.last /\ visit.end # Open
    <3> DEFINE until == Lesser(t + Timeout, MaximumEnd(visit))
               earliest == Lesser(EffectiveEnd(visit), until)
    <3>1. until \in Nat /\ t < until
      <4>1. /\ visit.start \in Nat /\ t < visit.start + MaxDuration
            /\ Timeout \in Nat /\ Timeout > 0 /\ MaxDuration \in Nat
        BY <1>0, <2>2, SettingsAssumption DEF Visit
      <4>2. QED
        BY <1>0, <4>1 DEF Lesser, MaximumEnd
    <3>2. earliest \in Nat /\ t < earliest
      BY <1>0, <2>2, <3>1 DEF Lesser
    <3>3. visit' \in {[visit EXCEPT !.last = t, !.end = n] : n \in earliest .. until}
      <4>1. ~ (t <= visit.last)
        BY <1>0, <2>2, <2>5 DEF Visit
      <4>2. QED
        BY <2>1, <2>5, <4>1 DEF Grown
    <3> HIDE DEF until, earliest
    <3>4. PICK n \in earliest .. until : visit' = [visit EXCEPT !.last = t, !.end = n]
      BY <3>3
    <3>5. n \in Nat /\ t < n
      BY <1>0, <3>1, <3>2
    <3>6. visit' \in Visit /\ visit'.start = visit.start /\ visit'.last = t /\ visit'.end = n
      BY <1>0, <2>2, <3>4, <3>5 DEF Visit
    <3>7. QED
      BY <1>0, <1>2, <2>2, <2>5, <3>5, <3>6, SettingsAssumption DEF VisitSound, Visit
  <2>6. QED
    BY <1>0, <2>2, <2>3, <2>4, <2>5 DEF Visit
<1>3. CASE visit # Absent /\ ~ Contains(visit, t)
  BY <1>0, <1>3, SettingsAssumption DEF Resolved, MovedBack, VisitSound, Visit
<1>4. QED
  BY <1>1, <1>2, <1>3

\* A closed visit keeps its activity.
LEMMA ClosedVisit ==
    ASSUME visit \in Visit, visit.end = Open, VisitSound
    PROVE  /\ Closed(visit) \in Visit
           /\ Closed(visit).start = visit.start /\ Closed(visit).last = visit.last
           /\ Closed(visit).end \in Nat /\ visit.last < Closed(visit).end
<1>0. visit # Absent /\ visit.start \in Nat /\ visit.last \in Nat
  BY SentinelAssumption DEF Visit
<1>1. EffectiveEnd(visit) \in Nat /\ visit.last < EffectiveEnd(visit)
  BY <1>0, SettingsAssumption DEF EffectiveEnd, MaximumEnd, Lesser, VisitSound
<1>2. Greater(visit.start, EffectiveEnd(visit)) = EffectiveEnd(visit)
      /\ Lesser(visit.last, EffectiveEnd(visit)) = visit.last
  BY <1>0, <1>1 DEF Greater, Lesser, VisitSound
<1>3. QED
  BY <1>0, <1>1, <1>2 DEF Closed, Visit

-----------------------------------------------------------------------------
(* Where a fragment ends.                                                  *)

\* A nonempty set of times has a least element.
LEMMA LeastStart ==
    ASSUME NEW T, T \subseteq Nat, T # {}
    PROVE  \E n \in T : \A k \in T : n <= k
<1> DEFINE Before == OpToRel(<, Nat)
<1>1. IsWellFoundedOn(Before, Nat)
  BY NatLessThanWellFounded
<1>2. \E n \in T : \A k \in T : ~ (<<k, n>> \in Before)
  BY <1>1, WFMin
<1>3. \A n, k \in Nat : <<k, n>> \in Before <=> k < n
  BY DEF OpToRel
<1> HIDE DEF Before
<1>4. PICK n \in T : \A k \in T : ~ (<<k, n>> \in Before)
  BY <1>2
<1>5. \A k \in T : n \in Nat /\ k \in Nat /\ ~ (k < n)
  BY <1>3, <1>4
<1>6. \A k \in T : n <= k
  BY <1>5
<1>7. QED
  BY <1>6

\* A fragment that takes over at t ends by the next one, and with a closed visit.
LEMMA EndAtBounds ==
    ASSUME fragments \in [FragmentIds -> Fragment \union {Absent}],
           visit \in Visit, NEW t \in Nat
    PROVE  /\ EndAt(t) \in Nat \union {Open}
           /\ \A g \in Rows : fragments[g].start > t =>
                 EndAt(t) # Open /\ EndAt(t) <= fragments[g].start
           /\ EndAt(t) = visit.end \/ (EndAt(t) \in Nat /\ EndAt(t) > t)
<1>1. LaterStarts(t) \subseteq {n \in Nat : n > t}
  BY DEF LaterStarts, Rows, Fragment
<1>2. CASE LaterStarts(t) = {}
  BY <1>2 DEF LaterStarts, EndAt, Visit
<1>3. CASE LaterStarts(t) # {}
  <2>1. \E n \in LaterStarts(t) : \A k \in LaterStarts(t) : n <= k
    BY <1>1, <1>3, LeastStart
  <2>2. EndAt(t) \in LaterStarts(t) /\ \A k \in LaterStarts(t) : EndAt(t) <= k
    BY <1>3, <2>1 DEF EndAt
  <2>3. \A g \in Rows : fragments[g].start > t => fragments[g].start \in LaterStarts(t)
    BY DEF LaterStarts
  <2>4. QED
    BY <1>1, <2>2, <2>3, SentinelAssumption
<1>4. QED
  BY <1>2, <1>3

-----------------------------------------------------------------------------
(* Placing an event.                                                       *)

\* Two fragments without a common instant.
Apart(a, b) == \/ a.end # Open /\ a.end <= b.start
               \/ b.end # Open /\ b.end <= a.start

\* What the steps that place an event have in common.
EventAt(e) ==
    /\ event[e].at \in Nat /\ event[e].identity \in Identities
    /\ visit \in Visit /\ visit.start <= event[e].at /\ event[e].at <= visit.last
    /\ visit.end # Open => event[e].at < visit.end

LEMMA ResolvedEvent ==
    ASSUME IInv, NEW e \in Events, event[e].phase = "resolved"
    PROVE  EventAt(e)
<1>1. event[e] \in Event /\ visit \in Visit
  BY SentinelAssumption DEF IInv, FragmentsTypeOK, InsideSpan
<1>2. event[e].at \in Nat /\ event[e].identity \in Identities
  BY <1>1 DEF IInv, EventsIdentified, Event
<1>3. visit.start <= event[e].at /\ event[e].at <= visit.last /\ visit # Absent
  BY DEF IInv, InsideSpan
<1>4. QED
  BY <1>1, <1>2, <1>3 DEF EventAt, IInv, VisitSound, Visit

\* The step changes or adds the rows of H alone: they are in order, inside the visit
\* and apart from all others.
ChangesOnly(H) ==
    /\ visit \in Visit /\ visit' = visit
    /\ fragments' \in [FragmentIds -> Fragment \union {Absent}]
    /\ \A f \in FragmentIds \ H : fragments'[f] = fragments[f]
    /\ \A h \in H : /\ fragments'[h] \in Fragment
                    /\ fragments'[h].start <= fragments'[h].last
                    /\ fragments'[h].end # Open => fragments'[h].last <= fragments'[h].end
                    /\ visit.start <= fragments'[h].start /\ fragments'[h].last <= visit.last
                    /\ visit.end # Open => fragments'[h].end # Open
    /\ \A h \in H, g \in Rows' : h # g => Apart(fragments'[h], fragments'[g])

\* What it leaves.
RowsSound ==
    /\ FragmentsOrdered' /\ FragmentsDisjoint' /\ ClosedVisitClosesFragments'
    /\ fragments' \in [FragmentIds -> Fragment \union {Absent}]
    /\ \A f \in Rows' : visit.start <= fragments'[f].start /\ fragments'[f].last <= visit.last

LEMMA RowsStep ==
    ASSUME IInv, NEW H \in SUBSET FragmentIds, ChangesOnly(H)
    PROVE  Rows' = Rows \union H /\ RowsSound
<1> USE DEF ChangesOnly
<1>1. fragments \in [FragmentIds -> Fragment \union {Absent}]
  BY DEF IInv, FragmentsTypeOK
<1>4. Rows' = Rows \union H
  BY FragmentAssumption DEF Rows
<1>5. \A f \in Rows' \ H : f \in Rows /\ fragments'[f] = fragments[f]
  BY <1>4 DEF Rows
<1>6. FragmentsOrdered'
  BY <1>5 DEF FragmentsOrdered, IInv
<1>7. FragmentsDisjoint'
  <2>1. \A f, g \in Rows : f # g => Apart(fragments[f], fragments[g])
    BY DEF IInv, FragmentsDisjoint, Apart
  <2>2. ASSUME NEW f \in Rows', NEW g \in Rows', f # g
        PROVE  Apart(fragments'[f], fragments'[g])
    <3>1. CASE f \in H
      BY <2>2, <3>1
    <3>2. CASE g \in H
      BY <2>2, <3>2 DEF Apart
    <3>3. CASE f \notin H /\ g \notin H
      BY <1>5, <2>1, <2>2, <3>3
    <3>4. QED
      BY <3>1, <3>2, <3>3
  <2>3. QED
    BY <2>2 DEF FragmentsDisjoint, Apart
<1>8. ClosedVisitClosesFragments'
  BY <1>5 DEF ClosedVisitClosesFragments, IInv
<1>9. \A f \in Rows' : visit.start <= fragments'[f].start /\ fragments'[f].last <= visit.last
  BY <1>5 DEF InsideSpan, IInv
<1>10. QED
  BY <1>4, <1>6, <1>7, <1>8, <1>9 DEF RowsSound

\* No row is taken from the events it was given.
Keeps ==
    \A f \in Rows : /\ f \in Rows' /\ fragments'[f].identity = fragments[f].identity
                    /\ fragments'[f].start = fragments[f].start
                    /\ fragments[f].last <= fragments'[f].last

\* Placing e in a row that fits it.
Placed(e) ==
    \E f \in Rows' : /\ PlacedIn(e, f)
                     /\ fragments'[f].identity = event[e].identity
                     /\ fragments'[f].start <= event[e].at
                     /\ event[e].at <= fragments'[f].last

LEMMA PlacedInv ==
    ASSUME IInv, NEW e \in Events, event[e].phase = "resolved", Keeps, Placed(e),
           visit' = visit, stored' = stored, RowsSound
    PROVE  IInv'
<1> USE DEF RowsSound
<1>1. EventAt(e)
  BY ResolvedEvent
<1>2. PICK f \in Rows' : /\ PlacedIn(e, f)
                         /\ fragments'[f].identity = event[e].identity
                         /\ fragments'[f].start <= event[e].at
                         /\ event[e].at <= fragments'[f].last
  BY DEF Placed
<1>3. f \in FragmentIds /\ Absent \notin Fragment
  BY FragmentAssumption DEF Rows
<1>4. event \in [Events -> Event] /\ event[e] \in Event
  BY DEF IInv, FragmentsTypeOK
<1>5. /\ event'[e] = [event[e] EXCEPT !.phase = "placed", !.fragment = f]
      /\ event'[e] \in Event
      /\ \A d \in Events \ {e} : event'[d] = event[d]
      /\ event' \in [Events -> Event]
  BY <1>2, <1>3, <1>4 DEF PlacedIn, Event, EventPhases
<1>6. /\ event'[e].phase = "placed" /\ event'[e].fragment = f
      /\ event'[e].at = event[e].at /\ event'[e].identity = event[e].identity
  BY <1>4, <1>5 DEF Event
<1>7. FragmentsTypeOK'
  BY <1>5 DEF IInv, FragmentsTypeOK
<1>8. VisitSound'
  BY DEF IInv, VisitSound
<1>9. InsideSpan'
  <2>1. visit # Absent /\ visit' # Absent
    BY <1>1, SentinelAssumption DEF EventAt
  <2>2. \A d \in Events : event'[d].phase = "resolved" => event[d].phase = "resolved" /\ d # e
    BY <1>5, <1>6
  <2>3. QED
    BY <1>5, <2>1, <2>2 DEF IInv, InsideSpan
<1>10. EventsIdentified'
  BY <1>1, <1>3, <1>5, <1>6 DEF IInv, EventsIdentified, EventAt
<1>11. EventsFitFragments'
  <2>1. \A g \in Rows' : fragments'[g] # Absent
                         /\ (fragments'[g].end = Open \/ fragments'[g].last <= fragments'[g].end)
    BY DEF FragmentsOrdered, Rows
  <2>2. ASSUME NEW x, x.at \in Nat, x.fragment \in FragmentIds, Fits(x)
        PROVE  LET g == fragments'[x.fragment]
               IN  /\ g # Absent /\ g.identity = x.identity
                   /\ g.start <= x.at /\ x.at <= g.last
                   /\ g.end = Open \/ g.last <= g.end
    <3>1. x.fragment \in Rows /\ x.fragment \in Rows'
      BY <2>2 DEF Fits, Rows, Keeps
    <3>2. fragments[x.fragment] \in Fragment /\ fragments'[x.fragment] \in Fragment
      BY <2>2, <3>1 DEF IInv, FragmentsTypeOK, Rows
    <3>3. /\ fragments[x.fragment].last \in Nat /\ fragments'[x.fragment].last \in Nat
      BY <3>2 DEF Fragment
    <3>4. QED
      BY <2>1, <2>2, <3>1, <3>3 DEF Fits, Keeps
  <2>3. \A x \in stored : x.at \in Nat /\ x.fragment \in FragmentIds /\ Fits(x)
    BY DEF IInv, FragmentsTypeOK, EventsFitFragments, StoredEvent
  <2>4. \A d \in Events \ {e} : event[d].phase = "placed" =>
            event[d].at \in Nat /\ event[d].fragment \in FragmentIds /\ Fits(event[d])
    <3> SUFFICES ASSUME NEW d \in Events \ {e}, event[d].phase = "placed"
                 PROVE  event[d].at \in Nat /\ event[d].fragment \in FragmentIds
                        /\ Fits(event[d])
      OBVIOUS
    <3>1. event[d] \in Event /\ Fits(event[d])
      BY <1>4 DEF IInv, EventsFitFragments
    <3>2. QED
      BY <3>1 DEF Event, IInv, EventsIdentified
  <2>5. \A x \in stored' : Fits(x)'
    BY <2>2, <2>3 DEF Fits
  <2>6. \A d \in Events \ {e} : event'[d].phase = "placed" => Fits(event[d])'
    <3> SUFFICES ASSUME NEW d \in Events \ {e}, event'[d].phase = "placed"
                 PROVE  Fits(event[d])'
      OBVIOUS
    <3>1. event'[d] = event[d]
      BY <1>5
    <3>2. QED
      BY <2>2, <2>4, <3>1 DEF Fits
  <2>7. Fits(event[e])'
    BY <1>2, <1>6, <2>1 DEF Fits, Rows
  <2>8. QED
    BY <2>5, <2>6, <2>7 DEF EventsFitFragments
<1>12. QED
  BY <1>7, <1>8, <1>9, <1>10, <1>11 DEF IInv

\* What is known of the row of a fragment.
LEMMA RowFacts ==
    ASSUME IInv, NEW f \in Rows
    PROVE  /\ f \in FragmentIds /\ fragments[f] \in Fragment
           /\ fragments[f].start \in Nat /\ fragments[f].last \in Nat
           /\ fragments[f].end \in Nat \union {Open}
           /\ fragments[f].start <= fragments[f].last
           /\ fragments[f].end # Open => fragments[f].last <= fragments[f].end
           /\ visit \in Visit
           /\ visit.start <= fragments[f].start /\ fragments[f].last <= visit.last
           /\ visit.end # Open => fragments[f].end # Open
           /\ \A g \in Rows \ {f} : Apart(fragments[f], fragments[g])
<1>1. f \in FragmentIds /\ fragments[f] \in Fragment /\ visit \in Visit /\ visit # Absent
  BY DEF IInv, FragmentsTypeOK, InsideSpan, Rows
<1>2. \A g \in Rows \ {f} : Apart(fragments[f], fragments[g])
  BY DEF IInv, FragmentsDisjoint, Apart
<1>3. QED
  BY <1>1, <1>2 DEF IInv, FragmentsOrdered, InsideSpan, ClosedVisitClosesFragments, Fragment

LEMMA JoinInv ==
    ASSUME IInv, NEW e \in Events, event[e].phase = "resolved", Join(e),
           visit' = visit, stored' = stored
    PROVE  IInv'
<1> DEFINE t == event[e].at
<1>1. EventAt(e)
  BY ResolvedEvent
<1>2. PICK f \in Containing(t) :
         /\ fragments[f].identity = event[e].identity
         /\ fragments' = [fragments EXCEPT ![f].last = Greater(fragments[f].last, t)]
         /\ PlacedIn(e, f)
  BY DEF Join
<1>3. f \in Rows /\ fragments[f].start <= t /\ (fragments[f].end = Open \/ t < fragments[f].end)
  BY DEF Containing, FragmentContains
<1> DEFINE r == [fragments[f] EXCEPT !.last = Greater(fragments[f].last, t)]
<1>4. fragments \in [FragmentIds -> Fragment \union {Absent}] /\ f \in FragmentIds
  BY <1>3, RowFacts DEF IInv, FragmentsTypeOK
<1>5. fragments' = [fragments EXCEPT ![f] = r]
  BY <1>2
<1>6. /\ fragments'[f] = r /\ \A g \in FragmentIds \ {f} : fragments'[g] = fragments[g]
  BY <1>4, <1>5
<1>7. /\ r \in Fragment /\ r.identity = fragments[f].identity /\ r.start = fragments[f].start
      /\ r.end = fragments[f].end
      /\ r.last \in {fragments[f].last, t} /\ fragments[f].last <= r.last /\ t <= r.last
  BY <1>1, <1>3, RowFacts DEF Fragment, Greater, EventAt
<1> HIDE DEF r
<1>8. \A g \in Rows' : g # f => Apart(r, fragments'[g])
  BY <1>3, <1>6, <1>7, RowFacts DEF Apart, Rows
<1>9. r.start <= r.last /\ (r.end # Open => r.last <= r.end) /\ visit.start <= r.start
      /\ r.last <= visit.last /\ (visit.end # Open => r.end # Open) /\ visit \in Visit
  BY <1>1, <1>3, <1>7, RowFacts, SentinelAssumption DEF EventAt
<1>10. Rows' = Rows \union {f} /\ RowsSound
  <2>1. fragments' \in [FragmentIds -> Fragment \union {Absent}]
    BY <1>4, <1>5, <1>7
  <2>2. ChangesOnly({f})
    BY <1>6, <1>7, <1>8, <1>9, <2>1 DEF ChangesOnly
  <2>3. QED
    BY <1>4, <2>2, RowsStep
<1>11. Keeps
  BY <1>6, <1>7, <1>10, RowFacts DEF Keeps
<1>12. Placed(e)
  BY <1>2, <1>3, <1>6, <1>7, <1>10 DEF Placed
<1>13. QED
  BY <1>10, <1>11, <1>12, PlacedInv

LEMMA SplitInv ==
    ASSUME IInv, NEW e \in Events, event[e].phase = "resolved", Split(e),
           visit' = visit, stored' = stored
    PROVE  IInv'
<1> DEFINE t == event[e].at
<1>1. EventAt(e)
  BY ResolvedEvent
<1>2. PICK f \in Containing(t), new \in FragmentIds \ Rows :
         /\ t >= fragments[f].last
         /\ fragments' = [fragments EXCEPT ![f].end = t,
                                           ![new] = NewFragment(e, fragments[f].end)]
         /\ PlacedIn(e, new)
  BY DEF Split, MaySplit
<1>3. f \in Rows /\ fragments[f].start <= t /\ (fragments[f].end = Open \/ t < fragments[f].end)
  BY DEF Containing, FragmentContains
<1> DEFINE r == [fragments[f] EXCEPT !.end = t]
           n == NewFragment(e, fragments[f].end)
<1>4. /\ fragments \in [FragmentIds -> Fragment \union {Absent}]
      /\ f \in FragmentIds /\ new \in FragmentIds /\ new # f
  BY <1>3, RowFacts DEF IInv, FragmentsTypeOK
<1>5. fragments' = [fragments EXCEPT ![f] = r, ![new] = n]
  BY <1>2
<1>6. /\ fragments'[f] = r /\ fragments'[new] = n
      /\ \A g \in FragmentIds \ {f, new} : fragments'[g] = fragments[g]
  BY <1>4, <1>5
<1>7. /\ r \in Fragment /\ r.identity = fragments[f].identity /\ r.start = fragments[f].start
      /\ r.end = t /\ r.last = fragments[f].last
  BY <1>1, <1>3, RowFacts DEF Fragment, EventAt
<1>8. /\ n \in Fragment /\ n.identity = event[e].identity /\ n.start = t /\ n.last = t
      /\ n.end = fragments[f].end
  BY <1>1, <1>3, RowFacts DEF NewFragment, Fragment, EventAt
<1> HIDE DEF r, n
<1>9. t \in Nat /\ t # Open
  BY <1>1, SentinelAssumption DEF EventAt
<1>10. \A g \in Rows \ {f} : Apart(r, fragments[g]) /\ Apart(n, fragments[g])
  <2> SUFFICES ASSUME NEW g \in Rows \ {f}
               PROVE  Apart(r, fragments[g]) /\ Apart(n, fragments[g])
    OBVIOUS
  <2>1. /\ fragments[g].start \in Nat /\ fragments[g].end \in Nat \union {Open}
        /\ fragments[f].start \in Nat /\ fragments[f].end \in Nat \union {Open}
        /\ Apart(fragments[f], fragments[g])
    BY <1>3, RowFacts
  <2>2. QED
    BY <1>3, <1>7, <1>8, <1>9, <2>1, SentinelAssumption DEF Apart
<1>11. Apart(r, n) /\ Apart(n, r)
  BY <1>7, <1>8, <1>9 DEF Apart
<1>12. \A g \in Rows' \ {f, new} : g \in Rows \ {f} /\ fragments'[g] = fragments[g]
  BY <1>6 DEF Rows
<1>13. \A h \in {f, new}, g \in Rows' : h # g => Apart(fragments'[h], fragments'[g])
  BY <1>6, <1>10, <1>11, <1>12
<1>14. /\ r.start <= r.last /\ r.last <= r.end /\ visit.start <= r.start
       /\ r.last <= visit.last /\ r.end # Open /\ visit \in Visit
  BY <1>2, <1>3, <1>7, <1>9, RowFacts
<1>15. /\ n.start <= n.last /\ (n.end # Open => n.last <= n.end) /\ visit.start <= n.start
       /\ n.last <= visit.last /\ (visit.end # Open => n.end # Open)
  BY <1>1, <1>3, <1>8, <1>9, RowFacts DEF EventAt
<1>16. Rows' = Rows \union {f, new} /\ RowsSound
  <2>1. fragments' \in [FragmentIds -> Fragment \union {Absent}]
    BY <1>4, <1>5, <1>7, <1>8
  <2>2. ChangesOnly({f, new})
    BY <1>6, <1>7, <1>8, <1>13, <1>14, <1>15, <2>1 DEF ChangesOnly
  <2>3. QED
    BY <1>4, <2>2, RowsStep
<1>17. Keeps
  BY <1>6, <1>7, <1>16, RowFacts DEF Keeps, Rows
<1>18. Placed(e)
  BY <1>2, <1>6, <1>8, <1>9, <1>16 DEF Placed
<1>19. QED
  BY <1>16, <1>17, <1>18, PlacedInv

\* The fragments that start by t are over by then if none contains it.
LEMMA EarlierRows ==
    ASSUME IInv, NEW t \in Nat, Containing(t) = {}
    PROVE  \A g \in Rows : fragments[g].start <= t =>
               fragments[g].end # Open /\ fragments[g].end <= t
<1> SUFFICES ASSUME NEW g \in Rows, fragments[g].start <= t
             PROVE  fragments[g].end # Open /\ fragments[g].end <= t
  OBVIOUS
<1>1. ~ FragmentContains(fragments[g], t)
  BY DEF Containing
<1>2. fragments[g].end \in Nat \union {Open}
  BY RowFacts
<1>3. QED
  BY <1>1, <1>2 DEF FragmentContains

\* A row that begins at t, or ended there, may last until EndAt(t).
LEMMA UntilEndAt ==
    ASSUME IInv, NEW e \in Events, EventAt(e), Containing(event[e].at) = {}
    PROVE  /\ EndAt(event[e].at) \in Nat \union {Open}
           /\ EndAt(event[e].at) # Open => event[e].at <= EndAt(event[e].at)
           /\ visit.end # Open => EndAt(event[e].at) # Open
           /\ \A g \in Rows : \/ /\ fragments[g].end # Open
                                 /\ fragments[g].start <= event[e].at
                                 /\ fragments[g].end <= event[e].at
                              \/ /\ fragments[g].start > event[e].at
                                 /\ EndAt(event[e].at) # Open
                                 /\ EndAt(event[e].at) <= fragments[g].start
<1> DEFINE t == event[e].at
<1>1. t \in Nat /\ visit \in Visit /\ (visit.end # Open => t < visit.end)
      /\ visit.end \in Nat \union {Open} /\ Open \notin Nat
  BY SentinelAssumption DEF EventAt, Visit
<1>2. fragments \in [FragmentIds -> Fragment \union {Absent}]
  BY DEF IInv, FragmentsTypeOK
<1>3. /\ EndAt(t) \in Nat \union {Open}
      /\ \A g \in Rows : fragments[g].start > t =>
            EndAt(t) # Open /\ EndAt(t) <= fragments[g].start
      /\ EndAt(t) = visit.end \/ (EndAt(t) \in Nat /\ EndAt(t) > t)
  BY <1>1, <1>2, EndAtBounds
<1>4. \A g \in Rows : fragments[g].start <= t => fragments[g].end # Open /\ fragments[g].end <= t
  BY <1>1, EarlierRows
<1>5. \A g \in Rows : fragments[g].start \in Nat
  BY RowFacts
<1> HIDE DEF t
<1>6. QED
  <2>1. EndAt(t) # Open => t <= EndAt(t)
    BY <1>1, <1>3
  <2>2. visit.end # Open => EndAt(t) # Open
    BY <1>1, <1>3
  <2>3. \A g \in Rows : fragments[g].start <= t \/ fragments[g].start > t
    BY <1>1, <1>5
  <2>4. QED
    BY <1>3, <1>4, <2>1, <2>2, <2>3 DEF t

LEMMA InsertInv ==
    ASSUME IInv, NEW e \in Events, event[e].phase = "resolved", Insert(e),
           visit' = visit, stored' = stored
    PROVE  IInv'
<1> DEFINE t == event[e].at
<1>1. EventAt(e) /\ Containing(t) = {}
  BY ResolvedEvent DEF Insert
<1>2. PICK new \in FragmentIds \ Rows :
         /\ fragments' = [fragments EXCEPT ![new] = NewFragment(e, EndAt(t))]
         /\ PlacedIn(e, new)
  BY DEF Insert
<1> DEFINE n == NewFragment(e, EndAt(t))
<1>3. fragments \in [FragmentIds -> Fragment \union {Absent}]
  BY DEF IInv, FragmentsTypeOK
<1>4. t \in Nat /\ Open \notin Nat /\ visit \in Visit
  BY <1>1, SentinelAssumption DEF EventAt
<1>5. fragments'[new] = n /\ \A g \in FragmentIds \ {new} : fragments'[g] = fragments[g]
  BY <1>2, <1>3
<1>6. /\ n \in Fragment /\ n.identity = event[e].identity /\ n.start = t /\ n.last = t
      /\ n.end = EndAt(t)
  BY <1>1, <1>4, UntilEndAt DEF NewFragment, Fragment, EventAt
<1>7. fragments' \in [FragmentIds -> Fragment \union {Absent}]
  BY <1>2, <1>3, <1>6
<1> HIDE DEF n
<1>8. \A g \in Rows : Apart(n, fragments[g])
  BY <1>1, <1>6, UntilEndAt DEF Apart
<1>9. \A h \in {new}, g \in Rows' : h # g => Apart(fragments'[h], fragments'[g])
  BY <1>5, <1>8 DEF Rows
<1>10. /\ n.start <= n.last /\ (n.end # Open => n.last <= n.end) /\ visit.start <= n.start
       /\ n.last <= visit.last /\ (visit.end # Open => n.end # Open)
  BY <1>1, <1>4, <1>6, UntilEndAt DEF EventAt
<1>11. Rows' = Rows \union {new} /\ RowsSound
  <2>1. ChangesOnly({new})
    BY <1>4, <1>5, <1>6, <1>7, <1>9, <1>10 DEF ChangesOnly
  <2>2. QED
    BY <2>1, RowsStep
<1>12. Keeps
  BY <1>5, <1>11, RowFacts DEF Keeps
<1>13. Placed(e)
  BY <1>2, <1>4, <1>5, <1>6, <1>11 DEF Placed
<1>14. QED
  BY <1>11, <1>12, <1>13, PlacedInv

LEMMA ContinueInv ==
    ASSUME IInv, NEW e \in Events, event[e].phase = "resolved", Continue(e),
           visit' = visit, stored' = stored
    PROVE  IInv'
<1> DEFINE t == event[e].at
<1>1. EventAt(e) /\ Containing(t) = {}
  BY ResolvedEvent DEF Continue
<1>2. t \in Nat /\ Open \notin Nat /\ visit \in Visit
  BY <1>1, SentinelAssumption DEF EventAt
<1>3. PICK f \in Previous(t) :
         /\ Continues(e, f)
         /\ fragments' = [fragments EXCEPT
               ![f].end = IF fragments[f].end = t THEN EndAt(t) ELSE fragments[f].end,
               ![f].last = Greater(fragments[f].last, t)]
         /\ PlacedIn(e, f)
  BY DEF Continue
<1>4. /\ f \in Rows /\ fragments[f].start <= t
      /\ \A g \in Rows : fragments[g].start <= t => fragments[g].start <= fragments[f].start
  BY DEF Previous
<1>5. fragments[f].end = t /\ fragments[f].identity = event[e].identity
  BY <1>1, <1>2, <1>3, <1>4, EarlierRows DEF Continues
<1>6. fragments[f].last <= t
  BY <1>2, <1>4, <1>5, RowFacts
<1> DEFINE r == [fragments[f] EXCEPT !.end = EndAt(t), !.last = Greater(fragments[f].last, t)]
<1>7. fragments \in [FragmentIds -> Fragment \union {Absent}] /\ f \in FragmentIds
  BY <1>4, RowFacts DEF IInv, FragmentsTypeOK
<1>8. fragments' = [fragments EXCEPT ![f] = r]
  <2>1. (IF fragments[f].end = t THEN EndAt(t) ELSE fragments[f].end) = EndAt(t)
    BY <1>5
  <2>2. fragments' = [fragments EXCEPT ![f].end = EndAt(t),
                                       ![f].last = Greater(fragments[f].last, t)]
    BY <1>3, <2>1
  <2> HIDE DEF t
  <2>3. QED
    BY <1>7, <2>2
<1>9. fragments'[f] = r /\ \A g \in FragmentIds \ {f} : fragments'[g] = fragments[g]
  BY <1>7, <1>8
<1>10. Greater(fragments[f].last, t) = t
  BY <1>2, <1>4, <1>6, RowFacts DEF Greater
<1>11. /\ r \in Fragment /\ r.identity = event[e].identity /\ r.start = fragments[f].start
       /\ r.last = t /\ r.end = EndAt(t)
  BY <1>1, <1>2, <1>4, <1>5, <1>10, RowFacts, UntilEndAt DEF Fragment
<1>12. fragments' \in [FragmentIds -> Fragment \union {Absent}]
  BY <1>7, <1>8, <1>11
<1> HIDE DEF r
<1>13. \A g \in Rows \ {f} : Apart(r, fragments[g])
  <2> SUFFICES ASSUME NEW g \in Rows \ {f} PROVE Apart(r, fragments[g])
    OBVIOUS
  <2>1. /\ fragments[g].start \in Nat /\ fragments[g].end \in Nat \union {Open}
        /\ fragments[f].start \in Nat /\ Apart(fragments[f], fragments[g])
    BY <1>4, RowFacts
  <2>2. \/ /\ fragments[g].end # Open
           /\ fragments[g].start <= t /\ fragments[g].end <= t
        \/ fragments[g].start > t /\ EndAt(t) # Open /\ EndAt(t) <= fragments[g].start
    BY <1>1, UntilEndAt
  <2>3. CASE fragments[g].start <= t
    <3>1. fragments[g].end # Open /\ fragments[g].end <= t
          /\ fragments[g].start <= fragments[f].start
      BY <1>2, <1>4, <2>1, <2>2, <2>3
    <3>2. fragments[g].end <= fragments[f].start
      BY <1>2, <1>4, <1>5, <2>1, <2>3, <3>1 DEF Apart
    <3>3. QED
      BY <1>11, <3>1, <3>2 DEF Apart
  <2>4. CASE ~ (fragments[g].start <= t)
    BY <1>2, <1>11, <2>1, <2>2, <2>4 DEF Apart
  <2>5. QED
    BY <2>3, <2>4
<1>14. \A h \in {f}, g \in Rows' : h # g => Apart(fragments'[h], fragments'[g])
  BY <1>9, <1>13 DEF Rows
<1>15. /\ r.start <= r.last /\ (r.end # Open => r.last <= r.end) /\ visit.start <= r.start
       /\ r.last <= visit.last /\ (visit.end # Open => r.end # Open)
  BY <1>1, <1>2, <1>4, <1>11, RowFacts, UntilEndAt DEF EventAt
<1>16. Rows' = Rows \union {f} /\ RowsSound
  <2>1. ChangesOnly({f})
    BY <1>2, <1>9, <1>11, <1>12, <1>14, <1>15 DEF ChangesOnly
  <2>2. QED
    BY <1>7, <2>1, RowsStep
<1>17. Keeps
  <2>1. \A g \in Rows : g \in FragmentIds /\ fragments[g].last \in Nat
    BY RowFacts
  <2>2. \A g \in Rows \ {f} : fragments'[g] = fragments[g]
                            /\ fragments[g].last <= fragments[g].last
    BY <1>9, <2>1
  <2>3. QED
    BY <1>5, <1>6, <1>9, <1>11, <1>16, <2>2 DEF Keeps
<1>18. Placed(e)
  <2>1. f \in Rows' /\ PlacedIn(e, f) /\ fragments[f].start <= t /\ t <= t
    BY <1>2, <1>3, <1>4, <1>16
  <2>2. /\ fragments'[f].identity = event[e].identity
        /\ fragments'[f].start <= event[e].at /\ event[e].at <= fragments'[f].last
    BY <1>9, <1>11, <2>1
  <2>3. QED
    BY <2>1, <2>2 DEF Placed
<1>19. QED
  BY <1>16, <1>17, <1>18, PlacedInv

-----------------------------------------------------------------------------
(* Events that end, and changes of the visit.                              *)

\* Ending an event leaves nothing to be shown.
LEMMA EndedInv ==
    ASSUME IInv, NEW e \in Events, event' = [event EXCEPT ![e] = NoEvent],
           visit' = visit, fragments' = fragments,
           \A x \in stored' : x \in StoredEvent /\ Fits(x)
    PROVE  IInv'
<1>1. NoEvent \in Event /\ NoEvent.phase = "none"
  BY DEF NoEvent, Event, EventPhases
<1>2. event \in [Events -> Event] /\ event' \in [Events -> Event]
  BY <1>1 DEF IInv, FragmentsTypeOK
<1>3. event'[e] = NoEvent /\ \A d \in Events \ {e} : event'[d] = event[d]
  BY <1>2
<1>4. FragmentsTypeOK'
  BY <1>2 DEF IInv, FragmentsTypeOK
<1>5. VisitSound' /\ FragmentsOrdered' /\ FragmentsDisjoint' /\ ClosedVisitClosesFragments'
  BY DEF IInv, VisitSound, FragmentsOrdered, FragmentsDisjoint, ClosedVisitClosesFragments,
         Rows
<1>6. InsideSpan'
  BY <1>1, <1>3 DEF IInv, InsideSpan, Rows
<1>7. EventsIdentified'
  BY <1>1, <1>3 DEF IInv, EventsIdentified
<1>8. EventsFitFragments'
  BY <1>1, <1>3 DEF IInv, EventsFitFragments, Fits
<1>9. QED
  BY <1>4, <1>5, <1>6, <1>7, <1>8 DEF IInv

LEMMA PlaceInv ==
    ASSUME IInv, NEW e \in Events, Place(e)
    PROVE  IInv'
<1>1. event[e].phase = "resolved" /\ visit' = visit /\ stored' = stored
  BY DEF Place
<1>2. CASE Skip(e)
  <2>1. \A x \in stored' : x \in StoredEvent /\ Fits(x)
    BY <1>1 DEF IInv, FragmentsTypeOK, EventsFitFragments
  <2>2. QED
    BY <1>1, <1>2, <2>1, EndedInv DEF Skip
<1>3. QED
  BY <1>1, <1>2, JoinInv, SplitInv, ContinueInv, InsertInv DEF Place

LEMMA StoreInv ==
    ASSUME IInv, NEW e \in Events, Store(e) \/ Fail(e)
    PROVE  IInv'
<1>1. event \in [Events -> Event] /\ stored \subseteq StoredEvent
      /\ \A x \in stored : Fits(x)
  BY DEF IInv, FragmentsTypeOK, EventsFitFragments
<1>2. CASE Fail(e)
  BY <1>1, <1>2, EndedInv DEF Fail
<1>3. CASE Store(e)
  <2> DEFINE x == [at |-> event[e].at, identity |-> event[e].identity,
                   fragment |-> event[e].fragment]
  <2>1. event[e].phase = "placed" /\ stored' = stored \union {x}
        /\ event' = [event EXCEPT ![e] = NoEvent] /\ visit' = visit /\ fragments' = fragments
    BY <1>3 DEF Store
  <2>2. x \in StoredEvent
    BY <1>1, <2>1 DEF StoredEvent, Event, IInv, EventsIdentified
  <2>3. Fits(event[e])
    BY <2>1 DEF IInv, EventsFitFragments
  <2>4. Fits(x)
    BY <2>3 DEF Fits
  <2> HIDE DEF x
  <2>5. \A y \in stored' : y \in StoredEvent /\ Fits(y)
    BY <1>1, <2>1, <2>2, <2>4
  <2>6. QED
    BY <2>1, <2>5, EndedInv
<1>4. QED
  BY <1>2, <1>3

\* A visit that takes a point leaves every fragment where it was.
LEMMA VisitGrows ==
    ASSUME IInv, NEW t \in Times, visit' \in Resolved(t), fragments' = fragments,
           stored' = stored
    PROVE  /\ visit' \in Visit /\ visit' # Absent /\ visit'.start <= t /\ t <= visit'.last
           /\ VisitSound' /\ FragmentsOrdered' /\ FragmentsDisjoint'
           /\ ClosedVisitClosesFragments'
           /\ \A f \in Rows' : /\ visit'.start <= fragments'[f].start
                               /\ fragments'[f].last <= visit'.last
           /\ \A e \in Events : event[e].phase = "resolved" =>
                 visit'.start <= event[e].at /\ event[e].at <= visit'.last
<1>1. visit \in Visit \union {Absent} /\ VisitSound
  BY DEF IInv, FragmentsTypeOK
<1>2. /\ visit' \in Visit /\ visit' # Absent /\ VisitSound'
      /\ visit'.start <= t /\ t <= visit'.last
      /\ visit # Absent => /\ visit'.start <= visit.start /\ visit.last <= visit'.last
                           /\ visit'.end = Open <=> visit.end = Open
  BY <1>1, VisitStep
<1>3. Rows' = Rows
  BY DEF Rows
<1>4. FragmentsOrdered' /\ FragmentsDisjoint'
  BY <1>3 DEF IInv, FragmentsOrdered, FragmentsDisjoint
<1>5. CASE visit = Absent
  <2>1. Rows' = {} /\ \A e \in Events : event[e].phase # "resolved"
    BY <1>3, <1>5 DEF IInv, InsideSpan
  <2>2. ClosedVisitClosesFragments'
    BY <2>1 DEF ClosedVisitClosesFragments
  <2>3. QED
    BY <1>2, <1>4, <2>1, <2>2
<1>6. CASE visit # Absent
  <2>1. visit \in Visit
    BY <1>1, <1>6
  <2>2. visit.start \in Nat /\ visit.last \in Nat /\ visit'.start \in Nat /\ visit'.last \in Nat
    BY <1>2, <2>1 DEF Visit
  <2>3. ClosedVisitClosesFragments'
    BY <1>2, <1>3, <1>6 DEF IInv, ClosedVisitClosesFragments
  <2>4. ASSUME NEW f \in Rows'
        PROVE  visit'.start <= fragments'[f].start /\ fragments'[f].last <= visit'.last
    BY <1>2, <1>3, <1>6, <2>2, RowFacts
  <2>5. ASSUME NEW e \in Events, event[e].phase = "resolved"
        PROVE  visit'.start <= event[e].at /\ event[e].at <= visit'.last
    <3>1. event[e].at \in Nat /\ visit.start <= event[e].at /\ event[e].at <= visit.last
      BY <2>5, ResolvedEvent DEF EventAt
    <3>2. QED
      BY <1>2, <1>6, <2>2, <3>1
  <2>6. QED
    BY <1>2, <1>4, <2>3, <2>4, <2>5
<1>7. QED
  BY <1>5, <1>6

LEMMA RecordInv ==
    ASSUME IInv, NEW t \in Times, Record(t)
    PROVE  IInv'
<1>1. visit' \in Resolved(t) /\ fragments' = fragments /\ event' = event /\ stored' = stored
  BY DEF Record
<1>2. FragmentsTypeOK'
  BY <1>1, VisitGrows DEF IInv, FragmentsTypeOK
<1>3. InsideSpan'
  BY <1>1, VisitGrows DEF InsideSpan
<1>4. EventsIdentified' /\ EventsFitFragments'
  BY <1>1 DEF IInv, EventsIdentified, EventsFitFragments, Fits
<1>5. QED
  BY <1>1, <1>2, <1>3, <1>4, VisitGrows DEF IInv

LEMMA ResolveInv ==
    ASSUME IInv, NEW e \in Events, NEW t \in Times, NEW identity \in Identities,
           Resolve(e, t, identity)
    PROVE  IInv'
<1> DEFINE x == [phase |-> "resolved", at |-> t, identity |-> identity, fragment |-> None]
<1>1. /\ visit' \in Resolved(t) /\ fragments' = fragments /\ stored' = stored
      /\ event' = [event EXCEPT ![e] = x]
  BY DEF Resolve
<1>2. event \in [Events -> Event] /\ x \in Event
  BY TimesAssumption DEF IInv, FragmentsTypeOK, Event, EventPhases
<1>3. /\ event' \in [Events -> Event] /\ event'[e] = x
      /\ \A d \in Events \ {e} : event'[d] = event[d]
  BY <1>1, <1>2
<1>4. x.phase = "resolved" /\ x.at = t /\ x.identity = identity
  OBVIOUS
<1> HIDE DEF x
<1>5. FragmentsTypeOK'
  BY <1>1, <1>3, VisitGrows DEF IInv, FragmentsTypeOK
<1>6. InsideSpan'
  <2>1. \A d \in Events : event'[d].phase = "resolved" =>
            visit'.start <= event'[d].at /\ event'[d].at <= visit'.last
    BY <1>1, <1>3, <1>4, VisitGrows
  <2>2. QED
    BY <1>1, <2>1, VisitGrows DEF InsideSpan
<1>7. EventsIdentified'
  BY <1>3, <1>4 DEF IInv, EventsIdentified
<1>8. EventsFitFragments'
  BY <1>1, <1>3, <1>4 DEF IInv, EventsFitFragments, Fits
<1>9. QED
  BY <1>1, <1>5, <1>6, <1>7, <1>8, VisitGrows DEF IInv

\* Closing the visit closes the one fragment that may be open, after its activity.
LEMMA CloseInv ==
    ASSUME IInv, Close
    PROVE  IInv'
<1>1. /\ visit \in Visit /\ visit # Absent /\ visit.end = Open /\ visit' = Closed(visit)
      /\ fragments' = CloseFragments(visit'.end) /\ event' = event /\ stored' = stored
  BY DEF Close, IInv, FragmentsTypeOK
<1>2. VisitSound
  BY DEF IInv
<1>3. /\ visit' \in Visit /\ visit'.start = visit.start /\ visit'.last = visit.last
      /\ visit'.end \in Nat /\ visit.last < visit'.end
      /\ visit.last \in Nat /\ visit.start \in Nat
  BY <1>1, <1>2, ClosedVisit DEF Visit
<1> DEFINE n == visit'.end
<1>4. fragments \in [FragmentIds -> Fragment \union {Absent}]
  BY DEF IInv, FragmentsTypeOK
<1>5. \A f \in FragmentIds \ Rows : fragments'[f] = fragments[f]
  BY <1>1 DEF CloseFragments
<1>6. \A f \in Rows : /\ fragments'[f] = IF fragments[f].end = Open
                                         THEN [fragments[f] EXCEPT !.end = n] ELSE fragments[f]
                      /\ fragments'[f] \in Fragment
                      /\ fragments'[f].identity = fragments[f].identity
                      /\ fragments'[f].start = fragments[f].start
                      /\ fragments'[f].last = fragments[f].last
                      /\ fragments'[f].end = IF fragments[f].end = Open THEN n
                                             ELSE fragments[f].end
  <2> SUFFICES ASSUME NEW f \in Rows
               PROVE  /\ fragments'[f] = IF fragments[f].end = Open
                                         THEN [fragments[f] EXCEPT !.end = n] ELSE fragments[f]
                      /\ fragments'[f] \in Fragment
                      /\ fragments'[f].identity = fragments[f].identity
                      /\ fragments'[f].start = fragments[f].start
                      /\ fragments'[f].last = fragments[f].last
                      /\ fragments'[f].end = IF fragments[f].end = Open THEN n
                                             ELSE fragments[f].end
    OBVIOUS
  <2>1. f \in FragmentIds /\ fragments[f] \in Fragment
    BY RowFacts
  <2>2. fragments'[f] = IF fragments[f].end = Open
                        THEN [fragments[f] EXCEPT !.end = n] ELSE fragments[f]
    BY <1>1, <2>1 DEF CloseFragments
  <2>3. QED
    BY <1>3, <2>1, <2>2 DEF Fragment
<1>7. Rows' = Rows
  BY <1>5, <1>6, FragmentAssumption DEF Rows
<1> HIDE DEF n
<1>8. n \in Nat /\ n # Open /\ visit.last < n /\ visit'.end = n
  BY <1>3, SentinelAssumption DEF n
<1>9. fragments' \in [FragmentIds -> Fragment \union {Absent}]
  <2>1. \A f \in FragmentIds : fragments'[f] \in Fragment \union {Absent}
    BY <1>4, <1>5, <1>6
  <2>2. QED
    BY <1>1, <2>1 DEF CloseFragments
<1>10. FragmentsTypeOK' /\ VisitSound'
  BY <1>1, <1>2, <1>3, <1>9 DEF IInv, FragmentsTypeOK, VisitSound
<1>11. FragmentsOrdered' /\ ClosedVisitClosesFragments'
  <2>1. ASSUME NEW f \in Rows
        PROVE  /\ fragments'[f].start <= fragments'[f].last
               /\ fragments'[f].end # Open /\ fragments'[f].last <= fragments'[f].end
    <3>1. /\ fragments[f].start \in Nat /\ fragments[f].last \in Nat
          /\ fragments[f].end \in Nat \union {Open}
          /\ fragments[f].start <= fragments[f].last /\ fragments[f].last <= visit.last
          /\ fragments[f].end # Open => fragments[f].last <= fragments[f].end
      BY RowFacts
    <3>2. fragments[f].last <= n
      BY <1>3, <1>8, <3>1
    <3>3. QED
      BY <1>6, <1>8, <3>1, <3>2
  <2>2. QED
    BY <1>7, <2>1 DEF FragmentsOrdered, ClosedVisitClosesFragments
<1>12. InsideSpan'
  BY <1>1, <1>3, <1>6, <1>7, SentinelAssumption DEF IInv, InsideSpan
<1>13. EventsIdentified'
  BY <1>1 DEF IInv, EventsIdentified
<1>14. FragmentsDisjoint'
  <2> SUFFICES ASSUME NEW f \in Rows, NEW g \in Rows, f # g
               PROVE  Apart(fragments'[f], fragments'[g])
    BY <1>7 DEF FragmentsDisjoint, Apart
  <2>1. Apart(fragments[f], fragments[g])
    BY RowFacts
  <2>2. QED
    BY <1>6, <2>1 DEF Apart
<1>15. EventsFitFragments'
  <2>1. ASSUME NEW x, Fits(x), x.fragment \in FragmentIds
        PROVE  LET h == fragments'[x.fragment]
               IN  /\ h # Absent /\ h.identity = x.identity
                   /\ h.start <= x.at /\ x.at <= h.last
                   /\ h.end = Open \/ h.last <= h.end
    <3>1. x.fragment \in Rows
      BY <2>1 DEF Fits, Rows
    <3>2. fragments'[x.fragment] # Absent
      BY <1>7, <3>1 DEF Rows
    <3>3. QED
      BY <1>6, <1>11, <2>1, <3>1, <3>2, <1>7 DEF Fits, FragmentsOrdered
  <2>2. \A x \in stored : x.fragment \in FragmentIds /\ Fits(x)
    BY DEF IInv, FragmentsTypeOK, EventsFitFragments, StoredEvent
  <2>3. \A e \in Events : event[e].phase = "placed" =>
            event[e].fragment \in FragmentIds /\ Fits(event[e])
    BY DEF IInv, EventsIdentified, EventsFitFragments
  <2>4. QED
    BY <1>1, <2>1, <2>2, <2>3 DEF EventsFitFragments, Fits
<1>16. QED
  BY <1>10, <1>11, <1>12, <1>13, <1>14, <1>15 DEF IInv

\* A deleted visit leaves no row to speak of.
LEMMA DeleteInv ==
    ASSUME IInv, Delete
    PROVE  IInv'
<1>1. visit' = Absent /\ fragments' = NoRows /\ stored' = {}
  BY DEF Delete
<1>2. Rows' = {}
  BY <1>1 DEF Rows, NoRows
<1>3. event \in [Events -> Event] /\ NoEvent \in Event /\ NoEvent.phase = "none"
  BY DEF IInv, FragmentsTypeOK, NoEvent, Event, EventPhases
<1>4. \A e \in Events : /\ event'[e] \in Event
                        /\ event'[e].phase \notin {"resolved", "placed"}
  <2> SUFFICES ASSUME NEW e \in Events
               PROVE  event'[e] \in Event /\ event'[e].phase \notin {"resolved", "placed"}
    OBVIOUS
  <2>1. event[e] \in Event
    BY <1>3
  <2>2. CASE event[e].phase = "resolved"
    <3>1. event'[e] = [event[e] EXCEPT !.phase = "stranded"]
      BY <2>2 DEF Delete
    <3>2. QED
      BY <2>1, <3>1 DEF Event, EventPhases
  <2>3. CASE event[e].phase = "placed"
    BY <1>3, <2>3 DEF Delete
  <2>4. CASE event[e].phase \notin {"resolved", "placed"}
    BY <2>1, <2>4 DEF Delete
  <2>5. QED
    BY <2>2, <2>3, <2>4
<1>5. event' \in [Events -> Event]
  <2>1. event' = [e \in Events |-> event'[e]]
    BY DEF Delete
  <2>2. QED
    BY <1>4, <2>1
<1>6. FragmentsTypeOK'
  BY <1>1, <1>5 DEF FragmentsTypeOK, NoRows
<1>7. VisitSound' /\ FragmentsOrdered' /\ FragmentsDisjoint' /\ ClosedVisitClosesFragments'
  BY <1>1, <1>2 DEF VisitSound, FragmentsOrdered, FragmentsDisjoint, ClosedVisitClosesFragments
<1>8. InsideSpan' /\ EventsIdentified' /\ EventsFitFragments'
  BY <1>1, <1>2, <1>4 DEF InsideSpan, EventsIdentified, EventsFitFragments
<1>9. QED
  BY <1>6, <1>7, <1>8 DEF IInv

-----------------------------------------------------------------------------
(* The theorems.                                                           *)

LEMMA FragmentsInit == Init => IInv
<1> SUFFICES ASSUME Init PROVE IInv
  OBVIOUS
<1>1. Rows = {}
  BY DEF Init, NoRows, Rows
<1>2. NoEvent \in Event /\ NoEvent.phase = "none"
  BY DEF NoEvent, Event, EventPhases
<1>3. FragmentsTypeOK
  BY <1>2 DEF Init, FragmentsTypeOK, NoRows
<1>4. InsideSpan /\ EventsIdentified /\ EventsFitFragments
  BY <1>1, <1>2 DEF Init, InsideSpan, EventsIdentified, EventsFitFragments
<1>5. QED
  BY <1>1, <1>3, <1>4
     DEF Init, IInv, VisitSound, FragmentsOrdered, FragmentsDisjoint, ClosedVisitClosesFragments

LEMMA FragmentsStep ==
    ASSUME IInv, [Next]_vars
    PROVE  IInv'
<1>1. CASE \E e \in Events, t \in Times, identity \in Identities : Resolve(e, t, identity)
  BY <1>1, ResolveInv
<1>2. CASE \E t \in Times : Record(t)
  BY <1>2, RecordInv
<1>3. CASE Close
  BY <1>3, CloseInv
<1>4. CASE Delete
  BY <1>4, DeleteInv
<1>5. CASE \E e \in Events : Place(e)
  BY <1>5, PlaceInv
<1>6. CASE \E e \in Events : Store(e) \/ Fail(e)
  BY <1>6, StoreInv
<1>7. CASE UNCHANGED vars
  BY <1>7 DEF vars, IInv, FragmentsTypeOK, VisitSound, FragmentsOrdered, InsideSpan,
              EventsIdentified, FragmentsDisjoint, ClosedVisitClosesFragments,
              EventsFitFragments, Fits, Rows
<1>8. QED
  BY <1>1, <1>2, <1>3, <1>4, <1>5, <1>6, <1>7 DEF Next

\* The inductive invariant of the fragments: it adds to the properties that fragments
\* lie between the start and the last activity of the visit.
THEOREM FragmentsInvariant == Spec => []IInv
  BY FragmentsInit, FragmentsStep, PTL DEF Spec

\* Every variable keeps its type.
THEOREM FragmentsTypeCorrect == Spec => []FragmentsTypeOK
<1>1. IInv => FragmentsTypeOK
  BY DEF IInv
<1>2. QED
  BY <1>1, FragmentsInvariant, PTL

\* The fragments of a visit never overlap, although the visit is unlocked between the
\* resolution of an event and the creation of its fragment.
THEOREM FragmentsStayDisjoint == Spec => []FragmentsDisjoint
<1>1. IInv => FragmentsDisjoint
  BY DEF IInv
<1>2. QED
  BY <1>1, FragmentsInvariant, PTL

\* Stored and placed events fit the fragment they were given, whatever came later.
THEOREM EventsKeepFragments == Spec => []EventsFitFragments
<1>1. IInv => EventsFitFragments
  BY DEF IInv
<1>2. QED
  BY <1>1, FragmentsInvariant, PTL

\* A closed visit has no open fragment.
THEOREM ClosedVisitsAreDone == Spec => []ClosedVisitClosesFragments
<1>1. IInv => ClosedVisitClosesFragments
  BY DEF IInv
<1>2. QED
  BY <1>1, FragmentsInvariant, PTL

\* What lies up to the last activity of a visit is inside it.
LEMMA SpanInside ==
    ASSUME visit \in Visit, VisitSound, NEW a \in Nat, visit.start <= a, a <= visit.last
    PROVE  Contains(visit, a)
<1>1. visit # Absent /\ Open \notin Nat
  BY SentinelAssumption
<1>2. visit.last < EffectiveEnd(visit) /\ EffectiveEnd(visit) \in Nat
  BY <1>1, SettingsAssumption DEF VisitSound, EffectiveEnd, MaximumEnd, Lesser, Visit
<1>3. QED
  BY <1>2 DEF Contains, Visit

\* Activity given to a fragment, or still to be, stays inside the visit.
THEOREM ActivityStaysInsideVisit == Spec => []ActivityInsideVisit
<1>1. IInv => ActivityInsideVisit
  <2> SUFFICES ASSUME IInv PROVE ActivityInsideVisit
    OBVIOUS
  <2>1. ASSUME NEW f \in Rows
        PROVE  Contains(visit, fragments[f].start) /\ Contains(visit, fragments[f].last)
    <3>1. /\ fragments[f].start \in Nat /\ fragments[f].last \in Nat /\ visit \in Visit
          /\ visit.start <= fragments[f].start /\ fragments[f].last <= visit.last
          /\ fragments[f].start <= fragments[f].last
      BY RowFacts
    <3>2. visit.start <= fragments[f].last /\ fragments[f].start <= visit.last
      BY <3>1 DEF Visit
    <3>3. QED
      BY <3>1, <3>2, SpanInside DEF IInv
  <2>2. ASSUME NEW e \in Events, event[e].phase = "resolved"
        PROVE  Contains(visit, event[e].at)
    BY <2>2, ResolvedEvent, SpanInside DEF EventAt, IInv
  <2>3. QED
    BY <2>1, <2>2 DEF ActivityInsideVisit
<1>2. QED
  BY <1>1, FragmentsInvariant, PTL
=============================================================================
