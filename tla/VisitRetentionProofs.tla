------------------------ MODULE VisitRetentionProofs ------------------------
(***************************************************************************)
(* The resolver keeps the visits of a visitor disjoint, at most one of     *)
(* them open, for every setting that satisfies SettingsAssumption; so do   *)
(* the resolver and the retention job together, whatever the job deletes   *)
(* between and beside the batches.  The job deletes expired visits, and of *)
(* the others only one committed between the two queries of a visitor's    *)
(* deletion; the visitor row keeps spanning the visits that are left.      *)
(***************************************************************************)
EXTENDS VisitRetention, WellFoundedInduction, TLAPS

-----------------------------------------------------------------------------
(* Rows.                                                                   *)

\* The end of a visit is a time, at most its maximum end and at most ended_at.
LEMMA EffectiveEndBounds ==
    ASSUME NEW s \in Visit
    PROVE  /\ EffectiveEnd(s) \in Nat
           /\ EffectiveEnd(s) <= s.start + MaxDuration
           /\ s.end # Open => EffectiveEnd(s) <= s.end
           /\ s.end = Open => EffectiveEnd(s) <= s.last + Timeout
  BY SettingsAssumption, SentinelAssumption
     DEF EffectiveEnd, MaximumEnd, Lesser, Visit

\* A nonempty set of times has a least element.
LEMMA LeastTime ==
    ASSUME NEW T, T \subseteq Nat, T # {}
    PROVE  \E x \in T : \A y \in T : x <= y
<1> DEFINE R == OpToRel(<, Nat)
<1>1. IsWellFoundedOn(R, Nat)
  BY NatLessThanWellFounded
<1>2. \E x \in T : \A y \in T : ~ (<<y, x>> \in R)
  BY <1>1, WFMin
<1>3. \A x, y \in Nat : <<y, x>> \in R <=> y < x
  BY DEF OpToRel
<1> HIDE DEF R
<1>4. PICK x \in T : \A y \in T : ~ (<<y, x>> \in R)
  BY <1>2
<1>5. \A y \in T : x \in Nat /\ y \in Nat /\ ~ (y < x)
  BY <1>3, <1>4
<1>6. \A y \in T : x <= y
  BY <1>5
<1>7. QED
  BY <1>6

\* The first of a nonempty set of loaded visits.
LEMMA EarliestIsFirst ==
    ASSUME TypeOK, NEW S, S \subseteq Rows(work), S # {}
    PROVE  /\ Earliest(S) \in S
           /\ \A u \in S : work[Earliest(S)].start <= work[u].start
<1> DEFINE T == {work[u].start : u \in S}
<1>1. T \subseteq Nat /\ T # {}
  BY DEF TypeOK, Rows, Visit
<1>2. PICK x \in T : \A y \in T : x <= y
  BY <1>1, LeastTime
<1>3. \E v \in S : \A u \in S : work[v].start <= work[u].start
  BY <1>2
<1>4. QED
  BY <1>3 DEF Earliest

\* Cutting an end at the first of some loaded visits.
LEMMA UpToBounds ==
    ASSUME TypeOK, NEW S, S \subseteq Rows(work), NEW end \in Nat
    PROVE  /\ UpTo(end, S) \in Nat
           /\ UpTo(end, S) <= end
           /\ \A u \in S : UpTo(end, S) <= work[u].start
           /\ \A t \in Nat : t < end /\ (\A u \in S : t < work[u].start)
                                => t < UpTo(end, S)
<1>1. CASE S = {}
  BY <1>1 DEF UpTo
<1>2. CASE S # {}
  <2>1. /\ Earliest(S) \in S
        /\ \A u \in S : work[Earliest(S)].start <= work[u].start
    BY <1>2, EarliestIsFirst
  <2>2. \A u \in S : work[u].start \in Nat
    BY DEF TypeOK, Rows, Visit
  <2>3. UpTo(end, S) = Lesser(end, work[Earliest(S)].start)
    BY <1>2 DEF UpTo
  <2> DEFINE e == work[Earliest(S)].start
  <2>4. e \in Nat /\ \A u \in S : e <= work[u].start
    BY <2>1, <2>2
  <2>5. UpTo(end, S) = (IF end <= e THEN end ELSE e)
    BY <2>3 DEF Lesser
  <2>6. \A t \in Nat : (\A u \in S : t < work[u].start) => t < e
    BY <2>1
  <2> HIDE DEF e
  <2>7. QED
    BY <2>2, <2>4, <2>5, <2>6
<1>3. QED
  BY <1>1, <1>2

-----------------------------------------------------------------------------
(* What the invariant says of a point of the batch.                        *)

\* The table as the batch sees it.
LEMMA ViewRows ==
    ASSUME TypeOK
    PROVE  /\ View \in [VisitIds -> Visit \union {Absent}]
           /\ Rows(View) = Rows(work) \union Rows(visits)
           /\ \A v \in Rows(work) : View[v] = work[v]
           /\ \A v \in VisitIds \ Rows(work) : View[v] = visits[v]
           /\ \A v \in Rows(View) : View[v] \in Visit
           /\ \A v \in Rows(work) : work[v] \in Visit
  BY DEF TypeOK, View, Overlay, Rows

\* The point being resolved, and the settings, in one place.
LEMMA PointBounds ==
    ASSUME IInv, NEW t \in Times, TakesPoint(t)
    PROVE  /\ t \in Nat
           /\ batch.first \in Nat /\ batch.last \in Nat
           /\ batch.first <= t /\ t <= batch.last
           /\ Timeout \in Nat /\ MaxDuration \in Nat /\ LateWindow \in Nat
           /\ Timeout > 0 /\ Timeout <= MaxDuration
           /\ 2 * MaxDuration <= LateWindow
  BY TimesAssumption, SettingsAssumption
     DEF IInv, TypeOK, BatchOrdered, TakesPoint, Phases

\* A visit that is not loaded is over long before the point, or starts long after.
LEMMA UnloadedIsFar ==
    ASSUME IInv, NEW t \in Times, TakesPoint(t),
           NEW v \in Rows(View) \ Rows(work)
    PROVE  /\ View[v].end # Open
           /\ \/ View[v].start >= t + LateWindow
              \/ /\ View[v].end < t
                 /\ View[v].start < t /\ View[v].last < t
<1>1. v \in Rows(visits) /\ View[v] = visits[v] /\ View[v] \in Visit
  BY ViewRows DEF IInv, Rows
<1>2. /\ visits[v].end # Open
      /\ \/ visits[v].start >= batch.last + LateWindow
         \/ visits[v].end < batch.first - LateWindow
  BY <1>1 DEF IInv, WindowComplete, TakesPoint
<1>3. Contains(View[v], View[v].last)
  BY DEF IInv, Sound, ActivityInside
<1>4. View[v].start <= View[v].last /\ View[v].last < View[v].end
  BY <1>1, <1>2, <1>3, EffectiveEndBounds DEF Contains, Visit
<1>5. View[v].start \in Nat /\ View[v].last \in Nat /\ View[v].end \in Nat
  BY <1>1, <1>2 DEF Visit
<1>6. QED
  BY <1>1, <1>2, <1>4, <1>5, PointBounds

\* What every way to resolve a point keeps, whatever it does to the rows.
LEMMA PointStep ==
    ASSUME IInv, NEW t \in Times, TakesPoint(t),
           work' \in [VisitIds -> Visit \union {Absent}],
           Rows(work) \subseteq Rows(work'),
           Sound(View')
    PROVE  IInv'
<1>1. TypeOK'
  BY PointBounds DEF IInv, TypeOK, TakesPoint, Phases
<1>2. BatchOrdered'
  BY PointBounds DEF BatchOrdered, TakesPoint
<1>3. WindowComplete'
  <2>1. Rows(visits)' \ Rows(work)' \subseteq Rows(visits) \ Rows(work)
    BY DEF TakesPoint, Rows
  <2>2. QED
    BY <2>1 DEF IInv, WindowComplete, TakesPoint
<1>4. Sound(visits)'
  BY DEF IInv, Sound, ActivityInside, OneOpen, Separated, Rows, TakesPoint
<1>5. QED
  BY <1>1, <1>2, <1>3, <1>4 DEF IInv

\* Activity in a visit leaves its start, sets its last activity and keeps its end
\* between the activity and the visits after it.
LEMMA ExtendedRow ==
    ASSUME IInv, NEW t \in Times, TakesPoint(t), NEW v \in Rows(work),
           Contains(work[v], t), t > work[v].last
    PROVE  /\ Extended(v, t) \in Visit
           /\ Extended(v, t).start = work[v].start
           /\ Extended(v, t).last = t
           /\ work[v].end = Open <=> Extended(v, t).end = Open
           /\ work[v].end # Open =>
                /\ t < Extended(v, t).end
                /\ Extended(v, t).end <= t + Timeout
                /\ \A u \in Rows(work) : work[u].start > work[v].start =>
                       Extended(v, t).end <= work[u].start
<1> DEFINE s == work[v]
           S == Later(s.start)
           until == Lesser(UpTo(t + Timeout, S), MaximumEnd(s))
<1>1. s \in Visit /\ t \in Nat /\ t + Timeout \in Nat /\ TypeOK /\ Timeout > 0
  BY ViewRows, PointBounds DEF IInv
<1>2. S \subseteq Rows(work)
  BY DEF Later
<1>3. /\ UpTo(t + Timeout, S) \in Nat
      /\ UpTo(t + Timeout, S) <= t + Timeout
      /\ \A u \in S : UpTo(t + Timeout, S) <= work[u].start
      /\ (\A u \in S : t < work[u].start) => t < UpTo(t + Timeout, S)
  <2>1. t < t + Timeout
    BY <1>1, PointBounds
  <2>2. QED
    BY <1>1, <1>2, <2>1, UpToBounds
<1>4. t < MaximumEnd(s) /\ MaximumEnd(s) \in Nat
  BY <1>1, PointBounds, EffectiveEndBounds DEF Contains, MaximumEnd, Visit
<1>5. s.end # Open => \A u \in S : t < work[u].start
  <2>1. SUFFICES ASSUME s.end # Open, NEW u \in S
                 PROVE  t < work[u].start
    OBVIOUS
  <2>2. u \in Rows(View) /\ v \in Rows(View) /\ u # v /\ View[u] = work[u] /\ View[v] = s
    BY <1>1, ViewRows DEF Later, IInv, Visit
  <2>3. View[v].start <= View[u].start /\ View[u].start \in Nat
    BY <1>1, <2>2, ViewRows DEF Later, Visit
  <2>4. EffectiveEnd(s) <= work[u].start
    BY <2>1, <2>2, <2>3 DEF IInv, Sound, Separated
  <2>5. QED
    BY <1>1, <2>2, <2>3, <2>4, EffectiveEndBounds DEF Contains
<1>6. until \in Nat /\ until <= UpTo(t + Timeout, S)
      /\ (t < UpTo(t + Timeout, S) => t < until)
  BY <1>1, <1>3, <1>4 DEF Lesser
<1>7. Extended(v, t) =
        [s EXCEPT !.last = t, !.end = IF s.end = Open THEN Open ELSE until]
  BY DEF Extended
<1>8. /\ Extended(v, t) \in Visit
      /\ Extended(v, t).start = s.start
      /\ Extended(v, t).last = t
      /\ Extended(v, t).end = (IF s.end = Open THEN Open ELSE until)
  <2> HIDE DEF until
  <2>1. \E a, b, c : s = [start |-> a, last |-> b, end |-> c]
    BY <1>1 DEF Visit
  <2>2. Extended(v, t) = [start |-> s.start, last |-> t,
                          end |-> IF s.end = Open THEN Open ELSE until]
    BY <1>7, <2>1
  <2>3. QED
    BY <1>1, <1>6, <2>2 DEF Visit
<1>9. \A u \in Rows(work) : work[u].start > s.start => u \in S
  BY DEF Later
<1> HIDE DEF until, S, s
<1>10. s.end # Open =>
        /\ t < until
        /\ until <= t + Timeout
        /\ \A u \in S : until <= work[u].start
  <2>1. \A u \in S : work[u].start \in Nat
    BY <1>2, ViewRows DEF IInv, Visit
  <2>2. QED
    BY <1>1, <1>3, <1>5, <1>6, <2>1
<1>11. until # Open
  BY <1>6, SentinelAssumption
<1>12. QED
  BY <1>8, <1>9, <1>10, <1>11 DEF s

\* Replacing a loaded row replaces that row of the view and no other.
LEMMA ReplaceRow ==
    ASSUME IInv, NEW v \in Rows(work), NEW n \in Visit,
           work' = [work EXCEPT ![v] = n], visits' = visits
    PROVE  /\ work' \in [VisitIds -> Visit \union {Absent}]
           /\ Rows(work') = Rows(work)
           /\ Rows(View') = Rows(View)
           /\ View'[v] = n
           /\ \A u \in VisitIds \ {v} : View'[u] = View[u]
<1>1. n # Absent
  BY SentinelAssumption
<1>2. work \in [VisitIds -> Visit \union {Absent}] /\ v \in VisitIds
  BY DEF IInv, TypeOK, Rows
<1>3. work'[v] = n /\ \A u \in VisitIds \ {v} : work'[u] = work[u]
  BY <1>2
<1>4. Rows(work') = Rows(work)
  BY <1>1, <1>3 DEF Rows
<1>5. View'[v] = n /\ \A u \in VisitIds \ {v} : View'[u] = View[u]
  BY <1>1, <1>2, <1>3 DEF View, Overlay
<1>6. v \in Rows(View)
  BY ViewRows DEF IInv
<1>7. Rows(View') = Rows(View)
  BY <1>1, <1>5, <1>6 DEF Rows
<1>8. QED
  BY <1>2, <1>4, <1>5, <1>7

-----------------------------------------------------------------------------
(* The four ways to resolve a point.                                       *)

LEMMA InsideInv ==
    ASSUME IInv, NEW t \in Times, NEW active \in BOOLEAN,
           ResolveInside(t, active)
    PROVE  IInv'
<1>1. TakesPoint(t) /\ visits' = visits
  BY DEF ResolveInside, TakesPoint
<1>2. PICK v \in Candidates(t) :
           /\ Candidates(t) = {v}
           /\ work' = IF active THEN [work EXCEPT ![v] = Extended(v, t)] ELSE work
  BY DEF ResolveInside
<1>3. v \in Rows(work) /\ Contains(work[v], t) /\ work[v] \in Visit /\ View[v] = work[v]
  BY ViewRows DEF Candidates, IInv
<1>4. CASE work' = work
  <2>1. View' = View
    BY <1>1, <1>4 DEF View, Overlay
  <2>2. QED
    BY <1>1, <1>4, <2>1, PointStep DEF IInv, TypeOK
<1>5. CASE work' = [work EXCEPT ![v] = Extended(v, t)] /\ t > work[v].last
  <2> DEFINE n == Extended(v, t)
             s == work[v]
  <2>1. /\ n \in Visit /\ n.start = s.start /\ n.last = t
        /\ s.end = Open <=> n.end = Open
        /\ s.end # Open =>
             /\ t < n.end
             /\ n.end <= t + Timeout
             /\ \A u \in Rows(work) : work[u].start > s.start => n.end <= work[u].start
    BY <1>1, <1>3, <1>5, ExtendedRow
  <2> HIDE DEF n
  <2>2. /\ work' \in [VisitIds -> Visit \union {Absent}]
        /\ Rows(work') = Rows(work)
        /\ Rows(View') = Rows(View)
        /\ View'[v] = n
        /\ \A u \in VisitIds \ {v} : View'[u] = View[u]
    BY <1>1, <1>3, <1>5, <2>1, ReplaceRow DEF n
  <2>3. /\ \A u \in Rows(View) : u \in VisitIds /\ View[u] \in Visit
        /\ v \in Rows(View)
    BY <1>3, ViewRows DEF IInv, Rows
  <2>4. s.start <= t /\ t < s.start + MaxDuration
    BY <1>3, EffectiveEndBounds, PointBounds, <1>1 DEF Contains, Visit
  <2>5. ActivityInside(View')
    <3>1. Contains(n, n.last)
      BY <1>1, <2>1, <2>4, PointBounds
         DEF Contains, EffectiveEnd, MaximumEnd, Lesser, Visit
    <3>2. QED
      BY <2>2, <2>3, <3>1 DEF ActivityInside, IInv, Sound
  <2>6. OneOpen(View')
    BY <1>3, <2>1, <2>2, <2>3 DEF OneOpen, IInv, Sound
  <2>7. Separated(View')
    <3>1. SUFFICES ASSUME NEW u \in Rows(View), NEW w \in Rows(View), u # w,
                          View'[u].start <= View'[w].start
                   PROVE  IF View'[u].end = Open
                          THEN /\ View'[u].start + MaxDuration <= View'[w].start
                               /\ View'[u].start + 2 * MaxDuration <= View'[w].last
                          ELSE EffectiveEnd(View'[u]) <= View'[w].start
      BY <2>2 DEF Separated
    <3>2. /\ View[u].start <= View[w].start
          /\ IF View[u].end = Open
             THEN /\ View[u].start + MaxDuration <= View[w].start
                  /\ View[u].start + 2 * MaxDuration <= View[w].last
             ELSE EffectiveEnd(View[u]) <= View[w].start
      <4>1. View[u].start <= View[w].start
        BY <1>3, <2>1, <2>2, <2>3, <3>1
      <4>2. QED
        BY <3>1, <4>1 DEF IInv, Sound, Separated
    <3>3. CASE u # v /\ w # v
      BY <2>2, <2>3, <3>2, <3>3
    <3>4. CASE w = v
      BY <1>1, <1>3, <1>5, <2>1, <2>2, <2>3, <3>1, <3>2, <3>4, PointBounds DEF Visit
    <3>5. CASE u = v /\ s.end = Open
      BY <1>3, <2>1, <2>2, <2>3, <3>1, <3>2, <3>5
    <3>6. CASE u = v /\ s.end # Open
      <4>1. EffectiveEnd(n) <= n.end /\ n.end # Open /\ EffectiveEnd(n) \in Nat /\ n.end \in Nat
        BY <2>1, <3>6, EffectiveEndBounds DEF Visit
      <4>2. View'[u] = n /\ View'[w] = View[w] /\ View[w] \in Visit
        BY <2>2, <2>3, <3>1, <3>6
      <4>3. t < View[w].start
        BY <1>1, <1>3, <2>3, <3>2, <3>6, EffectiveEndBounds, PointBounds DEF Contains, Visit
      <4>4. n.end <= View[w].start
        <5>1. CASE w \in Rows(work)
          BY <1>1, <1>3, <2>1, <2>4, <3>6, <4>3, <5>1, ViewRows, PointBounds DEF IInv, Visit
        <5>2. CASE w \notin Rows(work)
          <6>1. View[w].start >= t + LateWindow
            BY <1>1, <4>2, <4>3, <5>2, UnloadedIsFar, PointBounds DEF Visit
          <6>2. QED
            BY <1>1, <2>1, <3>6, <4>1, <4>2, <6>1, PointBounds DEF Visit
        <5>3. QED
          BY <5>1, <5>2
      <4>5. QED
        BY <4>1, <4>2, <4>4 DEF Visit
    <3>7. QED
      BY <3>3, <3>4, <3>5, <3>6
  <2>8. QED
    BY <1>1, <2>2, <2>5, <2>6, <2>7, PointStep DEF Sound
<1>6. CASE work' = [work EXCEPT ![v] = Extended(v, t)] /\ ~(t > work[v].last)
  <2>1. Extended(v, t) = work[v]
    BY <1>6 DEF Extended
  <2>2. work' = work
    BY <1>3, <1>6, <2>1 DEF IInv, TypeOK
  <2>3. QED
    BY <1>4, <2>2
<1>7. QED
  BY <1>2, <1>4, <1>5, <1>6

\* A visit that starts at or before a point no visit contains is over by then, and
\* if it is open it is so in its maximum duration too or is the only open one.
LEMMA EarlierIsOver ==
    ASSUME IInv, NEW t \in Times, TakesPoint(t), Candidates(t) = {},
           NEW u \in Rows(View), View[u].start <= t
    PROVE  EffectiveEnd(View[u]) <= t /\ View[u].start < t
<1>1. View[u] \in Visit /\ Contains(View[u], View[u].last)
  BY ViewRows DEF IInv, Sound, ActivityInside
<1>2. View[u].start < EffectiveEnd(View[u]) /\ EffectiveEnd(View[u]) \in Nat
  BY <1>1, EffectiveEndBounds DEF Contains, Visit
<1>3. CASE u \in Rows(work)
  BY <1>1, <1>2, <1>3, ViewRows, PointBounds DEF Candidates, Contains, IInv, Visit
<1>4. CASE u \notin Rows(work)
  BY <1>1, <1>2, <1>4, UnloadedIsFar, EffectiveEndBounds, PointBounds DEF Visit
<1>5. QED
  BY <1>3, <1>4

\* Between a point and the visit that is moved back to it there is no other visit.
LEMMA NothingBetween ==
    ASSUME IInv, NEW t \in Times, TakesPoint(t), Candidates(t) = {},
           NEW v \in Rows(work), FutureSessions(t) = {v},
           NEW w \in Rows(View), w # v, View[w].start <= View[v].start
    PROVE  View[w].start < t
<1>1. SUFFICES ASSUME ~(View[w].start < t) PROVE FALSE
  OBVIOUS
<1>2. /\ View[v] = work[v] /\ work[v] \in Visit /\ View[w] \in Visit /\ v \in Rows(View)
  BY ViewRows DEF IInv
<1>3. work[v].start > t /\ work[v].start - t < Timeout
  BY DEF FutureSessions
<1>4. View[w].start > t
  BY <1>1, <1>2, EarlierIsOver, PointBounds DEF Visit
<1>5. IF View[w].end = Open THEN View[w].start + MaxDuration <= View[v].start
                            ELSE EffectiveEnd(View[w]) <= View[v].start
  BY <1>2 DEF IInv, Sound, Separated
<1>6. View[w].end # Open /\ EffectiveEnd(View[w]) <= View[v].start
  BY <1>2, <1>3, <1>4, <1>5, PointBounds DEF Visit
<1>7. View[w].last < View[v].start
  BY <1>2, <1>6, EffectiveEndBounds DEF Contains, IInv, Sound, ActivityInside, Visit
<1>8. CASE w \in Rows(work)
  <2>1. w \in FutureSessions(t)
    BY <1>2, <1>3, <1>4, <1>7, <1>8, ViewRows, PointBounds DEF FutureSessions, IInv, Visit
  <2>2. QED
    BY <2>1
<1>9. CASE w \notin Rows(work)
  BY <1>2, <1>3, <1>4, <1>9, UnloadedIsFar, PointBounds DEF Visit
<1>10. QED
  BY <1>8, <1>9

LEMMA BeforeInv ==
    ASSUME IInv, NEW t \in Times, NEW active \in BOOLEAN,
           ResolveBefore(t, active)
    PROVE  IInv'
<1>1. TakesPoint(t) /\ visits' = visits /\ Candidates(t) = {}
  BY DEF ResolveBefore, TakesPoint
<1>2. PICK v \in FutureSessions(t) :
           /\ FutureSessions(t) = {v}
           /\ work' = [work EXCEPT ![v].start = t]
  BY DEF ResolveBefore
<1> DEFINE s == work[v]
           n == [start |-> t, last |-> s.last, end |-> s.end]
<1>3. /\ v \in Rows(work) /\ s \in Visit /\ View[v] = s /\ v \in Rows(View)
      /\ t < s.start /\ s.start - t < Timeout /\ s.last < t + MaxDuration
  BY <1>2, ViewRows DEF FutureSessions, IInv
<1>4. work' = [work EXCEPT ![v] = n] /\ n \in Visit
  <2>1. n \in Visit
    BY <1>1, <1>3, PointBounds DEF Visit
  <2>2. [s EXCEPT !.start = t] = n
    BY <1>3 DEF Visit
  <2>3. work' = [work EXCEPT ![v] = [s EXCEPT !.start = t]]
    BY <1>2
  <2>4. QED
    BY <2>1, <2>2, <2>3
<1>5. n.start = t /\ n.last = s.last /\ n.end = s.end
  OBVIOUS
<1> HIDE DEF n
<1>6. /\ work' \in [VisitIds -> Visit \union {Absent}]
      /\ Rows(work') = Rows(work)
      /\ Rows(View') = Rows(View)
      /\ View'[v] = n
      /\ \A u \in VisitIds \ {v} : View'[u] = View[u]
  BY <1>1, <1>3, <1>4, ReplaceRow
<1>7. \A u \in Rows(View) : u \in VisitIds /\ View[u] \in Visit
  BY ViewRows DEF IInv, Rows
<1>8. ActivityInside(View')
  <2>1. Contains(s, s.last)
    BY <1>3 DEF ActivityInside, IInv, Sound
  <2>2. Contains(n, n.last)
    BY <1>1, <1>3, <1>5, <2>1, PointBounds
       DEF Contains, EffectiveEnd, MaximumEnd, Lesser, Visit
  <2>3. QED
    BY <1>6, <1>7, <2>2 DEF ActivityInside, IInv, Sound
<1>9. OneOpen(View')
  BY <1>3, <1>5, <1>6, <1>7 DEF OneOpen, IInv, Sound
<1>10. Separated(View')
  <2>1. SUFFICES ASSUME NEW u \in Rows(View), NEW w \in Rows(View), u # w,
                        View'[u].start <= View'[w].start
                 PROVE  IF View'[u].end = Open
                        THEN /\ View'[u].start + MaxDuration <= View'[w].start
                             /\ View'[u].start + 2 * MaxDuration <= View'[w].last
                        ELSE EffectiveEnd(View'[u]) <= View'[w].start
    BY <1>6 DEF Separated
  <2>2. CASE u # v /\ w # v
    BY <1>6, <1>7, <2>1, <2>2 DEF IInv, Sound, Separated
  <2>3. CASE u = v
    <3>1. View'[w] = View[w] /\ View'[u] = n /\ w # v
      BY <1>6, <1>7, <2>1, <2>3
    <3>2. ~(View[w].start < t)
      BY <1>1, <1>5, <1>7, <2>1, <3>1, PointBounds DEF Visit
    <3>3. s.start <= View[w].start
      BY <1>1, <1>2, <1>3, <1>7, <3>1, <3>2, NothingBetween DEF Visit
    <3>4. IF s.end = Open
          THEN /\ s.start + MaxDuration <= View[w].start
               /\ s.start + 2 * MaxDuration <= View[w].last
          ELSE EffectiveEnd(s) <= View[w].start
      BY <1>3, <3>1, <3>3 DEF IInv, Sound, Separated
    <3>5. EffectiveEnd(n) <= EffectiveEnd(s) \/ s.end = Open
      BY <1>1, <1>3, <1>5, PointBounds, SentinelAssumption
         DEF EffectiveEnd, MaximumEnd, Lesser, Visit
    <3>6. EffectiveEnd(n) \in Nat /\ EffectiveEnd(s) \in Nat
      BY <1>3, <1>4, EffectiveEndBounds
    <3>7. View[w] \in Visit /\ t \in Nat /\ MaxDuration \in Nat
      BY <1>1, <1>7, PointBounds
    <3>8. CASE s.end = Open
      BY <1>3, <1>5, <3>1, <3>4, <3>7, <3>8 DEF Visit
    <3>9. CASE s.end # Open
      BY <1>3, <1>5, <3>1, <3>4, <3>5, <3>6, <3>7, <3>9 DEF Visit
    <3>10. QED
      BY <3>8, <3>9
  <2>4. CASE w = v
    <3>1. View'[u] = View[u] /\ View'[w] = n /\ u # v /\ View[u] \in Visit
      BY <1>6, <1>7, <2>1, <2>4
    <3>2. View[u].start <= t /\ View[u].start <= s.start
      BY <1>1, <1>3, <1>5, <2>1, <3>1, <2>4, PointBounds DEF Visit
    <3>3. EffectiveEnd(View[u]) <= t
      BY <1>1, <3>2, EarlierIsOver
    <3>4. View[u].end = Open => View[u].start + 2 * MaxDuration <= s.last
      BY <1>3, <3>1, <3>2 DEF IInv, Sound, Separated
    <3>5. View[u].end = Open => View[u].start + MaxDuration <= t
      BY <1>1, <1>3, <3>1, <3>4, PointBounds DEF Visit
    <3>6. QED
      BY <1>5, <2>4, <3>1, <3>3, <3>4, <3>5
  <2>5. QED
    BY <2>2, <2>3, <2>4
<1>11. QED
  BY <1>1, <1>6, <1>8, <1>9, <1>10, PointStep DEF Sound

LEMMA PassiveInv ==
    ASSUME IInv, NEW t \in Times, NEW active \in BOOLEAN,
           ResolvePassive(t, active)
    PROVE  IInv'
<1>1. TakesPoint(t) /\ visits' = visits /\ work' = work
  BY DEF ResolvePassive, TakesPoint
<1>2. View' = View
  BY <1>1 DEF View, Overlay
<1>3. QED
  BY <1>1, <1>2, PointStep DEF IInv, TypeOK

\* The visit that is closed keeps its start, ends at its effective end and holds
\* its last activity.
LEMMA ClosedRow ==
    ASSUME NEW s \in Visit, Contains(s, s.last)
    PROVE  /\ Closed(s) \in Visit
           /\ Closed(s).start = s.start /\ Closed(s).last = s.last
           /\ Closed(s).end = EffectiveEnd(s)
           /\ Closed(s).end # Open
           /\ EffectiveEnd(Closed(s)) = EffectiveEnd(s)
           /\ Contains(Closed(s), s.last)
<1> DEFINE e == EffectiveEnd(s)
<1>1. e \in Nat /\ e <= s.start + MaxDuration
  BY EffectiveEndBounds
<1>2. s.start <= s.last /\ s.last < e /\ s.start \in Nat /\ s.last \in Nat
  BY DEF Contains, Visit
<1>3. Greater(s.start, e) = e /\ Lesser(s.last, e) = s.last
  BY <1>1, <1>2 DEF Greater, Lesser
<1>4. Closed(s) = [s EXCEPT !.end = e, !.last = s.last]
  BY <1>3 DEF Closed
<1>5. Closed(s) = [start |-> s.start, last |-> s.last, end |-> e]
  <2>1. \E a, b, c : s = [start |-> a, last |-> b, end |-> c]
    BY DEF Visit
  <2>2. QED
    BY <1>4, <2>1
<1> HIDE DEF e
<1>6. e # Open
  BY <1>1, SentinelAssumption
<1>7. EffectiveEnd(Closed(s)) = e
  BY <1>1, <1>2, <1>5, <1>6, SettingsAssumption DEF EffectiveEnd, MaximumEnd, Lesser
<1>8. QED
  BY <1>1, <1>2, <1>5, <1>6, <1>7 DEF Contains, Visit, e

\* The visit a point starts ends before the next one.
LEMMA NewRow ==
    ASSUME IInv, NEW t \in Times, TakesPoint(t)
    PROVE  /\ NewVisit(t) \in Visit
           /\ NewVisit(t).start = t /\ NewVisit(t).last = t
           /\ NewVisit(t).end = Open <=> Later(t) = {}
           /\ NewVisit(t).end # Open =>
                /\ t < NewVisit(t).end
                /\ NewVisit(t).end <= t + Timeout
                /\ \A u \in Later(t) : NewVisit(t).end <= work[u].start
           /\ Contains(NewVisit(t), t)
<1> DEFINE bound == Lesser(t + Timeout, t + MaxDuration)
           e == UpTo(bound, Later(t))
<1>1. bound = t + Timeout /\ bound \in Nat /\ t < bound /\ t \in Nat
  BY PointBounds DEF Lesser
<1>2. Later(t) \subseteq Rows(work) /\ \A u \in Later(t) : t < work[u].start
  BY DEF Later
<1>3. /\ e \in Nat /\ e <= t + Timeout /\ t < e
      /\ \A u \in Later(t) : e <= work[u].start
  BY <1>1, <1>2, UpToBounds DEF IInv
<1>4. NewVisit(t) = [start |-> t, last |-> t,
                     end |-> IF Later(t) = {} THEN Open ELSE e]
  BY DEF NewVisit
<1> HIDE DEF e, bound
<1>5. e # Open
  BY <1>3, SentinelAssumption
<1>6. /\ NewVisit(t).start = t /\ NewVisit(t).last = t
      /\ NewVisit(t).end = (IF Later(t) = {} THEN Open ELSE e)
      /\ NewVisit(t) \in Visit
  BY <1>1, <1>3, <1>4 DEF Visit
<1>7. Contains(NewVisit(t), t)
  BY <1>1, <1>3, <1>5, <1>6, PointBounds DEF Contains, EffectiveEnd, MaximumEnd, Lesser
<1>8. QED
  BY <1>3, <1>5, <1>6, <1>7

LEMMA NewInv ==
    ASSUME IInv, NEW t \in Times, NEW active \in BOOLEAN,
           ResolveNew(t, active)
    PROVE  IInv'
<1> DEFINE expired == {v \in PreviousOpen(t) :
                          /\ v = Latest(PreviousOpen(t))
                          /\ t >= EffectiveEnd(work[v])}
           n == NewVisit(t)
<1>1. TakesPoint(t) /\ visits' = visits /\ Candidates(t) = {}
  BY DEF ResolveNew, TakesPoint
<1>2. PICK new \in VisitIds \ (Rows(work) \union Rows(visits)) :
           work' = [v \in VisitIds |-> IF v = new THEN n
                                       ELSE IF v \in expired THEN Closed(work[v])
                                       ELSE work[v]]
  BY DEF ResolveNew
<1>3. /\ n \in Visit /\ n.start = t /\ n.last = t
      /\ n.end = Open <=> Later(t) = {}
      /\ n.end # Open =>
           /\ t < n.end
           /\ n.end <= t + Timeout
           /\ \A u \in Later(t) : n.end <= work[u].start
      /\ Contains(n, t)
  BY <1>1, NewRow
<1>4. expired \subseteq Rows(work)
  BY DEF PreviousOpen, Started
<1>5. /\ \A u \in Rows(View) : u \in VisitIds /\ u # new /\ View[u] \in Visit
                               /\ Contains(View[u], View[u].last)
      /\ Rows(View) = Rows(work) \union Rows(visits)
      /\ \A u \in Rows(work) : View[u] = work[u] /\ work[u] \in Visit
  BY <1>2, ViewRows DEF IInv, Rows, Sound, ActivityInside
\* An open visit that has started by the point is the one that is closed.
<1>6. ASSUME NEW u \in Rows(View), View[u].end = Open, View[u].start <= t
      PROVE  u \in expired
  <2>1. u \in Rows(work)
    BY <1>1, <1>6, UnloadedIsFar
  <2>2. u \in PreviousOpen(t)
    BY <1>5, <1>6, <2>1 DEF PreviousOpen, Started
  <2>3. \A w \in PreviousOpen(t) : w = u
    BY <1>5, <1>6 DEF PreviousOpen, Started, IInv, Sound, OneOpen
  <2>4. work[u].start \in Nat
    BY <2>1, <1>5 DEF Visit
  <2>5. \E w \in PreviousOpen(t) : \A x \in PreviousOpen(t) : work[x].start <= work[w].start
    BY <2>2, <2>3, <2>4
  <2>6. Latest(PreviousOpen(t)) \in PreviousOpen(t)
    BY <2>5 DEF Latest
  <2>7. EffectiveEnd(work[u]) <= t /\ EffectiveEnd(work[u]) \in Nat /\ t \in Nat
    BY <1>1, <1>5, <1>6, <2>1, EarlierIsOver, EffectiveEndBounds, PointBounds
  <2>8. QED
    BY <2>2, <2>3, <2>6, <2>7
<1>7. \A u \in expired : Closed(work[u]) \in Visit
  BY <1>4, <1>5, ClosedRow
<1> HIDE DEF n, expired
<1>8. /\ work' \in [VisitIds -> Visit \union {Absent}]
      /\ Rows(work') = Rows(work) \union {new}
  <2>1. work \in [VisitIds -> Visit \union {Absent}]
    BY DEF IInv, TypeOK
  <2>2. work' \in [VisitIds -> Visit \union {Absent}]
    BY <1>2, <1>3, <1>7, <2>1
  <2>3. \A v \in VisitIds : work'[v] # Absent <=> v = new \/ work[v] # Absent
    BY <1>2, <1>3, <1>4, <1>7, <2>1, SentinelAssumption DEF Rows
  <2>4. QED
    BY <1>2, <2>2, <2>3 DEF Rows
<1>9. /\ Rows(View') = Rows(View) \union {new}
      /\ View'[new] = n
      /\ \A u \in Rows(View) \ expired : View'[u] = View[u]
      /\ \A u \in expired : u \in Rows(View) /\ View'[u] = Closed(View[u])
  <2>1. \A v \in VisitIds : View'[v] = IF v \in Rows(work) \union {new} THEN work'[v] ELSE visits[v]
    BY <1>1, <1>2, <1>8 DEF View, Overlay, Rows
  <2>2. \A v \in VisitIds : View[v] = IF v \in Rows(work) THEN work[v] ELSE visits[v]
    BY DEF View, Overlay, Rows
  <2>3. /\ View'[new] = n
        /\ \A v \in VisitIds \ {new} :
              View'[v] = IF v \in expired THEN Closed(View[v]) ELSE View[v]
    BY <1>2, <1>4, <2>1, <2>2
  <2>4. \A v \in VisitIds : View'[v] # Absent <=> v = new \/ View[v] # Absent
    BY <1>3, <1>4, <1>5, <1>7, <2>2, <2>3, SentinelAssumption DEF Rows
  <2>5. QED
    BY <1>2, <1>4, <1>5, <2>3, <2>4 DEF Rows
\* What the step leaves of the visits that were there.
<1>10. \A u \in Rows(View) :
          /\ View'[u] \in Visit
          /\ View'[u].start = View[u].start /\ View'[u].last = View[u].last
          /\ EffectiveEnd(View'[u]) = EffectiveEnd(View[u])
          /\ Contains(View'[u], View'[u].last)
          /\ View'[u].end = Open => View[u].end = Open /\ View[u].start > t
  <2>1. ASSUME NEW u \in Rows(View), u \in expired
        PROVE  /\ View'[u] \in Visit
               /\ View'[u].start = View[u].start /\ View'[u].last = View[u].last
               /\ EffectiveEnd(View'[u]) = EffectiveEnd(View[u])
               /\ Contains(View'[u], View'[u].last)
               /\ View'[u].end # Open
    BY <1>5, <1>9, <2>1, ClosedRow
  <2>2. ASSUME NEW u \in Rows(View), u \notin expired
        PROVE  /\ View'[u] = View[u]
               /\ View[u].end = Open => ~(View[u].start <= t)
    BY <1>6, <1>9, <2>2
  <2>3. t \in Nat /\ \A u \in Rows(View) : View[u].start \in Nat
    BY <1>1, <1>5, PointBounds DEF Visit
  <2>4. QED
    BY <1>5, <2>1, <2>2, <2>3
<1>11. ActivityInside(View')
  BY <1>3, <1>9, <1>10 DEF ActivityInside
<1>12. OneOpen(View')
  <2>1. ASSUME NEW u \in Rows(View), View'[u].end = Open
        PROVE  n.end # Open
    <3>1. u \in Rows(work)
      BY <1>1, <1>10, <2>1, UnloadedIsFar
    <3>2. u \in Later(t)
      BY <1>5, <1>10, <2>1, <3>1 DEF Later
    <3>3. QED
      BY <1>3, <3>2
  <2>2. QED
    BY <1>9, <1>10, <2>1 DEF OneOpen, IInv, Sound
<1>13. Separated(View')
  <2>1. SUFFICES ASSUME NEW u \in Rows(View'), NEW w \in Rows(View'), u # w,
                        View'[u].start <= View'[w].start
                 PROVE  IF View'[u].end = Open
                        THEN /\ View'[u].start + MaxDuration <= View'[w].start
                             /\ View'[u].start + 2 * MaxDuration <= View'[w].last
                        ELSE EffectiveEnd(View'[u]) <= View'[w].start
    BY DEF Separated
  <2>2. CASE u \in Rows(View) /\ w \in Rows(View)
    <3>1. IF View[u].end = Open
          THEN /\ View[u].start + MaxDuration <= View[w].start
               /\ View[u].start + 2 * MaxDuration <= View[w].last
          ELSE EffectiveEnd(View[u]) <= View[w].start
      BY <1>10, <2>1, <2>2 DEF IInv, Sound, Separated
    <3>2. /\ EffectiveEnd(View[u]) \in Nat
          /\ EffectiveEnd(View[u]) <= View[u].start + MaxDuration
          /\ View[u].start \in Nat /\ View[w].start \in Nat /\ MaxDuration \in Nat
      BY <1>1, <1>5, <2>2, EffectiveEndBounds, PointBounds DEF Visit
    <3>3. View[u].end = Open => EffectiveEnd(View[u]) <= View[w].start
      BY <3>1, <3>2
    <3>4. QED
      BY <1>10, <2>2, <3>1, <3>3
  <2>3. CASE u \in Rows(View) /\ w = new
    <3>1. View[u].start <= t /\ View[u].start \in Nat /\ t \in Nat
      BY <1>1, <1>3, <1>5, <1>9, <1>10, <2>1, <2>3, PointBounds DEF Visit
    <3>2. EffectiveEnd(View[u]) <= t
      BY <1>1, <2>3, <3>1, EarlierIsOver
    <3>3. QED
      BY <1>3, <1>9, <1>10, <2>3, <3>1, <3>2
  <2>4. CASE u = new /\ w \in Rows(View)
    <3>1. View[w].start \in Nat /\ View[w].last \in Nat /\ t \in Nat /\ View[w].start > t
          /\ View[w].start <= View[w].last
      BY <1>1, <1>3, <1>5, <1>9, <1>10, <2>1, <2>4, EarlierIsOver, PointBounds
         DEF Visit, Contains
    <3>2. CASE w \in Rows(work)
      <4>1. w \in Later(t)
        BY <1>5, <3>1, <3>2 DEF Later
      <4>2. n.end # Open /\ n.end <= View[w].start /\ n.end \in Nat
        BY <1>3, <1>5, <3>2, <4>1 DEF Visit
      <4>3. QED
        BY <1>3, <1>9, <1>10, <2>4, <3>1, <4>2, EffectiveEndBounds
    <3>3. CASE w \notin Rows(work)
      <4>1. View[w].start >= t + LateWindow
        BY <1>1, <2>4, <3>1, <3>3, UnloadedIsFar
      <4>2. View[w].start >= t + 2 * MaxDuration /\ View[w].start >= t + Timeout
        BY <1>1, <3>1, <4>1, PointBounds
      <4>3. CASE n.end = Open
        BY <1>1, <1>3, <1>9, <1>10, <2>4, <3>1, <4>2, <4>3, PointBounds
      <4>4. CASE n.end # Open
        <5>1. EffectiveEnd(n) <= n.end /\ EffectiveEnd(n) \in Nat /\ n.end \in Nat
          BY <1>3, <4>4, EffectiveEndBounds DEF Visit
        <5>2. QED
          BY <1>1, <1>3, <1>9, <1>10, <2>4, <3>1, <4>2, <4>4, <5>1, PointBounds
      <4>5. QED
        BY <4>3, <4>4
    <3>4. QED
      BY <3>2, <3>3
  <2>5. QED
    BY <1>9, <2>1, <2>2, <2>3, <2>4
<1>14. QED
  BY <1>1, <1>8, <1>11, <1>12, <1>13, PointStep DEF Sound

-----------------------------------------------------------------------------
(* The transaction around them.                                            *)

LEMMA InitInv == Init => IInv
<1> SUFFICES ASSUME Init PROVE IInv
  OBVIOUS
<1>1. Rows(visits) = {} /\ Rows(View) = {}
  BY DEF Init, NoRows, Rows, View, Overlay
<1>2. TypeOK
  BY DEF Init, TypeOK, NoRows, NoBatch, Phases
<1>3. BatchOrdered /\ WindowComplete
  BY DEF Init, NoBatch, BatchOrdered, WindowComplete
<1>4. QED
  BY <1>1, <1>2, <1>3 DEF IInv, Sound, ActivityInside, OneOpen, Separated

\* With no rows of its own the batch sees the table.
LEMMA EmptyView ==
    ASSUME visits \in [VisitIds -> Visit \union {Absent}], work = NoRows
    PROVE  View = visits
  BY DEF View, Overlay, NoRows

LEMMA BeginInv ==
    ASSUME IInv, NEW first \in Times, NEW last \in Times, Begin(first, last)
    PROVE  IInv'
<1>1. visits' = visits /\ visitor' = visitor
  BY DEF Begin
<1>2. /\ work' = [v \in VisitIds |-> IF visits[v] # Absent /\ InWindow(visits[v], first, last)
                                     THEN visits[v] ELSE Absent]
      /\ batch' = [phase |-> "loaded", first |-> first, at |-> first, last |-> last]
      /\ first <= last
  BY DEF Begin
<1>3. visits \in [VisitIds -> Visit \union {Absent}]
  BY DEF IInv, TypeOK
<1>4. View' = visits
  BY <1>1, <1>2, <1>3 DEF View, Overlay
<1>5. TypeOK'
  BY <1>1, <1>2, TimesAssumption DEF IInv, TypeOK, Phases
<1>6. BatchOrdered'
  BY <1>2, TimesAssumption DEF BatchOrdered
<1>7. WindowComplete'
  <2>1. SUFFICES ASSUME NEW v \in Rows(visits), v \notin Rows(work')
                 PROVE  /\ visits[v].end # Open
                        /\ \/ visits[v].start >= last + LateWindow
                           \/ visits[v].end < first - LateWindow
    BY <1>1, <1>2 DEF WindowComplete
  <2>2. ~InWindow(visits[v], first, last) /\ visits[v] \in Visit
    BY <1>2, <1>3, <2>1 DEF Rows
  <2>3. first \in Nat /\ last \in Nat /\ LateWindow \in Nat
    BY TimesAssumption, SettingsAssumption
  <2>4. QED
    BY <2>2, <2>3 DEF InWindow, Visit
<1>8. QED
  BY <1>1, <1>4, <1>5, <1>6, <1>7 DEF IInv, Sound, ActivityInside, OneOpen, Separated, Rows

LEMMA CommitInv ==
    ASSUME IInv, Commit
    PROVE  IInv'
<1>1. visits' = View /\ work' = NoRows /\ batch' = NoBatch
  BY DEF Commit
<1>2. View \in [VisitIds -> Visit \union {Absent}]
  BY ViewRows DEF IInv
<1>3. View' = View
  BY <1>1, <1>2 DEF View, Overlay, NoRows
<1>4. visitor' \in VisitorRow \union {Absent}
  BY DEF Commit, IInv, TypeOK, VisitorRow, Lesser, Greater
<1>5. TypeOK'
  BY <1>1, <1>2, <1>4 DEF TypeOK, NoRows, NoBatch, Phases
<1>6. BatchOrdered' /\ WindowComplete'
  BY <1>1 DEF BatchOrdered, WindowComplete, NoBatch
<1>7. Sound(View)
  BY DEF IInv
<1>8. QED
  BY <1>1, <1>3, <1>5, <1>6, <1>7 DEF IInv, Sound, ActivityInside, OneOpen, Separated, Rows

LEMMA RollbackInv ==
    ASSUME IInv, Rollback
    PROVE  IInv'
<1>1. visits' = visits /\ visitor' = visitor /\ work' = NoRows /\ batch' = NoBatch
  BY DEF Rollback
<1>2. View' = visits
  BY <1>1 DEF IInv, TypeOK, View, Overlay, NoRows
<1>3. TypeOK'
  BY <1>1 DEF IInv, TypeOK, NoRows, NoBatch, Phases
<1>4. BatchOrdered' /\ WindowComplete'
  BY <1>1 DEF BatchOrdered, WindowComplete, NoBatch
<1>5. QED
  BY <1>1, <1>2, <1>3, <1>4 DEF IInv, Sound, ActivityInside, OneOpen, Separated, Rows

LEMMA NextInv ==
    ASSUME IInv, Next
    PROVE  IInv'
<1>1. ASSUME NEW first \in Times, NEW last \in Times, Begin(first, last) PROVE IInv'
  BY <1>1, BeginInv
<1>2. ASSUME NEW t \in Times, NEW active \in BOOLEAN, Resolve(t, active) PROVE IInv'
  BY <1>2, InsideInv, BeforeInv, PassiveInv, NewInv DEF Resolve
<1>3. QED
  BY <1>1, <1>2, CommitInv, RollbackInv DEF Next

LEMMA StutterInv ==
    ASSUME IInv, UNCHANGED vars
    PROVE  IInv'
  BY DEF vars, IInv, TypeOK, BatchOrdered, WindowComplete, Sound,
         ActivityInside, OneOpen, Separated, View, Overlay, Rows

-----------------------------------------------------------------------------
(* The span of a visit.                                                    *)

\* The rows a point leaves hold at least what they held.
LEMMA PointGrows ==
    ASSUME IInv, NEW t \in Times, NEW active \in BOOLEAN, Resolve(t, active)
    PROVE  /\ visits' = visits
           /\ \A v \in Rows(work) : /\ v \in Rows(work')
                                    /\ work'[v].start <= work[v].start
                                    /\ work[v].last <= work'[v].last
           /\ \A v \in Rows(visits) \intersect Rows(work') : v \in Rows(work)
<1>1. TakesPoint(t) /\ visits' = visits
  BY DEF Resolve, ResolveInside, ResolveBefore, ResolvePassive, ResolveNew, TakesPoint
<1>2. /\ work \in [VisitIds -> Visit \union {Absent}]
      /\ \A v \in Rows(work) : work[v] \in Visit /\ v \in VisitIds
                               /\ Contains(work[v], work[v].last)
  BY ViewRows DEF IInv, TypeOK, Rows, Sound, ActivityInside
<1>3. t \in Nat /\ Absent \notin Visit
  BY <1>1, PointBounds, SentinelAssumption
<1>4. CASE work' = work
  BY <1>1, <1>2, <1>4 DEF Visit
<1>5. CASE \E v \in Rows(work) : \E n \in Visit :
              /\ work' = [work EXCEPT ![v] = n]
              /\ n.start <= work[v].start /\ work[v].last <= n.last
  <2>1. PICK v \in Rows(work), n \in Visit :
                /\ work' = [work EXCEPT ![v] = n]
                /\ n.start <= work[v].start /\ work[v].last <= n.last
    BY <1>5
  <2>2. work'[v] = n /\ \A u \in VisitIds \ {v} : work'[u] = work[u]
    BY <1>2, <2>1
  <2>3. QED
    BY <1>1, <1>2, <1>3, <2>1, <2>2 DEF Rows, Visit
<1>6. CASE ResolveInside(t, active)
  <2>1. PICK v \in Candidates(t) :
             work' = IF active THEN [work EXCEPT ![v] = Extended(v, t)] ELSE work
    BY <1>6 DEF ResolveInside
  <2>2. v \in Rows(work) /\ Contains(work[v], t)
    BY DEF Candidates
  <2>3. CASE t > work[v].last
    <3>1. /\ Extended(v, t) \in Visit
          /\ Extended(v, t).start = work[v].start
          /\ Extended(v, t).last = t
      BY <1>1, <2>2, <2>3, ExtendedRow
    <3>2. /\ Extended(v, t).start <= work[v].start
          /\ work[v].last <= Extended(v, t).last
      BY <1>2, <1>3, <2>2, <2>3, <3>1 DEF Visit
    <3>3. QED
      BY <1>4, <1>5, <2>1, <2>2, <3>1, <3>2
  <2>4. CASE ~(t > work[v].last)
    BY <1>2, <1>4, <2>1, <2>2, <2>4 DEF Extended
  <2>5. QED
    BY <2>3, <2>4
<1>7. CASE ResolveBefore(t, active)
  <2>1. PICK v \in FutureSessions(t) : work' = [work EXCEPT ![v].start = t]
    BY <1>7 DEF ResolveBefore
  <2>2. v \in Rows(work) /\ t < work[v].start
    BY <1>2, <1>3 DEF FutureSessions, Visit
  <2> DEFINE n == [work[v] EXCEPT !.start = t]
  <2>3. work' = [work EXCEPT ![v] = n]
    BY <2>1
  <2>4. n \in Visit /\ n.start = t /\ n.last = work[v].last
    BY <1>2, <1>3, <2>2 DEF Visit
  <2> HIDE DEF n
  <2>5. n.start <= work[v].start /\ work[v].last <= n.last
    BY <1>2, <1>3, <2>2, <2>4 DEF Visit
  <2>6. QED
    BY <1>5, <2>2, <2>3, <2>4, <2>5
<1>8. CASE ResolvePassive(t, active)
  BY <1>4, <1>8 DEF ResolvePassive
<1>9. CASE ResolveNew(t, active)
  <2> DEFINE expired == {v \in PreviousOpen(t) :
                            /\ v = Latest(PreviousOpen(t))
                            /\ t >= EffectiveEnd(work[v])}
  <2>1. PICK new \in VisitIds \ (Rows(work) \union Rows(visits)) :
             work' = [v \in VisitIds |-> IF v = new THEN NewVisit(t)
                                         ELSE IF v \in expired THEN Closed(work[v])
                                         ELSE work[v]]
    BY <1>9 DEF ResolveNew
  <2> HIDE DEF expired
  <2>2. \A v \in Rows(work) : v # new /\ work'[v] \in {Closed(work[v]), work[v]}
    BY <1>2, <2>1 DEF Rows
  <2>3. \A v \in Rows(work) : /\ Closed(work[v]) \in Visit
                              /\ Closed(work[v]).start = work[v].start
                              /\ Closed(work[v]).last = work[v].last
    BY <1>2, ClosedRow
  <2>4. \A v \in Rows(work) : v \in Rows(work')
    BY <1>2, <1>3, <2>2, <2>3 DEF Rows
  <2>5. expired \subseteq Rows(work)
    BY DEF expired, PreviousOpen, Started
  <2>6. \A v \in VisitIds \ Rows(work) : v # new => work'[v] = Absent
    BY <1>2, <2>1, <2>5 DEF Rows
  <2>7. QED
    BY <1>1, <1>2, <2>1, <2>2, <2>3, <2>4, <2>6 DEF Rows, Visit
<1>10. QED
  BY <1>6, <1>7, <1>8, <1>9 DEF Resolve

LEMMA GrowsInv ==
    ASSUME IInv, WorkGrows, [Next]_vars
    PROVE  WorkGrows'
<1>1. ASSUME NEW v \in VisitIds, visits[v] # Absent
      PROVE  visits[v].start \in Nat /\ visits[v].last \in Nat
  BY <1>1 DEF IInv, TypeOK, Visit
<1>2. ASSUME NEW first \in Times, NEW last \in Times, Begin(first, last)
      PROVE  WorkGrows'
  <2>1. visits' = visits /\ \A v \in Rows(visits) \intersect Rows(work') : work'[v] = visits[v]
    BY <1>2 DEF Begin, Rows
  <2>2. QED
    BY <1>1, <2>1 DEF WorkGrows, Rows
<1>3. ASSUME NEW t \in Times, NEW active \in BOOLEAN, Resolve(t, active)
      PROVE  WorkGrows'
  <2>1. /\ visits' = visits
        /\ \A v \in Rows(visits) \intersect Rows(work') :
              /\ v \in Rows(work)
              /\ work'[v].start <= work[v].start
              /\ work[v].last <= work'[v].last
    BY <1>3, PointGrows
  <2>2. /\ \A v \in Rows(work) : work[v].start \in Nat /\ work[v].last \in Nat
        /\ \A v \in Rows(work') : work'[v].start \in Nat /\ work'[v].last \in Nat
    <3>1. TypeOK /\ TypeOK'
      BY <1>3, NextInv DEF IInv, Next
    <3>2. QED
      BY <3>1 DEF TypeOK, Rows, Visit
  <2>3. QED
    BY <1>1, <2>1, <2>2 DEF WorkGrows, Rows
<1>4. CASE Commit \/ Rollback
  BY <1>4 DEF Commit, Rollback, WorkGrows, NoRows, Rows
<1>5. CASE UNCHANGED vars
  BY <1>5 DEF vars, WorkGrows, Rows
<1>6. QED
  BY <1>2, <1>3, <1>4, <1>5 DEF Next

\* A step of the resolver changes the table only when it commits, and then no
\* visit loses any of its span.
LEMMA SpanStep ==
    ASSUME IInv, WorkGrows, Next
    PROVE  \A v \in Rows(visits) : v \in Rows(visits)' =>
               visits'[v].start <= visits[v].start /\ visits'[v].last >= visits[v].last
<1>1. \A v \in Rows(visits) : visits[v].start \in Nat /\ visits[v].last \in Nat
  BY DEF IInv, TypeOK, Rows, Visit
<1>2. CASE visits' = visits
  BY <1>1, <1>2
<1>3. CASE Commit
  <2>1. \A v \in Rows(visits) : visits'[v] = IF v \in Rows(work) THEN work[v] ELSE visits[v]
    BY <1>3 DEF Commit, View, Overlay, Rows
  <2>2. \A v \in Rows(work) : work[v].start \in Nat /\ work[v].last \in Nat
    BY DEF IInv, TypeOK, Rows, Visit
  <2>3. QED
    BY <1>1, <2>1, <2>2 DEF WorkGrows
<1>4. QED
  BY <1>2, <1>3 DEF Next, Begin, Resolve, ResolveInside, ResolveBefore, ResolvePassive,
                    ResolveNew, TakesPoint, Rollback

-----------------------------------------------------------------------------
(* The theorems.                                                           *)

\* The inductive invariant holds in every reachable state.
THEOREM ResolverInvariant == Spec => [](IInv /\ WorkGrows)
<1>1. Init => IInv /\ WorkGrows
  <2>1. Init => WorkGrows
    BY DEF Init, NoRows, WorkGrows, Rows
  <2>2. QED
    BY <2>1, InitInv
<1>2. (IInv /\ WorkGrows) /\ [Next]_vars => (IInv /\ WorkGrows)'
  BY NextInv, StutterInv, GrowsInv
<1>3. QED
  BY <1>1, <1>2, PTL DEF Spec

\* Every variable keeps its type.
THEOREM TypeCorrect == Spec => []TypeOK
<1>1. IInv => TypeOK
  BY DEF IInv
<1>2. QED
  BY <1>1, ResolverInvariant, PTL

\* Separated visits share no instant.
LEMMA SeparatedDisjoint ==
    ASSUME NEW f, \A v \in Rows(f) : f[v] \in Visit, Separated(f)
    PROVE  Disjoint(f)
<1>1. SUFFICES ASSUME NEW u \in Rows(f), NEW v \in Rows(f), u # v
               PROVE  \/ EffectiveEnd(f[u]) <= f[v].start
                      \/ EffectiveEnd(f[v]) <= f[u].start
  BY DEF Disjoint
<1>2. ASSUME NEW a \in Rows(f), NEW b \in Rows(f), a # b, f[a].start <= f[b].start
      PROVE  EffectiveEnd(f[a]) <= f[b].start
  <2>1. /\ f[a].start \in Nat /\ f[b].start \in Nat /\ MaxDuration \in Nat
        /\ EffectiveEnd(f[a]) \in Nat /\ EffectiveEnd(f[a]) <= f[a].start + MaxDuration
    BY <1>2, EffectiveEndBounds, SettingsAssumption DEF Visit
  <2>2. f[a].end = Open => f[a].start + MaxDuration <= f[b].start
    BY <1>2 DEF Separated
  <2>3. QED
    BY <1>2, <2>1, <2>2 DEF Separated
<1>3. f[u].start <= f[v].start \/ f[v].start <= f[u].start
  BY <1>1 DEF Visit
<1>4. QED
  BY <1>1, <1>2, <1>3

\* The invariant implies the properties the runs check.
LEMMA InvariantImplies ==
    ASSUME IInv
    PROVE  VisitsDisjoint /\ AtMostOneOpenVisit /\ LastActivityInsideVisit /\ WindowComplete
<1>1. \A v \in Rows(visits) : visits[v] \in Visit
  BY DEF IInv, TypeOK, Rows
<1>2. \A v \in Rows(View) : View[v] \in Visit
  BY ViewRows DEF IInv
<1>3. QED
  BY <1>1, <1>2, SeparatedDisjoint
     DEF IInv, Sound, VisitsDisjoint, AtMostOneOpenVisit, LastActivityInsideVisit

\* Two visits of a visitor never share an instant, so no event is refused for
\* overlapping several.
THEOREM VisitsStayDisjoint == Spec => []VisitsDisjoint
  BY InvariantImplies, ResolverInvariant, PTL

\* The partial unique index on open visits is never what stops a request.
THEOREM OneOpenVisit == Spec => []AtMostOneOpenVisit
  BY InvariantImplies, ResolverInvariant, PTL

\* Moving a start back and closing at a cutoff leave the last activity inside.
THEOREM ActivityStaysInside == Spec => []LastActivityInsideVisit
  BY InvariantImplies, ResolverInvariant, PTL

\* What a batch does not load cannot matter to its points.
THEOREM LoadedRowsSuffice == Spec => []WindowComplete
  BY InvariantImplies, ResolverInvariant, PTL

\* No committed batch takes recorded activity away from a visit.
THEOREM SpansOnlyGrow == Spec => SpanOnlyGrows
<1> DEFINE Grown == \A v \in Rows(visits) :
              v \in Rows(visits)' => /\ visits'[v].start <= visits[v].start
                                     /\ visits'[v].last >= visits[v].last
<1>1. IInv /\ WorkGrows /\ [Next]_vars => [Grown]_visits
  BY SpanStep DEF vars
<1>2. QED
  BY <1>1, ResolverInvariant, PTL DEF Spec, SpanOnlyGrows

-----------------------------------------------------------------------------
(* The resolver beside the retention job.                                  *)

\* Deleting committed rows that are not loaded keeps the resolver's invariant.
LEMMA DeletionInv ==
    ASSUME IInv, WorkGrows, NEW ids \in SUBSET VisitIds, ids \intersect Rows(work) = {},
           visits' = Without(ids), visitor' \in {visitor, Absent},
           work' = work, batch' = batch
    PROVE  IInv' /\ WorkGrows'
<1>1. /\ visits' \in [VisitIds -> Visit \union {Absent}]
      /\ Rows(visits)' = Rows(visits) \ ids
      /\ \A v \in Rows(visits)' : visits'[v] = visits[v]
  BY DEF IInv, TypeOK, Without, Rows
<1>2. /\ Rows(View') = Rows(View) \ ids
      /\ \A v \in Rows(View') : View'[v] = View[v]
  BY <1>1 DEF View, Overlay, Without, Rows
<1>3. TypeOK' /\ BatchOrdered'
  BY <1>1 DEF IInv, TypeOK, BatchOrdered
<1>4. WindowComplete'
  BY <1>1 DEF IInv, WindowComplete, Rows
<1>5. Sound(visits)'
  BY <1>1 DEF IInv, Sound, ActivityInside, OneOpen, Separated
<1>6. Sound(View)'
  BY <1>2 DEF IInv, Sound, ActivityInside, OneOpen, Separated
<1>7. WorkGrows'
  BY <1>1 DEF WorkGrows, Rows
<1>8. QED
  BY <1>3, <1>4, <1>5, <1>6, <1>7 DEF IInv

\* The ids the job has read and collected are ids.
PruneTypeOK ==
    /\ cutoff \in Nat
    /\ prune \in [phase: PrunePhases, ids: SUBSET VisitIds, collected: SUBSET VisitIds]
    /\ unseen \subseteq VisitIds

LEMMA PruneTypeInv ==
    ASSUME PruneTypeOK, [RetentionNext]_allVars
    PROVE  PruneTypeOK'
<1>1. CASE PruneStart
  <2>1. cutoff' \in Nat
    BY <1>1, RetentionAssumption DEF PruneStart
  <2>2. QED
    BY <1>1, <2>1 DEF PruneStart, PruneTypeOK, PrunePhases, NextBatch
<1>2. CASE PruneRead
  <2>1. PICK ids \in SUBSET Expired :
           prune' = IF ids = {} THEN NotPruning
                    ELSE [NextBatch EXCEPT !.phase = "read", !.ids = ids]
    BY <1>2 DEF PruneRead
  <2>2. ids \in SUBSET VisitIds
    BY DEF Expired, Rows
  <2>3. prune' \in [phase: PrunePhases, ids: SUBSET VisitIds, collected: SUBSET VisitIds]
    BY <2>1, <2>2 DEF PrunePhases, NotPruning, NextBatch
  <2>4. QED
    BY <1>2, <2>3 DEF PruneRead, PruneTypeOK
<1>3. CASE PruneDelete
  BY <1>3 DEF PruneDelete, PruneTypeOK, PrunePhases, NextBatch
<1>4. CASE PruneCollect
  BY <1>4 DEF PruneCollect, PruneTypeOK, PrunePhases, Rows
<1>5. CASE PruneOrphan
  BY <1>5 DEF PruneOrphan, PruneTypeOK, PrunePhases, NotPruning, NextBatch
<1>6. CASE Ingest
  BY <1>6 DEF Ingest, pruneVars, PruneTypeOK, Rows
<1>7. CASE PruneAbort \/ UNCHANGED allVars
  BY <1>7 DEF PruneAbort, allVars, PruneTypeOK, PrunePhases, NotPruning
<1>8. QED
  BY <1>1, <1>2, <1>3, <1>4, <1>5, <1>6, <1>7 DEF RetentionNext, Prune

LEMMA RetentionStepInv ==
    ASSUME IInv, WorkGrows, PruneTypeOK, [RetentionNext]_allVars
    PROVE  IInv' /\ WorkGrows'
<1>1. CASE UNCHANGED vars
  BY <1>1, StutterInv, GrowsInv
<1>2. CASE Ingest
  BY <1>2, NextInv, GrowsInv DEF Ingest
<1>3. CASE PruneDelete
  <2>1. CASE UNCHANGED vars
    BY <1>1, <2>1
  <2>2. CASE ~ UNCHANGED vars
    BY <1>3, <2>2, DeletionInv DEF PruneDelete, PruneTypeOK
  <2>3. QED
    BY <2>1, <2>2
<1>4. CASE PruneOrphan
  <2> DEFINE doomed == prune.ids \union prune.collected
  <2>1. Rows(work) = {} /\ doomed \in SUBSET VisitIds
    BY <1>4 DEF PruneOrphan, IInv, BatchOrdered, NoRows, Rows, PruneTypeOK
  <2>2. CASE Rows(visits) \subseteq doomed
    <3>1. /\ visits' = Without(doomed) /\ visitor' = Absent
          /\ work' = work /\ batch' = batch
      BY <1>4, <2>2 DEF PruneOrphan
    <3> HIDE DEF doomed
    <3>2. QED
      BY <2>1, <3>1, DeletionInv
  <2>3. CASE ~ (Rows(visits) \subseteq doomed)
    BY <1>1, <1>4, <2>3 DEF PruneOrphan, vars
  <2>4. QED
    BY <2>2, <2>3
<1>5. CASE PruneStart \/ PruneRead \/ PruneCollect \/ PruneAbort \/ UNCHANGED allVars
  BY <1>1, <1>5 DEF PruneStart, PruneRead, PruneCollect, PruneAbort, allVars, vars
<1>6. QED
  BY <1>2, <1>3, <1>4, <1>5 DEF RetentionNext, Prune

\* The resolver's invariant survives the job.
THEOREM RetentionInvariant == RetentionSpec => [](IInv /\ WorkGrows /\ PruneTypeOK)
<1>1. RetentionInit => IInv /\ WorkGrows /\ PruneTypeOK
  <2>1. Init => WorkGrows
    BY DEF Init, NoRows, WorkGrows, Rows
  <2>2. QED
    BY <2>1, InitInv
       DEF RetentionInit, PruneTypeOK, PrunePhases, NotPruning
<1>2. (IInv /\ WorkGrows /\ PruneTypeOK) /\ [RetentionNext]_allVars
        => (IInv /\ WorkGrows /\ PruneTypeOK)'
  BY RetentionStepInv, PruneTypeInv
<1>3. QED
  BY <1>1, <1>2, PTL DEF RetentionSpec

\* Every variable of the resolver and the retention job keeps its type: a batch
\* of prune_expired_recording_visits holds ids of visits only.
THEOREM RetentionTyped == RetentionSpec => []RetentionTypeOK
<1>1. IInv /\ WorkGrows /\ PruneTypeOK => RetentionTypeOK
  BY DEF IInv, PruneTypeOK, RetentionTypeOK
<1>2. QED
  BY <1>1, RetentionInvariant, PTL

\* Deleting visits never lets two of the remaining ones overlap.
THEOREM DisjointWhilePruning == RetentionSpec => []VisitsDisjoint
  BY InvariantImplies, RetentionInvariant, PTL

\* Deleting visits never lets a visitor have two open ones.
THEOREM OneOpenWhilePruning == RetentionSpec => []AtMostOneOpenVisit
  BY InvariantImplies, RetentionInvariant, PTL

-----------------------------------------------------------------------------
(* The span of the visitor.  Between two points the rows of the batch may  *)
(* reach beyond what the visitor row records, but no further than the      *)
(* points of the batch, which Commit adds to it.                           *)

SpannedByBatch(s) ==
    /\ \/ visitor # Absent /\ visitor.first <= s.start
       \/ batch.first <= s.start
    /\ \/ visitor # Absent /\ s.last <= visitor.last
       \/ s.last <= batch.last

WorkSpanned == \A v \in Rows(work) : SpannedByBatch(work[v])

\* What a point leaves of a row's span is its own time or what the row had.
LEMMA PointSpans ==
    ASSUME IInv, NEW t \in Times, NEW active \in BOOLEAN, Resolve(t, active)
    PROVE  \A v \in Rows(work') :
               /\ \/ work'[v].start = t
                  \/ v \in Rows(work) /\ work'[v].start = work[v].start
               /\ \/ work'[v].last = t
                  \/ v \in Rows(work) /\ work'[v].last = work[v].last
<1>1. TakesPoint(t)
  BY DEF Resolve, ResolveInside, ResolveBefore, ResolvePassive, ResolveNew
<1>2. /\ work \in [VisitIds -> Visit \union {Absent}]
      /\ \A v \in Rows(work) : work[v] \in Visit /\ v \in VisitIds
                               /\ Contains(work[v], work[v].last)
  BY ViewRows DEF IInv, TypeOK, Rows, Sound, ActivityInside
<1>3. CASE work' = work
  BY <1>3
<1>4. CASE \E v \in Rows(work) : \E n :
              /\ work' = [work EXCEPT ![v] = n]
              /\ n.start \in {t, work[v].start}
              /\ n.last \in {t, work[v].last}
  <2>1. PICK v \in Rows(work) : \E n :
                /\ work' = [work EXCEPT ![v] = n]
                /\ n.start \in {t, work[v].start}
                /\ n.last \in {t, work[v].last}
    BY <1>4
  <2>2. PICK n : /\ work' = [work EXCEPT ![v] = n]
                 /\ n.start \in {t, work[v].start}
                 /\ n.last \in {t, work[v].last}
    BY <2>1
  <2>3. work'[v] = n /\ \A u \in VisitIds \ {v} : work'[u] = work[u]
    BY <1>2, <2>2
  <2>4. QED
    BY <1>2, <2>2, <2>3 DEF Rows
<1>5. CASE ResolveInside(t, active)
  <2>1. PICK v \in Candidates(t) :
             work' = IF active THEN [work EXCEPT ![v] = Extended(v, t)] ELSE work
    BY <1>5 DEF ResolveInside
  <2>2. v \in Rows(work) /\ Contains(work[v], t)
    BY DEF Candidates
  <2>3. CASE t > work[v].last
    <3>1. Extended(v, t).start = work[v].start /\ Extended(v, t).last = t
      BY <1>1, <2>2, <2>3, ExtendedRow
    <3>2. CASE active
      BY <1>4, <2>1, <2>2, <3>1, <3>2
    <3>3. QED
      BY <1>3, <2>1, <3>2
  <2>4. CASE ~(t > work[v].last)
    BY <1>2, <1>3, <2>1, <2>2, <2>4 DEF Extended
  <2>5. QED
    BY <2>3, <2>4
<1>6. CASE ResolveBefore(t, active)
  <2>1. PICK v \in FutureSessions(t) : work' = [work EXCEPT ![v].start = t]
    BY <1>6 DEF ResolveBefore
  <2>2. v \in Rows(work)
    BY DEF FutureSessions
  <2> DEFINE n == [work[v] EXCEPT !.start = t]
  <2>3. work' = [work EXCEPT ![v] = n]
    BY <2>1
  <2>4. n.start = t /\ n.last = work[v].last
    BY <1>2, <2>2 DEF Visit
  <2> HIDE DEF n
  <2>5. QED
    BY <1>4, <2>2, <2>3, <2>4
<1>7. CASE ResolvePassive(t, active)
  BY <1>3, <1>7 DEF ResolvePassive
<1>8. CASE ResolveNew(t, active)
  <2> DEFINE expired == {v \in PreviousOpen(t) :
                            /\ v = Latest(PreviousOpen(t))
                            /\ t >= EffectiveEnd(work[v])}
  <2>1. PICK new \in VisitIds \ (Rows(work) \union Rows(visits)) :
             work' = [v \in VisitIds |-> IF v = new THEN NewVisit(t)
                                         ELSE IF v \in expired THEN Closed(work[v])
                                         ELSE work[v]]
    BY <1>8 DEF ResolveNew
  <2>2. expired \subseteq Rows(work)
    BY DEF PreviousOpen, Started
  <2> HIDE DEF expired
  <2>3. \A v \in Rows(work) : /\ Closed(work[v]).start = work[v].start
                              /\ Closed(work[v]).last = work[v].last
    BY <1>2, ClosedRow
  <2>4. NewVisit(t).start = t /\ NewVisit(t).last = t
    BY DEF NewVisit
  <2>5. ASSUME NEW v \in Rows(work'), v # new
        PROVE  v \in Rows(work) /\ work'[v] \in {Closed(work[v]), work[v]}
    BY <2>1, <2>2, <2>5 DEF Rows
  <2>6. work'[new] = NewVisit(t)
    BY <2>1
  <2>7. QED
    BY <2>3, <2>4, <2>5, <2>6
<1>9. QED
  BY <1>5, <1>6, <1>7, <1>8 DEF Resolve

\* The rows of the batch stay inside what it will record.
LEMMA WorkSpannedInv ==
    ASSUME IInv, VisitorSpansVisits, WorkSpanned, Next
    PROVE  VisitorSpansVisits' /\ WorkSpanned'
<1>1. /\ \A v \in Rows(work) : work[v].start \in Nat /\ work[v].last \in Nat
      /\ \A v \in Rows(visits) : visits[v].start \in Nat /\ visits[v].last \in Nat
      /\ visitor # Absent => visitor.first \in Nat /\ visitor.last \in Nat
      /\ batch.first \in Nat /\ batch.last \in Nat
  BY DEF IInv, TypeOK, Rows, Visit, VisitorRow
<1>2. ASSUME NEW first \in Times, NEW last \in Times, Begin(first, last)
      PROVE  VisitorSpansVisits' /\ WorkSpanned'
  <2>1. UNCHANGED <<visits, visitor>>
    BY <1>2 DEF Begin
  <2>2. \A v \in Rows(work') : v \in Rows(visits) /\ work'[v] = visits[v]
    BY <1>2 DEF Begin, Rows
  <2>3. QED
    BY <2>1, <2>2 DEF VisitorSpansVisits, WorkSpanned, SpannedByBatch, Rows
<1>3. ASSUME NEW t \in Times, NEW active \in BOOLEAN, Resolve(t, active)
      PROVE  VisitorSpansVisits' /\ WorkSpanned'
  <2>1. TakesPoint(t)
    BY <1>3 DEF Resolve, ResolveInside, ResolveBefore, ResolvePassive, ResolveNew
  <2>2. /\ UNCHANGED <<visits, visitor>>
        /\ batch'.first = batch.first /\ batch'.last = batch.last
        /\ batch.first <= t /\ t <= batch.last
    BY <2>1, PointBounds DEF TakesPoint
  <2>3. VisitorSpansVisits'
    BY <2>2 DEF VisitorSpansVisits, Rows
  <2>4. ASSUME NEW v \in Rows(work')
        PROVE  SpannedByBatch(work[v])'
    <3>1. /\ \/ work'[v].start = t
             \/ v \in Rows(work) /\ work'[v].start = work[v].start
          /\ \/ work'[v].last = t
             \/ v \in Rows(work) /\ work'[v].last = work[v].last
      BY <1>3, <2>4, PointSpans
    <3>2. v \in Rows(work) => SpannedByBatch(work[v])
      BY DEF WorkSpanned
    <3>3. QED
      BY <2>2, <3>1, <3>2 DEF SpannedByBatch
  <2>5. QED
    BY <2>3, <2>4 DEF WorkSpanned, Rows
<1>4. CASE Commit
  <2>1. Rows(work') = {}
    BY <1>4 DEF Commit, NoRows, Rows
  <2>2. visitor' = IF visitor = Absent
                   THEN [first |-> batch.first, last |-> batch.last]
                   ELSE [first |-> Lesser(visitor.first, batch.first),
                         last  |-> Greater(visitor.last, batch.last)]
    BY <1>4 DEF Commit
  <2>3. visitor' # Absent
    <3>1. visitor' \in VisitorRow
      BY <1>1, <2>2 DEF VisitorRow, Lesser, Greater
    <3>2. QED
      BY <3>1, SentinelAssumption
  <2>4. /\ visitor'.first \in Nat /\ visitor'.first <= batch.first
        /\ visitor'.last \in Nat /\ batch.last <= visitor'.last
        /\ visitor # Absent =>
              visitor'.first <= visitor.first /\ visitor.last <= visitor'.last
    BY <1>1, <2>2 DEF Lesser, Greater
  <2>5. ASSUME NEW v \in Rows(visits')
        PROVE  visitor'.first <= visits'[v].start /\ visits'[v].last <= visitor'.last
    <3>1. \/ v \in Rows(work) /\ visits'[v] = work[v]
          \/ v \in Rows(visits) /\ visits'[v] = visits[v]
      BY <1>4, <2>5 DEF Commit, View, Overlay, Rows
    <3>2. CASE v \in Rows(work) /\ visits'[v] = work[v]
      <4>1. SpannedByBatch(work[v])
        BY <3>2 DEF WorkSpanned
      <4>2. QED
        BY <1>1, <2>4, <3>2, <4>1 DEF SpannedByBatch
    <3>3. CASE v \in Rows(visits) /\ visits'[v] = visits[v]
      BY <1>1, <2>4, <3>3 DEF VisitorSpansVisits
    <3>4. QED
      BY <3>1, <3>2, <3>3
  <2>6. QED
    BY <2>1, <2>3, <2>5 DEF VisitorSpansVisits, WorkSpanned, Rows
<1>5. CASE Rollback
  BY <1>5 DEF Rollback, NoRows, Rows, VisitorSpansVisits, WorkSpanned
<1>6. QED
  BY <1>2, <1>3, <1>4, <1>5 DEF Next

-----------------------------------------------------------------------------
(* The ids of the job's batch.                                             *)

\* They were read before, but are still those of expired visits.
BatchExpired == \A v \in prune.ids : v \in Rows(visits) /\ visits[v].start < cutoff

\* What goes with the visitor was committed after the job had found it without
\* visits; until that is collected, so were all visits but those of the batch.
CollectedUnseen ==
    /\ prune.phase = "orphaned" => Rows(visits) \subseteq prune.ids \union unseen
    /\ prune.collected \subseteq unseen

JobInv == VisitorSpansVisits /\ WorkSpanned /\ BatchExpired /\ CollectedUnseen

\* The deletion of a batch of the job: a visitor that goes has no visit left.
LEMMA DeletionSpans ==
    ASSUME IInv, JobInv, NEW ids, visits' = Without(ids), work' = work, batch' = batch,
           \/ visitor' = visitor
           \/ Rows(visits) \subseteq ids /\ Rows(work) = {},
           prune' = NextBatch
    PROVE  JobInv'
<1>1. \A v \in Rows(visits)' : v \in Rows(visits) \ ids /\ visits'[v] = visits[v]
  BY DEF Without, Rows
<1>2. CollectedUnseen'
  BY DEF CollectedUnseen, NextBatch
<1>3. QED
  BY <1>1, <1>2 DEF JobInv, VisitorSpansVisits, WorkSpanned, SpannedByBatch, BatchExpired,
                   NextBatch, Rows

\* A step of the job that deletes nothing leaves the spans as they are.
LEMMA NothingDeleted ==
    ASSUME JobInv, UNCHANGED vars, BatchExpired', CollectedUnseen'
    PROVE  JobInv'
<1>1. VisitorSpansVisits' /\ WorkSpanned'
  BY DEF vars, JobInv, VisitorSpansVisits, WorkSpanned, SpannedByBatch, Rows
<1>2. QED
  BY <1>1 DEF JobInv

\* The resolver takes no committed visit away.
LEMMA IngestKeepsVisits ==
    ASSUME Ingest
    PROVE  Rows(visits) \subseteq Rows(visits)'
  BY DEF Ingest, Next, Begin, Resolve, ResolveInside, ResolveBefore, ResolvePassive,
         ResolveNew, TakesPoint, Commit, Rollback, View, Overlay, Rows

LEMMA JobStepInv ==
    ASSUME IInv, WorkGrows, PruneTypeOK, JobInv, [RetentionNext]_allVars
    PROVE  JobInv'
<1>1. CASE Ingest
  <2>1. Next /\ UNCHANGED pruneVars
    BY <1>1 DEF Ingest
  <2>2. VisitorSpansVisits' /\ WorkSpanned'
    BY <2>1, WorkSpannedInv DEF JobInv
  <2>3. \A v \in Rows(visits) : v \in Rows(visits)' /\ visits'[v].start <= visits[v].start
    BY <1>1, <2>1, IngestKeepsVisits, SpanStep
  <2>4. \A v \in Rows(visits) : visits[v].start \in Nat
    BY DEF IInv, TypeOK, Rows, Visit
  <2>5. \A v \in Rows(visits)' : visits'[v].start \in Nat
    <3>1. TypeOK'
      BY <2>1, NextInv DEF IInv
    <3>2. QED
      BY <3>1 DEF TypeOK, Rows, Visit
  <2>6. BatchExpired'
    BY <2>1, <2>3, <2>4, <2>5 DEF JobInv, BatchExpired, pruneVars, PruneTypeOK
  <2>7. CollectedUnseen'
    BY <1>1, <2>1 DEF Ingest, JobInv, CollectedUnseen, pruneVars
  <2>8. QED
    BY <2>2, <2>6, <2>7 DEF JobInv
<1>2. CASE PruneStart
  <2>1. UNCHANGED vars /\ BatchExpired' /\ CollectedUnseen'
    BY <1>2 DEF PruneStart, BatchExpired, CollectedUnseen, NextBatch
  <2>2. QED
    BY <2>1, NothingDeleted
<1>3. CASE PruneRead
  <2>1. UNCHANGED vars /\ BatchExpired' /\ CollectedUnseen'
    BY <1>3 DEF PruneRead, BatchExpired, CollectedUnseen, NextBatch, NotPruning, vars,
                Expired, Rows
  <2>2. QED
    BY <2>1, NothingDeleted
<1>4. CASE PruneDelete
  <2>1. CASE Rows(visits) \subseteq prune.ids
    <3>1. /\ UNCHANGED vars /\ UNCHANGED <<cutoff, unseen>>
          /\ prune' = [prune EXCEPT !.phase = "orphaned"]
      BY <1>4, <2>1 DEF PruneDelete
    <3>2. prune'.ids = prune.ids /\ prune'.collected = prune.collected
      BY <3>1 DEF PruneTypeOK
    <3>3. BatchExpired' /\ CollectedUnseen'
      BY <2>1, <3>1, <3>2 DEF JobInv, BatchExpired, CollectedUnseen, vars, Rows
    <3>4. QED
      BY <3>1, <3>3, NothingDeleted
  <2>2. CASE ~ (Rows(visits) \subseteq prune.ids)
    BY <1>4, <2>2, DeletionSpans DEF PruneDelete
  <2>3. QED
    BY <2>1, <2>2
<1>5. CASE PruneCollect
  <2>1. /\ UNCHANGED vars /\ UNCHANGED <<cutoff, unseen>> /\ prune.phase = "orphaned"
        /\ prune' = [prune EXCEPT !.phase = "collected", !.collected = Rows(visits) \ prune.ids]
    BY <1>5 DEF PruneCollect
  <2>2. /\ prune'.ids = prune.ids /\ prune'.phase = "collected"
        /\ prune'.collected = Rows(visits) \ prune.ids
    BY <2>1 DEF PruneTypeOK
  <2>3. BatchExpired' /\ CollectedUnseen'
    BY <2>1, <2>2 DEF JobInv, BatchExpired, CollectedUnseen, vars, Rows
  <2>4. QED
    BY <2>1, <2>3, NothingDeleted
<1>6. CASE PruneOrphan
  <2> DEFINE doomed == prune.ids \union prune.collected
  <2>1. Rows(work) = {}
    BY <1>6 DEF PruneOrphan, IInv, BatchOrdered, NoRows, Rows
  <2>2. CASE Rows(visits) \subseteq doomed
    <3>1. visits' = Without(doomed) /\ work' = work /\ batch' = batch /\ prune' = NextBatch
      BY <1>6, <2>2 DEF PruneOrphan
    <3> HIDE DEF doomed
    <3>2. QED
      BY <2>1, <2>2, <3>1, DeletionSpans
  <2>3. CASE ~ (Rows(visits) \subseteq doomed)
    <3>1. UNCHANGED vars /\ prune' = NotPruning
      BY <1>6, <2>3 DEF PruneOrphan, vars
    <3>2. BatchExpired' /\ CollectedUnseen'
      BY <3>1 DEF BatchExpired, CollectedUnseen, NotPruning
    <3>3. QED
      BY <3>1, <3>2, NothingDeleted
  <2>4. QED
    BY <2>2, <2>3
<1>7. CASE PruneAbort
  <2>1. UNCHANGED vars /\ BatchExpired' /\ CollectedUnseen'
    BY <1>7 DEF PruneAbort, BatchExpired, CollectedUnseen, NotPruning
  <2>2. QED
    BY <2>1, NothingDeleted
<1>8. CASE UNCHANGED allVars
  <2>1. UNCHANGED vars /\ BatchExpired' /\ CollectedUnseen'
    BY <1>8 DEF JobInv, allVars, vars, BatchExpired, CollectedUnseen, Rows
  <2>2. QED
    BY <2>1, NothingDeleted
<1>9. QED
  BY <1>1, <1>2, <1>3, <1>4, <1>5, <1>6, <1>7, <1>8 DEF RetentionNext, Prune

LEMMA JobInvariant == RetentionSpec => [](IInv /\ WorkGrows /\ PruneTypeOK /\ JobInv)
<1>1. RetentionInit => JobInv
  BY DEF RetentionInit, Init, NoRows, NotPruning, Rows, JobInv,
         VisitorSpansVisits, WorkSpanned, BatchExpired, CollectedUnseen
<1>2. (IInv /\ WorkGrows /\ PruneTypeOK) /\ JobInv /\ [RetentionNext]_allVars => JobInv'
  BY JobStepInv
<1>3. QED
  BY <1>1, <1>2, RetentionInvariant, PTL DEF RetentionSpec

\* Whatever the resolver has moved, grown or rolled back, and whatever the job
\* has deleted, a visit has its visitor and lies in the span recorded for it.
THEOREM VisitorsSpanTheirVisits == RetentionSpec => []VisitorSpansVisits
<1>1. JobInv => VisitorSpansVisits
  BY DEF JobInv
<1>2. QED
  BY <1>1, JobInvariant, PTL

\* The ids of a batch are read in one step and deleted in a later one: what is
\* deleted started before the cutoff by then too.  What goes with a visitor was
\* committed between the two queries of the visitor's deletion.
THEOREM OnlyExpiredDeleted == RetentionSpec => DeletesOnlyExpired
<1>1. JobInv /\ [RetentionNext]_allVars =>
        [\A v \in Rows(visits) \ Rows(visits)' :
            visits[v].start < cutoff \/ v \in unseen]_allVars
  <2>1. SUFFICES ASSUME JobInv, RetentionNext, NEW v \in Rows(visits) \ Rows(visits)'
                 PROVE  v \in prune.ids \union prune.collected
    BY DEF JobInv, BatchExpired, CollectedUnseen
  <2>2. CASE Ingest
    BY <2>1, <2>2, IngestKeepsVisits
  <2>3. CASE visits' = Without(prune.ids) \/ visits' = Without(prune.ids \union prune.collected)
    BY <2>1, <2>3 DEF Without, Rows
  <2>4. CASE visits' = visits
    BY <2>1, <2>4 DEF Rows
  <2>5. QED
    BY <2>1, <2>2, <2>3, <2>4
    DEF RetentionNext, Prune, PruneStart, PruneRead, PruneDelete, PruneCollect, PruneOrphan,
        PruneAbort, vars
<1>2. QED
  BY <1>1, JobInvariant, PTL DEF RetentionSpec, DeletesOnlyExpired
=============================================================================
