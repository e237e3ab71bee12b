-------------------------- MODULE PageFactsProofs --------------------------
(***************************************************************************)
(* However windows are cut, rebuilt and overtaken by events, the visits of *)
(* a settled day are those of one rebuild of everything, the transitions   *)
(* are those of the visits, the daily tables tell one story and the        *)
(* reports read from them agree, for any number of events, visitors, pages *)
(* and days.                                                               *)
(*                                                                         *)
(* Five invariants carry it.  FactsSound: the stored facts, and those of a *)
(* rebuild in progress, are about stored events.  FactsFresh: on a settled *)
(* day the visits are those that all the events give, which holds because  *)
(* a session that the window cuts off lies a day or more away, and a scope *)
(* that matters to a verdict is shorter.  TablesTold and ActionsTold: the  *)
(* tables are those of the stored visits, day by day; TablesMade: and they *)
(* hold no other rows.  What rows add up to is shown for a smallest set    *)
(* for which it would fail.                                                *)
(***************************************************************************)
EXTENDS PageSummaries, FiniteSetTheorems, WellFoundedInduction, TLAPS

----------------------------------------------------------------------------
(* Days.                                                                   *)

\* A day starts at a multiple of DayLength.
LEMMA DayBounds ==
    ASSUME NEW t \in Nat
    PROVE  /\ Day(t) \in Nat
           /\ DayLength * Day(t) <= t
           /\ t < DayLength * Day(t) + DayLength
<1>1. DayLength \in Nat /\ DayLength > 0
  BY PageFactsAssumption
<1> QED
  BY <1>1, Z3 DEF Day

\* Times less than a day apart are on the same or on adjacent days.
LEMMA DaysNear ==
    ASSUME NEW s \in Nat, NEW t \in Nat, t <= s + DayLength
    PROVE  Day(t) <= Day(s) + 1
<1>1. DayLength \in Nat /\ DayLength > 0
  BY PageFactsAssumption
<1>2. SUFFICES ASSUME Day(t) >= Day(s) + 2 PROVE FALSE
  BY DayBounds
<1>3. DayLength * Day(t) >= DayLength * (Day(s) + 2)
  BY <1>1, <1>2, DayBounds
<1>4. DayLength * (Day(s) + 2) = DayLength * Day(s) + DayLength + DayLength
  BY <1>1, DayBounds
<1> QED
  BY <1>1, <1>3, <1>4, DayBounds

\* Days come in the order of their times.
LEMMA DaysOrdered ==
    ASSUME NEW s \in Nat, NEW t \in Nat, s <= t
    PROVE  Day(s) <= Day(t)
<1>1. DayLength \in Nat /\ DayLength > 0
  BY PageFactsAssumption
<1>2. SUFFICES ASSUME Day(s) >= Day(t) + 1 PROVE FALSE
  BY DayBounds
<1>3. DayLength * Day(s) >= DayLength * (Day(t) + 1)
  BY <1>1, <1>2, DayBounds
<1>4. DayLength * (Day(t) + 1) = DayLength * Day(t) + DayLength
  BY <1>1, DayBounds
<1> QED
  BY <1>1, <1>3, <1>4, DayBounds

----------------------------------------------------------------------------
(* Events.                                                                 *)

\* The events that can be stored: those of a visitor have distinct times, and those of a
\* session are within its longest duration.
EventsSound(E) ==
    /\ E \subseteq Event /\ IsFiniteSet(E)
    /\ \A e, f \in E : Visitor[e.session] = Visitor[f.session] /\ e.ts = f.ts => e = f
    /\ \A e, f \in E : e.session = f.session => Apart(e.ts, f.ts) <= MaxDuration

\* What the proofs use of the constants.
LEMMA Lengths ==
    /\ DayLength \in Nat /\ DayLength > 0 /\ Timeout \in Nat /\ MaxSpan \in Nat
    /\ Timeout + MaxSpan <= DayLength /\ MaxDuration \in Nat /\ MaxDuration <= DayLength
BY PageFactsAssumption

\* The fields of a stored event.
LEMMA EventTyped ==
    ASSUME NEW E, EventsSound(E), NEW e \in E
    PROVE  e.ts \in Nat /\ e.ts \in Times /\ e.session \in Sessions /\ Day(e.ts) \in Nat
BY PageFactsAssumption, DayBounds DEF EventsSound, Event

\* What a window leaves out lies before or after all that it has.
LEMMA Outside ==
    ASSUME NEW E, EventsSound(E), NEW from \in Int, NEW to \in Int,
           NEW x \in E, x \notin Widened(E, from, to)
    PROVE  \/ Day(x.ts) < from - 1 /\ \A y \in Widened(E, from, to) : x.ts < y.ts
           \/ Day(x.ts) > to + 1 /\ \A y \in Widened(E, from, to) : y.ts < x.ts
<1>1. \A y \in E : y.ts \in Nat /\ Day(y.ts) \in Nat
  BY EventTyped
<1>2. \A y \in E : x.ts <= y.ts => Day(x.ts) <= Day(y.ts)
  BY <1>1, DaysOrdered
<1>3. \A y \in E : y.ts <= x.ts => Day(y.ts) <= Day(x.ts)
  BY <1>1, DaysOrdered
<1>4. Day(x.ts) < from - 1 \/ Day(x.ts) > to + 1
  BY <1>1 DEF Widened, OnDays
<1>5. \A y \in Widened(E, from, to) : y \in E /\ from - 1 <= Day(y.ts) /\ Day(y.ts) <= to + 1
  BY DEF Widened, OnDays
<1> QED
  BY <1>1, <1>2, <1>3, <1>4, <1>5

\* A window holds what is within a day of its days.
LEMMA Inside ==
    ASSUME NEW E, EventsSound(E), NEW from \in Int, NEW to \in Int,
           NEW t \in Nat, OnDays(t, from, to),
           NEW x \in E, t <= x.ts + DayLength, x.ts <= t + DayLength
    PROVE  x \in Widened(E, from, to)
<1>1. x.ts \in Nat /\ Day(x.ts) \in Nat /\ Day(t) \in Nat
  BY EventTyped, DayBounds
<1>2. Day(t) <= Day(x.ts) + 1 /\ Day(x.ts) <= Day(t) + 1
  BY <1>1, DaysNear
<1> QED
  BY <1>1, <1>2 DEF Widened, OnDays

----------------------------------------------------------------------------
(* Scopes.                                                                 *)

\* Sessions of one visitor share their scopes.
SameVisitor(e, f) == Visitor[e.session] = Visitor[f.session]

\* All of a scope is less than the meaningful span away from a time.
Short(S, t) == \A f \in S : t - MaxSpan < f.ts /\ f.ts < t + MaxSpan

\* The scope of an event, with the visitor named.
LEMMA ScopeMembers ==
    ASSUME NEW E, NEW e
    PROVE  Scope(E, e) = {f \in E : /\ SameVisitor(f, e)
                                    /\ \A s \in E : SameVisitor(s, e) /\ StartsScope(E, s)
                                          => (s.ts <= e.ts <=> s.ts <= f.ts)}
BY DEF Scope, SameVisitor

\* A scope is the scope of each of its events.
LEMMA ScopeOfMember ==
    ASSUME NEW E, NEW e \in E, NEW f \in Scope(E, e)
    PROVE  Scope(E, f) = Scope(E, e) /\ e \in Scope(E, f)
<1>1. /\ f \in E /\ SameVisitor(f, e)
      /\ \A s \in E : SameVisitor(s, e) /\ StartsScope(E, s) => (s.ts <= e.ts <=> s.ts <= f.ts)
  BY ScopeMembers
<1>2. \A g : SameVisitor(g, f) <=> SameVisitor(g, e)
  BY <1>1 DEF SameVisitor
<1>3. \A g : g \in Scope(E, f) <=> g \in Scope(E, e)
  BY <1>1, <1>2, ScopeMembers
<1>4. e \in Scope(E, e)
  BY ScopeMembers DEF SameVisitor
<1> QED
  BY <1>3, <1>4

\* A scope that does not stand as meaningful is short.
LEMMA MeaningfulOtherwise ==
    ASSUME NEW S, \A f \in S : f.ts \in Nat, ~ IsMeaningful(S), NEW t \in Nat,
           \E f, g \in S : f.ts <= t /\ t <= g.ts
    PROVE  Short(S, t)
<1>1. PICK f \in S, g \in S : f.ts <= t /\ t <= g.ts
  OBVIOUS
<1>2. \A x, y \in S : ~ (x.ts - y.ts >= MaxSpan)
  BY DEF IsMeaningful
<1>3. \A x \in S : ~ (x.ts - f.ts >= MaxSpan) /\ ~ (g.ts - x.ts >= MaxSpan)
  BY <1>1, <1>2
<1> QED
  BY <1>1, <1>3, Lengths DEF Short

\* An event that seems to begin a scope only because the one before it is not in the window is
\* further from the days of the window than a short scope reaches.
LEMMA SeemingStart ==
    ASSUME NEW E, EventsSound(E), NEW from \in Int, NEW to \in Int,
           NEW t \in Nat, OnDays(t, from, to), NEW s \in Widened(E, from, to),
           StartsScope(Widened(E, from, to), s), ~ StartsScope(E, s)
    PROVE  s.ts <= t - MaxSpan
<1> DEFINE W == Widened(E, from, to)
<1>1. s \in E /\ W \subseteq E
  BY DEF Widened
<1>2. PICK p \in E : SameVisitor(p, s) /\ p.ts < s.ts /\ s.ts - p.ts <= Timeout
  BY DEF StartsScope, SameVisitor
<1>3. p \notin W
  BY <1>2 DEF StartsScope, SameVisitor
<1>4. p.ts \in Nat /\ s.ts \in Nat
  BY <1>1, EventTyped
<1>5. Day(p.ts) < from - 1
  BY <1>2, <1>3, <1>4, Outside
<1>6. ~ (t <= p.ts + DayLength)
  <2>1. SUFFICES ASSUME t <= p.ts + DayLength PROVE FALSE
    OBVIOUS
  <2>2. Day(t) <= Day(p.ts) + 1 /\ Day(p.ts) \in Nat /\ Day(t) \in Nat
    BY <1>4, <2>1, DaysNear, DayBounds
  <2> QED
    BY <1>5, <2>2 DEF OnDays
<1> QED
  BY <1>2, <1>4, <1>6, Lengths

\* What starts a scope among all events starts one among fewer.
LEMMA StartKept ==
    ASSUME NEW E, NEW W, W \subseteq E, NEW s, StartsScope(E, s)
    PROVE  StartsScope(W, s)
BY DEF StartsScope

\* An event of the window and one outside are on the same side of an event that the window
\* does not have.
LEMMA BeyondSame ==
    ASSUME NEW E, EventsSound(E), NEW from \in Int, NEW to \in Int,
           NEW x \in E, x \notin Widened(E, from, to),
           NEW e \in Widened(E, from, to), NEW f \in Widened(E, from, to)
    PROVE  x.ts <= e.ts <=> x.ts <= f.ts
<1>1. x.ts \in Nat /\ e.ts \in Nat /\ f.ts \in Nat
  BY EventTyped DEF Widened
<1> QED
  BY <1>1, Outside

\* Short scopes are the same in the window and in all events: first, those of all events.
LEMMA ScopeInWindow ==
    ASSUME NEW E, EventsSound(E), NEW from \in Int, NEW to \in Int,
           NEW t \in Nat, OnDays(t, from, to), NEW e \in E, Short(Scope(E, e), t)
    PROVE  e \in Widened(E, from, to) /\ Scope(Widened(E, from, to), e) = Scope(E, e)
<1> DEFINE W == Widened(E, from, to)
<1>1. W \subseteq E
  BY DEF Widened
<1>2. \A f \in E : f.ts \in Nat
  BY EventTyped
<1>3. e \in Scope(E, e)
  BY ScopeMembers DEF SameVisitor
<1>4. \A f \in Scope(E, e) : f \in E /\ f \in W
  <2>1. \A f \in Scope(E, e) : f \in E /\ t <= f.ts + DayLength /\ f.ts <= t + DayLength
    BY <1>2, ScopeMembers, Lengths DEF Short
  <2> QED
    BY <2>1, Inside
<1>5. ASSUME NEW f \in Scope(E, e) PROVE f \in Scope(W, e)
  <2>1. f \in W /\ SameVisitor(f, e)
    BY <1>4, <1>5, ScopeMembers
  <2>2. ASSUME NEW s \in W, SameVisitor(s, e), StartsScope(W, s)
        PROVE  s.ts <= e.ts <=> s.ts <= f.ts
    <3>1. CASE StartsScope(E, s)
      BY <1>1, <1>5, <2>2, <3>1, ScopeMembers
    <3>2. CASE ~ StartsScope(E, s)
      <4>1. s.ts <= t - MaxSpan
        BY <2>2, <3>2, SeemingStart
      <4> QED
        BY <1>1, <1>2, <1>3, <1>5, <4>1, Lengths, ScopeMembers DEF Short
    <3> QED
      BY <3>1, <3>2
  <2> HIDE DEF W
  <2> QED
    BY <2>1, <2>2, ScopeMembers
<1>6. ASSUME NEW f \in Scope(W, e) PROVE f \in Scope(E, e)
  <2>1. f \in W /\ SameVisitor(f, e)
    BY <1>6, ScopeMembers
  <2>2. ASSUME NEW s \in E, SameVisitor(s, e), StartsScope(E, s)
        PROVE  s.ts <= e.ts <=> s.ts <= f.ts
    <3>1. CASE s \in W
      <4>1. StartsScope(W, s)
        BY <1>1, <2>2, StartKept
      <4> HIDE DEF W
      <4> QED
        BY <1>6, <2>2, <3>1, <4>1, ScopeMembers
    <3>2. CASE s \notin W
      BY <1>3, <1>4, <2>1, <2>2, <3>2, BeyondSame
    <3> QED
      BY <3>1, <3>2
  <2> QED
    BY <1>1, <2>1, <2>2, ScopeMembers
<1> QED
  BY <1>3, <1>4, <1>5, <1>6

\* Every nonempty set of naturals has a least element.
LEMMA LeastNatural ==
    ASSUME NEW T, T \subseteq Nat, T # {}
    PROVE  \E x \in T : \A y \in T : x <= y
<1> DEFINE R == OpToRel(<, Nat)
<1>1. IsWellFoundedOn(R, Nat)
  BY NatLessThanWellFounded
<1>2. \A x, y \in Nat : <<y, x>> \in R <=> y < x
  BY DEF OpToRel
<1> HIDE DEF R
<1>3. PICK x \in T : \A y \in T : ~ (<<y, x>> \in R)
  BY <1>1, WFMin
<1>4. \A y \in T : x \in Nat /\ y \in Nat /\ ~ (y < x)
  BY <1>2, <1>3
<1> QED
  BY <1>3, <1>4

\* The earliest of some events, and the latest of those before a time.
LEMMA EarliestEvent ==
    ASSUME NEW S, S # {}, \A f \in S : f.ts \in Nat
    PROVE  \E e \in S : \A f \in S : e.ts <= f.ts
<1> DEFINE T == {f.ts : f \in S}
<1>1. T \subseteq Nat /\ T # {}
  OBVIOUS
<1>2. PICK n \in T : \A m \in T : n <= m
  <2> HIDE DEF T
  <2> QED
    BY <1>1, LeastNatural
<1> QED
  BY <1>2

\* A bounded nonempty set of events has a latest one.
LEMMA LatestEvent ==
    ASSUME NEW S, S # {}, \A f \in S : f.ts \in Nat, NEW t \in Nat, \A f \in S : f.ts <= t
    PROVE  \E e \in S : \A f \in S : f.ts <= e.ts
<1> DEFINE T == {t - f.ts : f \in S}
<1>1. T \subseteq Nat /\ T # {}
  OBVIOUS
<1>2. PICK n \in T : \A m \in T : n <= m
  <2> HIDE DEF T
  <2> QED
    BY <1>1, LeastNatural
<1> QED
  BY <1>2

\* The first event of a scope begins it.
LEMMA FirstBegins ==
    ASSUME NEW W, \A f \in W : f.ts \in Nat, NEW e \in W, NEW first \in Scope(W, e),
           \A f \in Scope(W, e) : first.ts <= f.ts
    PROVE  StartsScope(W, first)
<1>1. e \in Scope(W, e) /\ first \in W /\ SameVisitor(first, e) /\ first.ts <= e.ts
  BY ScopeMembers DEF SameVisitor
<1>2. SUFFICES ASSUME NEW p \in W, SameVisitor(p, first), p.ts < first.ts, first.ts - p.ts <= Timeout
               PROVE  FALSE
  BY DEF StartsScope, SameVisitor
<1>3. p \notin Scope(W, e) /\ SameVisitor(p, e)
  BY <1>1, <1>2 DEF SameVisitor
<1>4. PICK s \in W : /\ SameVisitor(s, e) /\ StartsScope(W, s)
                     /\ ~ (s.ts <= e.ts <=> s.ts <= p.ts)
  BY <1>3, ScopeMembers
<1>5. s.ts <= e.ts /\ p.ts < s.ts
  BY <1>1, <1>2, <1>4
<1>6. s.ts <= first.ts
  BY <1>1, <1>4, <1>5, ScopeMembers
<1>7. SameVisitor(p, s) /\ s.ts - p.ts <= Timeout
  BY <1>1, <1>2, <1>4, <1>6, Lengths DEF SameVisitor
<1> QED
  BY <1>4, <1>5, <1>7 DEF StartsScope, SameVisitor

\* Then those of the window.
LEMMA ScopeOfWindow ==
    ASSUME NEW E, EventsSound(E), NEW from \in Int, NEW to \in Int,
           NEW t \in Nat, OnDays(t, from, to), NEW e \in Widened(E, from, to),
           Short(Scope(Widened(E, from, to), e), t)
    PROVE  Scope(E, e) = Scope(Widened(E, from, to), e)
<1> DEFINE W == Widened(E, from, to)
           T == Scope(W, e)
<1>1. W \subseteq E /\ e \in E
  BY DEF Widened
<1>2. \A f \in E : f.ts \in Nat
  BY EventTyped
<1>3. e \in T /\ \A f \in T : f \in W /\ f \in E /\ SameVisitor(f, e) /\ f.ts \in Nat
  BY <1>1, <1>2, ScopeMembers DEF SameVisitor
<1>4. PICK first \in T : \A f \in T : first.ts <= f.ts
  <2> HIDE DEF T
  <2> QED
    BY <1>3, EarliestEvent
<1>5. \A f \in T : t - MaxSpan < f.ts /\ f.ts < t + MaxSpan
  BY DEF Short
<1>6. PICK last \in T : \A f \in T : f.ts <= last.ts
  <2>1. \A f \in T : f.ts <= t + MaxSpan
    BY <1>3, <1>5, Lengths
  <2>2. t + MaxSpan \in Nat
    BY Lengths
  <2> HIDE DEF T
  <2> QED
    BY <1>3, <2>1, <2>2, LatestEvent
<1>7. StartsScope(W, first) /\ StartsScope(E, first)
  <2>1. StartsScope(W, first)
    BY <1>1, <1>2, <1>4, FirstBegins
  <2>2. ~ (first.ts <= t - MaxSpan)
    BY <1>2, <1>3, <1>4, <1>5, Lengths
  <2> QED
    BY <1>3, <1>4, <2>1, <2>2, SeemingStart
<1>8. ASSUME NEW f \in Scope(E, e) PROVE f \in W
  <2>1. /\ f \in E /\ SameVisitor(f, e)
        /\ \A s \in E : SameVisitor(s, e) /\ StartsScope(E, s) => (s.ts <= e.ts <=> s.ts <= f.ts)
    BY <1>8, ScopeMembers
  <2>2. SUFFICES ASSUME f \notin W PROVE FALSE
    OBVIOUS
  <2>3. first.ts <= e.ts /\ first.ts <= f.ts
    BY <1>3, <1>4, <1>7, <2>1
  <2>4. last.ts < f.ts
    BY <1>2, <1>3, <1>4, <1>6, <2>1, <2>2, <2>3, Outside
  <2> DEFINE X == {x \in E : SameVisitor(x, e) /\ last.ts < x.ts}
  <2>5. PICK x \in X : \A y \in X : x.ts <= y.ts
    <3>1. f \in X
      BY <2>1, <2>4
    <3>2. \A y \in X : y.ts \in Nat
      BY <1>2
    <3> HIDE DEF X
    <3> QED
      BY <3>1, <3>2, EarliestEvent
  <2>6. x \in E /\ SameVisitor(x, e) /\ last.ts < x.ts /\ x.ts <= f.ts /\ e.ts <= last.ts
    BY <1>3, <1>6, <2>1, <2>4, <2>5
  <2>7. CASE x.ts - last.ts <= Timeout
    <3>1. t <= x.ts + DayLength /\ x.ts <= t + DayLength
      BY <1>2, <1>3, <1>5, <1>6, <2>6, <2>7, Lengths
    <3>2. x \in W
      BY <2>6, <3>1, Inside
    <3>3. x \notin T
      BY <1>2, <1>3, <1>6, <2>6
    <3>4. PICK s \in W : SameVisitor(s, e) /\ StartsScope(W, s) /\ ~ (s.ts <= e.ts <=> s.ts <= x.ts)
      BY <2>6, <3>2, <3>3, ScopeMembers
    <3>5. e.ts < s.ts /\ s.ts <= x.ts /\ s \in E /\ s.ts \in Nat
      BY <1>1, <1>2, <1>3, <2>6, <3>4
    <3>6. last.ts < s.ts
      BY <1>2, <1>3, <1>6, <3>4, <3>5, ScopeMembers
    <3>7. x.ts <= s.ts
      BY <2>5, <3>4, <3>5, <3>6
    <3>8. SameVisitor(last, s) /\ last.ts < s.ts /\ s.ts - last.ts <= Timeout /\ last \in W
      BY <1>2, <1>3, <1>6, <2>6, <2>7, <3>4, <3>5, <3>6, <3>7 DEF SameVisitor
    <3> QED
      BY <3>4, <3>8 DEF StartsScope, SameVisitor
  <2>8. CASE ~ (x.ts - last.ts <= Timeout)
    <3>1. ASSUME NEW p \in E, SameVisitor(p, x), p.ts < x.ts, x.ts - p.ts <= Timeout
          PROVE  FALSE
      <4>1. p \notin X
        BY <1>2, <2>5, <2>6, <3>1
      <4>2. p.ts <= last.ts
        BY <1>2, <1>3, <1>6, <2>6, <3>1, <4>1 DEF SameVisitor
      <4> QED
        BY <1>2, <1>3, <1>6, <2>6, <2>8, <3>1, <4>2, Lengths
    <3>2. StartsScope(E, x)
      BY <3>1 DEF StartsScope, SameVisitor
    <3>3. x.ts <= e.ts
      BY <2>1, <2>6, <3>2
    <3> QED
      BY <1>1, <1>2, <1>3, <1>6, <2>6, <3>3
  <2> QED
    BY <2>7, <2>8
<1>9. ASSUME NEW f \in Scope(E, e) PROVE f \in T
  <2>1. f \in W /\ SameVisitor(f, e) /\ first.ts <= f.ts
    BY <1>3, <1>4, <1>7, <1>8, <1>9, ScopeMembers
  <2>2. ASSUME NEW s \in W, SameVisitor(s, e), StartsScope(W, s)
        PROVE  s.ts <= e.ts <=> s.ts <= f.ts
    <3>1. CASE StartsScope(E, s)
      BY <1>1, <1>9, <2>2, <3>1, ScopeMembers
    <3>2. CASE ~ StartsScope(E, s)
      <4>1. s.ts <= t - MaxSpan
        BY <2>2, <3>2, SeemingStart
      <4>2. s.ts <= first.ts /\ first.ts <= e.ts
        BY <1>1, <1>2, <1>3, <1>4, <1>5, <4>1, Lengths
      <4> QED
        BY <1>1, <1>2, <1>3, <1>4, <2>1, <4>2
    <3> QED
      BY <3>1, <3>2
  <2> HIDE DEF W
  <2> QED
    BY <2>1, <2>2, ScopeMembers
<1>10. ASSUME NEW f \in T PROVE f \in Scope(E, e)
  <2>1. f \in W /\ SameVisitor(f, e)
    BY <1>3, <1>10
  <2>2. ASSUME NEW s \in E, SameVisitor(s, e), StartsScope(E, s)
        PROVE  s.ts <= e.ts <=> s.ts <= f.ts
    <3>1. CASE s \in W
      <4>1. StartsScope(W, s)
        BY <1>1, <2>2, StartKept
      <4> HIDE DEF W
      <4> QED
        BY <1>10, <2>2, <3>1, <4>1, ScopeMembers
    <3>2. CASE s \notin W
      BY <1>3, <2>1, <2>2, <3>2, BeyondSame
    <3> QED
      BY <3>1, <3>2
  <2> QED
    BY <1>1, <2>1, <2>2, ScopeMembers
<1> QED
  BY <1>9, <1>10

\* What is judged of a visit does not depend on the window its day is rebuilt in.
LEMMA ExcludedAlike ==
    ASSUME NEW E, EventsSound(E), NEW from \in Int, NEW to \in Int, NEW m,
           NEW v, v.start \in Nat, OnDays(v.start, from, to)
    PROVE  IsExcluded(Widened(E, from, to), v, m) <=> IsExcluded(E, v, m)
<1> DEFINE W == Widened(E, from, to)
<1>1. W \subseteq E
  BY DEF Widened
<1>2. \A f \in E : f.ts \in Nat
  BY EventTyped
<1>3. ASSUME NEW e \in E, LowConfidence(E, e, m), \E f, g \in Scope(E, e) : f.ts <= v.start /\ v.start <= g.ts
      PROVE  e \in W /\ Scope(W, e) = Scope(E, e)
  <2>1. Short(Scope(E, e), v.start)
    <3>1. \A f \in Scope(E, e) : f.ts \in Nat
      BY <1>2, ScopeMembers
    <3> QED
      BY <1>3, <3>1, MeaningfulOtherwise DEF LowConfidence
  <2> QED
    BY <2>1, ScopeInWindow
<1>4. ASSUME NEW e \in W, LowConfidence(W, e, m), \E f, g \in Scope(W, e) : f.ts <= v.start /\ v.start <= g.ts
      PROVE  Scope(W, e) = Scope(E, e)
  <2>1. Short(Scope(W, e), v.start)
    <3>1. \A f \in Scope(W, e) : f.ts \in Nat
      BY <1>1, <1>2, ScopeMembers
    <3> QED
      BY <1>4, <3>1, MeaningfulOtherwise DEF LowConfidence
  <2> QED
    BY <2>1, ScopeOfWindow
<1>5. ASSUME IsExcluded(E, v, m) PROVE IsExcluded(W, v, m)
  <2>1. PICK e \in E : /\ Visitor[e.session] = Visitor[v.session]
                       /\ LowConfidence(E, e, m)
                       /\ \E f, g \in Scope(E, e) : f.ts <= v.start /\ v.start <= g.ts
    BY <1>5 DEF IsExcluded
  <2>2. e \in W /\ Scope(W, e) = Scope(E, e)
    BY <1>3, <2>1
  <2> HIDE DEF W
  <2> QED
    BY <2>1, <2>2 DEF IsExcluded, LowConfidence
<1>6. ASSUME IsExcluded(W, v, m) PROVE IsExcluded(E, v, m)
  <2>1. PICK e \in W : /\ Visitor[e.session] = Visitor[v.session]
                       /\ LowConfidence(W, e, m)
                       /\ \E f, g \in Scope(W, e) : f.ts <= v.start /\ v.start <= g.ts
    BY <1>6 DEF IsExcluded
  <2>2. e \in E /\ Scope(W, e) = Scope(E, e)
    BY <1>1, <1>4, <2>1
  <2> HIDE DEF W
  <2> QED
    BY <2>1, <2>2 DEF IsExcluded, LowConfidence
<1> QED
  BY <1>5, <1>6

----------------------------------------------------------------------------
(* Visits.                                                                 *)

\* A window holds the whole session of an event on its days.
LEMMA SessionInside ==
    ASSUME NEW E, EventsSound(E), NEW from \in Int, NEW to \in Int,
           NEW e \in E, OnDays(e.ts, from, to), NEW f \in E, f.session = e.session
    PROVE  f \in Widened(E, from, to)
<1>1. Apart(e.ts, f.ts) <= DayLength /\ e.ts \in Nat /\ f.ts \in Nat
  <2>1. Apart(e.ts, f.ts) <= MaxDuration
    BY DEF EventsSound
  <2> QED
    BY <2>1, EventTyped, Lengths DEF Apart
<1>2. e.ts <= f.ts + DayLength /\ f.ts <= e.ts + DayLength
  BY <1>1, Lengths DEF Apart
<1> QED
  BY <1>1, <1>2, Inside

\* A visit is cut out of the events of its session alone.
LEMMA VisitOfSession ==
    ASSUME NEW B, NEW F, B \subseteq F, NEW e \in B,
           \A f \in F : f.session = e.session => f \in B
    PROVE  /\ StartsVisit(B, e) <=> StartsVisit(F, e)
           /\ EventsOfVisit(B, e) = EventsOfVisit(F, e)
           /\ VisitFrom(B, e) = VisitFrom(F, e)
<1>1. ASSUME NEW s \in F, s.session = e.session
      PROVE  StartsVisit(B, s) <=> StartsVisit(F, s)
  <2>1. Previous(B, s) = Previous(F, s)
    BY <1>1 DEF Previous
  <2> QED
    BY <2>1 DEF StartsVisit
<1>2. EventsOfVisit(B, e) = EventsOfVisit(F, e)
  BY <1>1 DEF EventsOfVisit
<1>3. VisitFrom(B, e) = VisitFrom(F, e)
  BY <1>2 DEF VisitFrom
<1> QED
  BY <1>1, <1>2, <1>3

\* The fields of a visit, one by one.
LEMMA VisitFields ==
    ASSUME NEW B, NEW e
    PROVE  /\ VisitFrom(B, e).session = e.session /\ VisitFrom(B, e).start = e.ts
           /\ VisitFrom(B, e).user = Identity[e.session].user
           /\ VisitFrom(B, e).company = Identity[e.session].company
           /\ VisitFrom(B, e).url = e.page.url /\ VisitFrom(B, e).rule = e.page.rule
           /\ VisitFrom(B, e).end = Max({f.ts : f \in EventsOfVisit(B, e)})
           /\ VisitFrom(B, e).eligible = TRUE
           /\ VisitFrom(B, e).engaged = Engagement(EventsOfVisit(B, e))
           /\ VisitFrom(B, e).clicks = Cardinality({f \in EventsOfVisit(B, e) : f.type = "click"})
BY DEF VisitFrom

\* The events that begin a visit on some days, and the visits of a window: those of all
\* events that begin on its days.
Beginnings(E, from, to) == {b \in WithUrl(E) : OnDays(b.ts, from, to) /\ StartsVisit(WithUrl(E), b)}

\* The visits that start in a window are those cut out of all events: the day more
\* on each side holds every event of their sessions.
LEMMA VisitsAlike ==
    ASSUME NEW E, EventsSound(E), NEW from \in Int, NEW to \in Int
    PROVE  VisitsOf(E, from, to) = {VisitFrom(WithUrl(E), e) : e \in Beginnings(E, from, to)}
<1> DEFINE F == WithUrl(E)
           B == WithUrl(Widened(E, from, to))
<1>1. B \subseteq F /\ F \subseteq E
  BY DEF WithUrl, Widened
<1>2. \A e \in F : OnDays(e.ts, from, to) =>
         e \in B /\ \A f \in F : f.session = e.session => f \in B
  <2> SUFFICES ASSUME NEW e \in F, OnDays(e.ts, from, to), NEW f \in F, f.session = e.session
               PROVE  f \in B
    OBVIOUS
  <2>1. f \in Widened(E, from, to)
    BY <1>1, SessionInside
  <2> QED
    BY <2>1 DEF WithUrl
<1>3. \A e \in F : OnDays(e.ts, from, to) =>
         /\ StartsVisit(B, e) <=> StartsVisit(F, e)
         /\ VisitFrom(B, e) = VisitFrom(F, e)
  <2> HIDE DEF F, B
  <2> QED
    BY <1>1, <1>2, VisitOfSession
<1>4. {b \in B : OnDays(b.ts, from, to) /\ StartsVisit(B, b)} = Beginnings(E, from, to)
  <2>1. \A b : b \in B /\ OnDays(b.ts, from, to) /\ StartsVisit(B, b)
               <=> b \in F /\ OnDays(b.ts, from, to) /\ StartsVisit(F, b)
    <3> HIDE DEF F, B
    <3> QED
      BY <1>1, <1>2, <1>3
  <2> QED
    BY <2>1 DEF Beginnings
<1>5. VisitsOf(E, from, to) = {VisitFrom(B, e) : e \in Beginnings(E, from, to)}
  BY <1>4 DEF VisitsOf
<1>6. \A e \in Beginnings(E, from, to) : VisitFrom(B, e) = VisitFrom(F, e)
  BY <1>3 DEF Beginnings
<1> QED
  BY <1>5, <1>6

\* What a rebuild of everything would make of an event, and of a day.
Fact(E, e, m) ==
    IF IsExcluded(E, VisitFrom(WithUrl(E), e), m)
    THEN [VisitFrom(WithUrl(E), e) EXCEPT !.eligible = FALSE] ELSE VisitFrom(WithUrl(E), e)

\* The visits of one day, cut out of all events and judged.
FactsOn(E, d, m) == {Fact(E, e, m) : e \in Beginnings(E, d, d)}

\* A visit's verdict changes no other field of it.
LEMMA FactFields ==
    ASSUME NEW E, NEW e, NEW m
    PROVE  /\ Fact(E, e, m).session = e.session /\ Fact(E, e, m).start = e.ts
           /\ Fact(E, e, m).user = Identity[e.session].user
           /\ Fact(E, e, m).company = Identity[e.session].company
           /\ Fact(E, e, m).url = e.page.url
           /\ Fact(E, e, m).end = Max({f.ts : f \in EventsOfVisit(WithUrl(E), e)})
           /\ Fact(E, e, m).eligible = ~ IsExcluded(E, VisitFrom(WithUrl(E), e), m)
<1>1. CASE IsExcluded(E, VisitFrom(WithUrl(E), e), m)
  BY <1>1 DEF Fact, VisitFrom
<1>2. CASE ~ IsExcluded(E, VisitFrom(WithUrl(E), e), m)
  BY <1>2 DEF Fact, VisitFrom
<1> QED
  BY <1>1, <1>2

\* Whatever window a day is rebuilt in, its visits are the same.
LEMMA Rebuilt ==
    ASSUME NEW E, EventsSound(E), NEW from \in Int, NEW to \in Int, NEW m,
           NEW d \in Int, from <= d, d <= to
    PROVE  {v \in Judged(VisitsOf(E, from, to), E, from, to, m) : Day(v.start) = d} = FactsOn(E, d, m)
<1> DEFINE J(v) == IF OnDays(v.start, from, to) /\ IsExcluded(Widened(E, from, to), v, m)
                   THEN [v EXCEPT !.eligible = FALSE] ELSE v
<1>1. ASSUME NEW e \in Beginnings(E, from, to)
      PROVE  J(VisitFrom(WithUrl(E), e)) = Fact(E, e, m) /\ Fact(E, e, m).start = e.ts
  <2>1. e \in E /\ OnDays(e.ts, from, to)
    BY <1>1 DEF Beginnings, WithUrl
  <2>2. e.ts \in Nat
    BY <2>1, EventTyped
  <2>3. VisitFrom(WithUrl(E), e).start = e.ts
    BY VisitFields
  <2>4. IsExcluded(Widened(E, from, to), VisitFrom(WithUrl(E), e), m)
          <=> IsExcluded(E, VisitFrom(WithUrl(E), e), m)
    BY <2>1, <2>2, <2>3, ExcludedAlike
  <2> QED
    BY <2>1, <2>3, <2>4, FactFields DEF Fact
<1>2. Judged(VisitsOf(E, from, to), E, from, to, m) = {J(v) : v \in VisitsOf(E, from, to)}
  BY DEF Judged
<1>3. Judged(VisitsOf(E, from, to), E, from, to, m) = {Fact(E, e, m) : e \in Beginnings(E, from, to)}
  <2> HIDE DEF J
  <2>1. Judged(VisitsOf(E, from, to), E, from, to, m)
            = {J(VisitFrom(WithUrl(E), e)) : e \in Beginnings(E, from, to)}
    BY <1>2, VisitsAlike
  <2> QED
    BY <1>1, <2>1
<1>4. \A e : e \in Beginnings(E, d, d) <=> e \in Beginnings(E, from, to) /\ Day(e.ts) = d
  <2>1. \A e \in WithUrl(E) : Day(e.ts) \in Nat
    BY EventTyped DEF WithUrl
  <2> QED
    BY <2>1 DEF Beginnings, OnDays
<1> QED
  BY <1>1, <1>3, <1>4 DEF FactsOn

----------------------------------------------------------------------------
(* Transitions.                                                            *)

\* The fields of a visit.
VisitFieldNames ==
    {"session", "start", "end", "user", "company", "url", "rule", "area", "engaged", "clicks", "eligible"}

\* A record with the fields of a visit and no others.
IsVisit(v) == v = [x \in VisitFieldNames |-> v[x]]

\* Visits are of the sessions of stored events, at whose times they start.
VisitsSound(V, E) ==
    /\ IsFiniteSet(V)
    /\ \A v \in V :
         /\ IsVisit(v)
         /\ v.eligible \in BOOLEAN /\ v.engaged \in Nat /\ v.clicks \in Nat
         /\ \E e \in E : /\ v.session = e.session /\ v.start = e.ts
                         /\ v.user = Identity[e.session].user
                         /\ v.company = Identity[e.session].company
                         /\ v.url = e.page.url /\ v.rule = e.page.rule

\* The visits in the reports.
Eligible(V) == {v \in V : v.eligible}

\* What a rebuild of from..to leaves alone.
Beyond(V, from, to) == {v \in V : ~ OnDays(v.start, from, to)}

\* A visit starts at the time of an event.
LEMMA VisitTyped ==
    ASSUME NEW E, EventsSound(E), NEW V, VisitsSound(V, E), NEW v \in V
    PROVE  v.start \in Nat /\ v.start \in Times /\ Day(v.start) \in Nat
<1>1. PICK e \in E : v.start = e.ts
  BY DEF VisitsSound
<1> QED
  BY <1>1, EventTyped

\* Two visits of a session are not more than a day apart.
LEMMA VisitsNear ==
    ASSUME NEW E, EventsSound(E), NEW V, VisitsSound(V, E), NEW v \in V, NEW w \in V,
           v.session = w.session
    PROVE  w.start <= v.start + DayLength
<1>1. PICK e \in E : v.session = e.session /\ v.start = e.ts
  BY DEF VisitsSound
<1>2. PICK f \in E : w.session = f.session /\ w.start = f.ts
  BY DEF VisitsSound
<1>3. Apart(e.ts, f.ts) <= MaxDuration /\ e.ts \in Nat /\ f.ts \in Nat
  BY <1>1, <1>2, EventTyped DEF EventsSound
<1> QED
  BY <1>1, <1>2, <1>3, Lengths DEF Apart

\* Between two visits of a session there is none on a day that neither of them is on.
LEMMA NothingSkipped ==
    ASSUME NEW E, EventsSound(E), NEW V, VisitsSound(V, E), NEW v \in V, NEW w \in V,
           v.session = w.session, NEW t \in Nat, v.start < t, t < w.start,
           NEW from \in Nat, NEW to \in Nat, OnDays(t, from, to)
    PROVE  OnDays(v.start, from, to) \/ OnDays(w.start, from, to)
<1>1. /\ v.start \in Nat /\ w.start \in Nat /\ Day(v.start) \in Nat /\ Day(w.start) \in Nat
      /\ Day(t) \in Nat
  BY VisitTyped, DayBounds
<1>2. Day(v.start) <= Day(t) /\ Day(t) <= Day(w.start)
  BY <1>1, DaysOrdered
<1>3. Day(w.start) <= Day(v.start) + 1
  BY <1>1, VisitsNear, DaysNear
<1> QED
  BY <1>1, <1>2, <1>3 DEF OnDays

\* TransitionsSound, of any visits and transitions.
TransitionsRight(V, T) ==
    /\ T \subseteq TransitionsOf(Eligible(V))
    /\ \A t \in TransitionsOf(Eligible(V)) : Day(t.from.start) = Day(t.to.start) => t \in T

\* A transition is two visits, the later the next of the earlier.
LEMMA TransitionKeys ==
    ASSUME NEW V, NEW t
    PROVE  t \in TransitionsOf(V) <=>
             \E v, w \in V : IsTransition(V, v, w) /\ t = [from |-> VisitKey(v), to |-> VisitKey(w)]
<1>1. ASSUME t \in TransitionsOf(V)
      PROVE  \E v, w \in V : IsTransition(V, v, w) /\ t = [from |-> VisitKey(v), to |-> VisitKey(w)]
  <2>1. PICK p \in V \X V : /\ IsTransition(V, p[1], p[2])
                            /\ t = [from |-> VisitKey(p[1]), to |-> VisitKey(p[2])]
    BY <1>1 DEF TransitionsOf
  <2> QED
    BY <2>1
<1>2. ASSUME NEW v \in V, NEW w \in V, IsTransition(V, v, w),
             t = [from |-> VisitKey(v), to |-> VisitKey(w)]
      PROVE  t \in TransitionsOf(V)
  <2>1. <<v, w>> \in V \X V /\ <<v, w>>[1] = v /\ <<v, w>>[2] = w
    OBVIOUS
  <2>2. <<v, w>> \in {q \in V \X V : IsTransition(V, q[1], q[2])}
    BY <1>2, <2>1
  <2>3. t = [from |-> VisitKey(<<v, w>>[1]), to |-> VisitKey(<<v, w>>[2])]
    BY <1>2, <2>1
  <2> QED
    BY <2>2, <2>3 DEF TransitionsOf
<1> QED
  BY <1>1, <1>2

\* A rebuild of a window keeps the transitions right: none of those it leaves alone spans it.
LEMMA TransitionsStay ==
    ASSUME NEW E, EventsSound(E), NEW V, VisitsSound(V, E), NEW W, VisitsSound(W, E),
           NEW from \in Nat, NEW to \in Nat, Beyond(W, from, to) = Beyond(V, from, to),
           NEW T, TransitionsRight(V, T)
    PROVE  TransitionsRight(W, UntouchedTransitions(T, from, to) \cup TransitionsIn(W, from, to))
<1> DEFINE In == {v \in W : v.eligible /\ OnDays(v.start, from, to)}
           New == UntouchedTransitions(T, from, to) \cup TransitionsIn(W, from, to)
<1>1. \A v : v \in V /\ ~ OnDays(v.start, from, to) <=> v \in W /\ ~ OnDays(v.start, from, to)
  BY DEF Beyond
<1>2. \A v \in V \cup W : v.start \in Nat /\ Day(v.start) \in Nat
  BY VisitTyped
<1>3. ASSUME NEW v \in Eligible(V), NEW w \in Eligible(V), IsTransition(Eligible(V), v, w),
             ~ OnDays(v.start, from, to), ~ OnDays(w.start, from, to)
      PROVE  v \in Eligible(W) /\ w \in Eligible(W) /\ IsTransition(Eligible(W), v, w)
  <2>1. v \in W /\ w \in W /\ v \in V /\ w \in V /\ v.eligible /\ w.eligible
    BY <1>1, <1>3 DEF Eligible
  <2>2. /\ v.session = w.session /\ v.start < w.start /\ w.start - v.end <= Timeout
        /\ v.rule # w.rule \/ v.url # w.url \/ v.area # w.area
        /\ ~ \E u \in Eligible(V) : u.session = v.session /\ v.start < u.start /\ u.start < w.start
    BY <1>3 DEF IsTransition
  <2>3. ASSUME NEW u \in Eligible(W), u.session = v.session, v.start < u.start, u.start < w.start
        PROVE  FALSE
    <3>1. u \in W /\ u.eligible /\ u.start \in Nat
      BY <1>2, <2>3 DEF Eligible
    <3>2. ~ OnDays(u.start, from, to)
      BY <1>3, <2>1, <2>2, <2>3, <3>1, NothingSkipped
    <3> QED
      BY <1>1, <2>2, <2>3, <3>1, <3>2 DEF Eligible
  <2> QED
    BY <2>1, <2>2, <2>3 DEF IsTransition, Eligible
<1>4. ASSUME NEW v \in In, NEW w \in In
      PROVE  /\ v \in Eligible(W) /\ w \in Eligible(W)
             /\ IsTransition(In, v, w) <=> IsTransition(Eligible(W), v, w)
  <2>1. v \in W /\ w \in W /\ v.eligible /\ w.eligible /\ In \subseteq Eligible(W)
    BY DEF Eligible
  <2>2. ASSUME NEW u \in Eligible(W), v.start < u.start, u.start < w.start
        PROVE  u \in In
    <3>1. u \in W /\ u.eligible /\ u.start \in Nat /\ v.start \in Nat /\ w.start \in Nat
      BY <1>2, <2>1 DEF Eligible
    <3>2. Day(v.start) <= Day(u.start) /\ Day(u.start) <= Day(w.start)
      BY <2>2, <3>1, DaysOrdered
    <3> QED
      BY <1>2, <2>1, <3>1, <3>2 DEF OnDays
  <2> HIDE DEF In
  <2> QED
    BY <2>1, <2>2 DEF IsTransition, Eligible
<1>5. ASSUME NEW t \in New PROVE t \in TransitionsOf(Eligible(W))
  <2>1. CASE t \in UntouchedTransitions(T, from, to)
    <3>1. t \in TransitionsOf(Eligible(V)) /\ ~ OnDays(t.from.start, from, to) /\ ~ OnDays(t.to.start, from, to)
      BY <2>1 DEF UntouchedTransitions, TransitionsRight
    <3>2. PICK v \in Eligible(V), w \in Eligible(V) :
            IsTransition(Eligible(V), v, w) /\ t = [from |-> VisitKey(v), to |-> VisitKey(w)]
      BY <3>1, TransitionKeys
    <3>3. t.from.start = v.start /\ t.to.start = w.start
      BY <3>2 DEF VisitKey
    <3> QED
      BY <1>3, <3>1, <3>2, <3>3, TransitionKeys
  <2>2. CASE t \in TransitionsIn(W, from, to)
    <3>1. t \in TransitionsOf(In)
      BY <2>2 DEF TransitionsIn
    <3>2. PICK v \in In, w \in In :
            IsTransition(In, v, w) /\ t = [from |-> VisitKey(v), to |-> VisitKey(w)]
      <4> HIDE DEF In
      <4> QED
        BY <3>1, TransitionKeys
    <3> HIDE DEF In
    <3> QED
      BY <1>4, <3>2, TransitionKeys
  <2> QED
    BY <1>5, <2>1, <2>2
<1>6. ASSUME NEW t \in TransitionsOf(Eligible(W)), Day(t.from.start) = Day(t.to.start)
      PROVE  t \in New
  <2>1. PICK v \in Eligible(W), w \in Eligible(W) :
          IsTransition(Eligible(W), v, w) /\ t = [from |-> VisitKey(v), to |-> VisitKey(w)]
    BY <1>6, TransitionKeys
  <2>2. /\ t.from.start = v.start /\ t.to.start = w.start /\ Day(v.start) = Day(w.start)
        /\ v \in W /\ w \in W /\ v.eligible /\ w.eligible
    BY <1>6, <2>1 DEF VisitKey, Eligible
  <2>3. CASE OnDays(v.start, from, to)
    <3>1. v \in In /\ w \in In
      BY <2>2, <2>3 DEF OnDays
    <3>2. t \in TransitionsOf(In)
      <4> HIDE DEF In
      <4> QED
        BY <1>4, <2>1, <3>1, TransitionKeys
    <3> QED
      BY <3>2 DEF TransitionsIn
  <2>4. CASE ~ OnDays(v.start, from, to)
    <3>1. ~ OnDays(w.start, from, to) /\ v \in V /\ w \in V
      BY <1>1, <2>2, <2>4 DEF OnDays
    <3>2. /\ v.session = w.session /\ v.start < w.start /\ w.start - v.end <= Timeout
          /\ v.rule # w.rule \/ v.url # w.url \/ v.area # w.area
          /\ ~ \E u \in Eligible(W) : u.session = v.session /\ v.start < u.start /\ u.start < w.start
      BY <2>1 DEF IsTransition
    <3>3. ASSUME NEW u \in Eligible(V), u.session = v.session, v.start < u.start, u.start < w.start
          PROVE  FALSE
      <4>1. u \in V /\ u.eligible /\ u.start \in Nat /\ v.start \in Nat /\ w.start \in Nat
        BY <1>2, <2>2, <3>3 DEF Eligible
      <4>2. Day(v.start) <= Day(u.start) /\ Day(u.start) <= Day(w.start) /\ Day(u.start) \in Nat
        BY <1>2, <3>3, <4>1, DaysOrdered
      <4>3. Day(u.start) = Day(v.start) /\ ~ OnDays(u.start, from, to)
        BY <1>2, <2>2, <2>4, <4>2 DEF OnDays
      <4> QED
        BY <1>1, <3>2, <3>3, <4>1, <4>3 DEF Eligible
    <3>4. IsTransition(Eligible(V), v, w) /\ v \in Eligible(V) /\ w \in Eligible(V)
      BY <2>2, <3>1, <3>2, <3>3 DEF IsTransition, Eligible
    <3>5. t \in T
      BY <1>6, <2>1, <3>4, TransitionKeys DEF TransitionsRight
    <3> QED
      BY <2>2, <2>4, <3>1, <3>5 DEF UntouchedTransitions
  <2> QED
    BY <2>3, <2>4
<1> QED
  BY <1>5, <1>6 DEF TransitionsRight

----------------------------------------------------------------------------
(* Sums.                                                                   *)

\* Of finite sets, one with the fewest elements: the case that induction would begin with.
LEMMA LeastSet ==
    ASSUME NEW Bad, Bad # {}, \A s \in Bad : IsFiniteSet(s)
    PROVE  \E s \in Bad : \A t \in Bad : ~ (t \subseteq s /\ t # s)
<1> DEFINE sizes == {Cardinality(s) : s \in Bad}
<1>1. sizes \subseteq Nat /\ sizes # {}
  BY FS_CardinalityType
<1>2. PICK n \in sizes : \A m \in sizes : n <= m
  BY <1>1, LeastNatural
<1>3. PICK s \in Bad : Cardinality(s) = n
  BY <1>2
<1>4. \A t \in Bad : t \subseteq s /\ t # s => Cardinality(t) < n
  BY <1>3, FS_Subset, FS_CardinalityType
<1>5. \A t \in Bad : Cardinality(t) \in Nat /\ n <= Cardinality(t) /\ n \in Nat
  BY <1>1, <1>2
<1> QED
  BY <1>3, <1>4, <1>5

\* The order in which a fold takes the members of a set.
Pick(s) == CHOOSE x \in s : TRUE

\* g sums F over the subsets of T, as the folds of the library do.
Sums(F, T, g) ==
    g = [s \in SUBSET T |-> IF s = {} THEN 0 ELSE F[Pick(s)] + g[s \ {Pick(s)}]]

\* Pick takes a member.
LEMMA PickIn == ASSUME NEW s, s # {} PROVE Pick(s) \in s
BY DEF Pick

\* Two functions with the same values on T.
AlikeOn(F, G, T) == \A x \in T : F[x] = G[x]

\* Partial sums depend on the values alone, not on the set they are taken in.
LEMMA SumsAgree ==
    ASSUME NEW F, NEW T, IsFiniteSet(T), NEW U, IsFiniteSet(U), NEW G, AlikeOn(F, G, T \cap U),
           NEW g, Sums(F, T, g), NEW h, Sums(G, U, h)
    PROVE  \A s \in SUBSET (T \cap U) : g[s] = h[s]
<1> DEFINE Bad == {s \in SUBSET (T \cap U) : g[s] # h[s]}
<1> SUFFICES ASSUME Bad # {} PROVE FALSE
  OBVIOUS
<1>1. \A s \in Bad : IsFiniteSet(s)
  BY FS_Subset
<1>2. PICK s \in Bad : \A t \in Bad : ~ (t \subseteq s /\ t # s)
  <2> HIDE DEF Bad
  <2> QED
    BY <1>1, LeastSet
<1>3. CASE s = {}
  BY <1>3 DEF Sums
<1>4. CASE s # {}
  <2>1. Pick(s) \in s
    BY <1>4, PickIn
  <2>2. g[s \ {Pick(s)}] = h[s \ {Pick(s)}]
    BY <1>2, <2>1
  <2>3. g[s] = F[Pick(s)] + g[s \ {Pick(s)}] /\ h[s] = G[Pick(s)] + h[s \ {Pick(s)}]
    BY <1>4 DEF Sums
  <2> QED
    BY <2>1, <2>2, <2>3 DEF AlikeOn
<1> QED
  BY <1>3, <1>4

\* A finite set has partial sums.
LEMMA SumsExist ==
    ASSUME NEW F, NEW S, IsFiniteSet(S)
    PROVE  \E g : Sums(F, S, g)
<1> DEFINE Bad == {s \in SUBSET S : ~ \E g : Sums(F, s, g)}
<1> SUFFICES ASSUME Bad # {} PROVE FALSE
  OBVIOUS
<1>1. \A s \in Bad : IsFiniteSet(s)
  BY FS_Subset
<1>2. PICK T \in Bad : \A t \in Bad : ~ (t \subseteq T /\ t # T)
  <2> HIDE DEF Bad
  <2> QED
    BY <1>1, LeastSet
<1>3. \A s \in SUBSET T : s # T => \E g : Sums(F, s, g)
  BY <1>2
<1> DEFINE Of(s) == CHOOSE g : Sums(F, s, g)
           k == [s \in SUBSET T |-> IF s = {} THEN 0
                                    ELSE F[Pick(s)] + Of(s \ {Pick(s)})[s \ {Pick(s)}]]
<1>4. \A s \in SUBSET T : s # T => Sums(F, s, Of(s))
  BY <1>3
<1>5. ASSUME NEW s \in SUBSET T, s # T, s # {}
      PROVE  Of(s)[s] = k[s]
  <2>1. Pick(s) \in s
    BY <1>5, PickIn
  <2> DEFINE t == s \ {Pick(s)}
  <2>2. t \in SUBSET T /\ t # T /\ t \subseteq s
    BY <1>5
  <2>3. Sums(F, s, Of(s)) /\ Sums(F, t, Of(t))
    BY <1>4, <1>5, <2>2
  <2>4. IsFiniteSet(s) /\ IsFiniteSet(t)
    BY <1>1, <2>2, FS_Subset
  <2>5. Of(s)[s] = F[Pick(s)] + Of(s)[t]
    BY <1>5, <2>3 DEF Sums
  <2>6. Of(s)[t] = Of(t)[t]
    <3> HIDE DEF Of, t
    <3> QED
      BY <2>2, <2>3, <2>4, SumsAgree DEF AlikeOn
  <2> QED
    BY <1>5, <2>5, <2>6
<1>6. \A s \in SUBSET T : s # {} => k[s] = F[Pick(s)] + k[s \ {Pick(s)}]
  <2> SUFFICES ASSUME NEW s \in SUBSET T, s # {}
               PROVE  k[s] = F[Pick(s)] + k[s \ {Pick(s)}]
    OBVIOUS
  <2>1. Pick(s) \in s
    BY PickIn
  <2> DEFINE t == s \ {Pick(s)}
  <2>2. t \in SUBSET T /\ t # T
    BY <2>1
  <2>3. k[s] = F[Pick(s)] + Of(t)[t]
    OBVIOUS
  <2>4. Of(t)[t] = k[t]
    <3>1. CASE t # {}
      <4> HIDE DEF Of, k, t
      <4> QED
        BY <1>5, <2>2, <3>1
    <3>2. CASE t = {}
      <4>1. Sums(F, t, Of(t))
        BY <1>4, <2>2
      <4>2. Of(t)[t] = 0
        BY <3>2, <4>1 DEF Sums
      <4> QED
        BY <2>2, <3>2, <4>2
    <3> QED
      BY <3>1, <3>2
  <2> QED
    BY <2>3, <2>4
<1>7. Sums(F, T, k)
  <2>1. k = [s \in SUBSET T |-> k[s]] /\ k[{}] = 0
    OBVIOUS
  <2> HIDE DEF k
  <2> QED
    BY <1>6, <2>1 DEF Sums
<1> QED
  BY <1>2, <1>7

\* Every value is a natural number.
NaturalOn(F, T) == \A x \in T : F[x] \in Nat

\* The element that goes first does not matter.
LEMMA SumStep ==
    ASSUME NEW F, NEW T, IsFiniteSet(T), NaturalOn(F, T), NEW g, Sums(F, T, g)
    PROVE  \A s \in SUBSET T : g[s] \in Nat /\ \A x \in s : g[s] = F[x] + g[s \ {x}]
<1> DEFINE Bad == {s \in SUBSET T : ~ (g[s] \in Nat /\ \A x \in s : g[s] = F[x] + g[s \ {x}])}
<1> SUFFICES ASSUME Bad # {} PROVE FALSE
  OBVIOUS
<1>1. \A s \in Bad : IsFiniteSet(s)
  BY FS_Subset
<1>2. PICK s \in Bad : \A t \in Bad : ~ (t \subseteq s /\ t # s)
  <2> HIDE DEF Bad
  <2> QED
    BY <1>1, LeastSet
<1>3. \A t \in SUBSET s : t # s => g[t] \in Nat /\ \A x \in t : g[t] = F[x] + g[t \ {x}]
  BY <1>2
<1>4. CASE s = {}
  BY <1>4 DEF Sums
<1>5. CASE s # {}
  <2>1. Pick(s) \in s /\ s \subseteq T
    BY <1>5, PickIn
  <2> DEFINE p == Pick(s)
             t == s \ {p}
  <2>2. t \in SUBSET s /\ t # s /\ g[t] \in Nat /\ F[p] \in Nat
    BY <1>3, <2>1 DEF NaturalOn
  <2>3. g[s] = F[p] + g[t]
    BY <1>5, <2>1 DEF Sums
  <2>4. ASSUME NEW x \in s PROVE g[s] = F[x] + g[s \ {x}]
    <3>1. CASE x = p
      BY <2>3, <3>1
    <3>2. CASE x # p
      <4> DEFINE u == s \ {x}
      <4>1. x \in t /\ p \in u /\ u \in SUBSET s /\ u # s /\ t \ {x} = u \ {p} /\ u \ {p} \in SUBSET s
            /\ u \ {p} # s
        BY <2>1, <3>2
      <4>2. g[t] = F[x] + g[t \ {x}] /\ g[u] = F[p] + g[u \ {p}] /\ g[u \ {p}] \in Nat
        BY <1>3, <2>2, <4>1
      <4>3. F[x] \in Nat
        BY <2>1 DEF NaturalOn
      <4>5. g[t \ {x}] = g[u \ {p}]
        BY <4>1
      <4> HIDE DEF p, t, u
      <4>4. g[s] = F[x] + g[u]
        BY <2>2, <2>3, <4>2, <4>3, <4>5
      <4> QED
        BY <4>4 DEF u
    <3> QED
      BY <3>1, <3>2
  <2>5. g[s] \in Nat
    BY <2>2, <2>3
  <2> QED
    BY <2>4, <2>5
<1> QED
  BY <1>4, <1>5

\* The sum of a field over a set of records.
FieldSum(f, S) == MapThenSumSet(LAMBDA r : r[f], S)

\* FieldSum is the last partial sum.
LEMMA FieldSums ==
    ASSUME NEW f, NEW S, IsFiniteSet(S)
    PROVE  \E g : Sums([r \in S |-> r[f]], S, g) /\ FieldSum(f, S) = g[S]
<1> DEFINE F == [r \in S |-> r[f]]
<1>1. \A s \in SUBSET S : s # {} => F[Pick(s)] = Pick(s)[f]
  BY PickIn
<1> HIDE DEF F
<1>2. \A g : Sums(F, S, g) <=>
        g = [s \in SUBSET S |-> IF s = {} THEN 0 ELSE Pick(s)[f] + g[s \ {Pick(s)}]]
  BY <1>1 DEF Sums
<1>3. \E g : Sums(F, S, g)
  BY SumsExist
<1>4. \E g : g = [s \in SUBSET S |-> IF s = {} THEN 0 ELSE Pick(s)[f] + g[s \ {Pick(s)}]]
  BY <1>2, <1>3
<1>5. \E g : /\ g = [s \in SUBSET S |-> IF s = {} THEN 0 ELSE Pick(s)[f] + g[s \ {Pick(s)}]]
             /\ MapThenSumSet(LAMBDA r : r[f], S) = g[S]
  BY <1>4 DEF MapThenSumSet, MapThenFoldSet, Pick
<1>6. \E g : Sums(F, S, g) /\ FieldSum(f, S) = g[S]
  BY <1>2, <1>5 DEF FieldSum
<1> QED
  BY <1>6 DEF F

\* Nothing adds up to zero.
LEMMA FieldSumEmpty == ASSUME NEW f PROVE FieldSum(f, {}) = 0
<1>1. PICK g : Sums([r \in {} |-> r[f]], {}, g) /\ FieldSum(f, {}) = g[{}]
  BY FieldSums, FS_EmptySet
<1> QED
  BY <1>1 DEF Sums

\* A member taken out is a term less, whichever it is.
LEMMA FieldSumStep ==
    ASSUME NEW f, NEW S, IsFiniteSet(S), \A r \in S : r[f] \in Nat
    PROVE  /\ FieldSum(f, S) \in Nat
           /\ \A x \in S : FieldSum(f, S) = x[f] + FieldSum(f, S \ {x})
<1> DEFINE F == [r \in S |-> r[f]]
<1>1. PICK g : Sums(F, S, g) /\ FieldSum(f, S) = g[S]
  BY FieldSums
<1>2. \A x \in S : F[x] \in Nat /\ F[x] = x[f]
  OBVIOUS
<1>3. g[S] \in Nat /\ \A x \in S : g[S] = F[x] + g[S \ {x}]
  <2>1. NaturalOn(F, S)
    BY <1>2 DEF NaturalOn
  <2> HIDE DEF F
  <2> QED
    BY <1>1, <2>1, SumStep
<1>4. ASSUME NEW x \in S PROVE FieldSum(f, S) = x[f] + FieldSum(f, S \ {x})
  <2> DEFINE T == S \ {x}
             G == [r \in T |-> r[f]]
  <2>1. IsFiniteSet(T) /\ T \subseteq S
    BY FS_Subset
  <2>2. PICK h : Sums(G, T, h) /\ FieldSum(f, T) = h[T]
    <3> HIDE DEF T
    <3> QED
      BY <2>1, FieldSums
  <2>3. AlikeOn(F, G, S \cap T)
    BY DEF AlikeOn
  <2>4. g[T] = h[T]
    <3>1. T \in SUBSET (S \cap T)
      OBVIOUS
    <3> HIDE DEF F, G, T
    <3> QED
      BY <1>1, <2>1, <2>2, <2>3, <3>1, SumsAgree
  <2> QED
    BY <1>1, <1>3, <2>2, <2>4
<1> QED
  BY <1>1, <1>3, <1>4

\* A natural for each part of a set, such that disjoint parts add up.
Additive(M, S) ==
    /\ M[{}] = 0
    /\ \A A \in SUBSET S : M[A] \in Nat
    /\ \A A, B \in SUBSET S : A \cap B = {} => M[A \cup B] = M[A] + M[B]

\* The rows R stand for disjoint parts of S, and their field f for what the parts measure.
Grouped(R, f, G, M, S) ==
    /\ \A r \in R : G[r] \in SUBSET S /\ r[f] = M[G[r]]
    /\ \A r, q \in R : r # q => G[r] \cap G[q] = {}

\* The members of all the groups.
Whole(G, R) == UNION {G[r] : r \in R}

\* The sum over the groups is that of the whole.
LEMMA SumOfGroups ==
    ASSUME NEW S, NEW M, Additive(M, S), NEW R, IsFiniteSet(R), NEW f, NEW G, Grouped(R, f, G, M, S)
    PROVE  FieldSum(f, R) = M[Whole(G, R)]
<1> DEFINE All(T) == UNION {G[r] : r \in T}
           Bad == {T \in SUBSET R : FieldSum(f, T) # M[All(T)]}
<1> SUFFICES ASSUME Bad # {} PROVE FALSE
  BY DEF Whole
<1>1. \A T \in Bad : IsFiniteSet(T)
  BY FS_Subset
<1>2. PICK T \in Bad : \A U \in Bad : ~ (U \subseteq T /\ U # T)
  <2> HIDE DEF Bad
  <2> QED
    BY <1>1, LeastSet
<1>3. CASE T = {}
  <2>1. All(T) = {}
    BY <1>3
  <2> QED
    BY <1>3, <2>1, FieldSumEmpty DEF Additive
<1>4. CASE T # {}
  <2>1. PICK x \in T : TRUE
    BY <1>4
  <2> DEFINE U == T \ {x}
  <2>2. U \in SUBSET R /\ U \subseteq T /\ U # T /\ x \in R /\ T \subseteq R
    BY <2>1
  <2>3. FieldSum(f, U) = M[All(U)]
    BY <1>2, <2>2
  <2>4. G[x] \in SUBSET S /\ All(U) \in SUBSET S /\ G[x] \cap All(U) = {} /\ All(T) = G[x] \cup All(U)
    <3>1. \A r \in U : r \in R /\ r # x
      BY <2>2
    <3>2. \A r \in R : G[r] \in SUBSET S
      BY DEF Grouped
    <3>3. \A r \in U : G[x] \cap G[r] = {}
      BY <2>2, <3>1 DEF Grouped
    <3>4. All(T) = G[x] \cup All(U)
      BY <2>1
    <3>5. All(U) \in SUBSET S
      BY <3>1, <3>2
    <3>6. G[x] \cap All(U) = {}
      BY <3>3
    <3> QED
      BY <2>2, <3>2, <3>4, <3>5, <3>6
  <2>5. M[All(T)] = M[G[x]] + M[All(U)]
    <3> HIDE DEF All, U
    <3> QED
      BY <2>4 DEF Additive
  <2>6. IsFiniteSet(T) /\ \A r \in T : r[f] \in Nat
    BY <1>1, <2>2 DEF Grouped, Additive
  <2>7. FieldSum(f, T) = x[f] + FieldSum(f, U)
    BY <2>1, <2>6, FieldSumStep
  <2>8. x[f] = M[G[x]]
    BY <2>2 DEF Grouped
  <2>9. FieldSum(f, T) = M[All(T)]
    <3> HIDE DEF All, U
    <3> QED
      BY <2>3, <2>5, <2>7, <2>8
  <2> QED
    BY <1>2, <2>9
<1> QED
  BY <1>3, <1>4

\* How many there are is additive, and so is the sum of a field.
LEMMA CountAdditive ==
    ASSUME NEW S, IsFiniteSet(S)
    PROVE  Additive([A \in SUBSET S |-> Cardinality(A)], S)
<1> DEFINE M == [A \in SUBSET S |-> Cardinality(A)]
<1>1. \A A \in SUBSET S : IsFiniteSet(A) /\ M[A] = Cardinality(A) /\ Cardinality(A) \in Nat
  BY FS_Subset, FS_CardinalityType
<1>2. M[{}] = 0
  BY FS_EmptySet
<1>3. ASSUME NEW A \in SUBSET S, NEW B \in SUBSET S, A \cap B = {}
      PROVE  M[A \cup B] = M[A] + M[B]
  <2>1. IsFiniteSet(A) /\ IsFiniteSet(B) /\ A \cup B \in SUBSET S
    BY <1>1
  <2>2. Cardinality(A \cup B) = Cardinality(A) + Cardinality(B) - Cardinality({})
    BY <1>3, <2>1, FS_Union
  <2>3. Cardinality({}) = 0 /\ Cardinality(A) \in Nat /\ Cardinality(B) \in Nat
    BY <1>1, FS_EmptySet
  <2>4. Cardinality(A \cup B) = Cardinality(A) + Cardinality(B)
    BY <2>2, <2>3
  <2> HIDE DEF M
  <2> QED
    BY <1>1, <2>1, <2>4
<1> HIDE DEF M
<1>4. Additive(M, S)
  BY <1>1, <1>2, <1>3 DEF Additive
<1> QED
  BY <1>4 DEF M

\* A sum over disjoint sets is the sum of their sums.
LEMMA FieldAdditive ==
    ASSUME NEW S, IsFiniteSet(S), NEW f, \A r \in S : r[f] \in Nat
    PROVE  Additive([A \in SUBSET S |-> FieldSum(f, A)], S)
<1> DEFINE M == [A \in SUBSET S |-> FieldSum(f, A)]
<1>1. \A A \in SUBSET S : /\ IsFiniteSet(A) /\ M[A] = FieldSum(f, A) /\ M[A] \in Nat
                          /\ \A x \in A : M[A] = x[f] + M[A \ {x}] /\ x[f] \in Nat
  <2> SUFFICES ASSUME NEW A \in SUBSET S
               PROVE  /\ IsFiniteSet(A) /\ M[A] = FieldSum(f, A) /\ M[A] \in Nat
                      /\ \A x \in A : M[A] = x[f] + M[A \ {x}] /\ x[f] \in Nat
    OBVIOUS
  <2>1. IsFiniteSet(A) /\ \A r \in A : r[f] \in Nat
    BY FS_Subset
  <2>2. FieldSum(f, A) \in Nat /\ \A x \in A : FieldSum(f, A) = x[f] + FieldSum(f, A \ {x})
    BY <2>1, FieldSumStep
  <2> QED
    BY <2>1, <2>2
<1>2. M[{}] = 0
  BY FieldSumEmpty
<1> HIDE DEF M
<1>3. ASSUME NEW A \in SUBSET S, NEW B \in SUBSET S, A \cap B = {}
      PROVE  M[A \cup B] = M[A] + M[B]
  <2> DEFINE Bad == {C \in SUBSET A : M[C \cup B] # M[C] + M[B]}
  <2> SUFFICES ASSUME Bad # {} PROVE FALSE
    OBVIOUS
  <2>1. \A C \in Bad : IsFiniteSet(C)
    BY <1>1
  <2>2. PICK C \in Bad : \A D \in Bad : ~ (D \subseteq C /\ D # C)
    <3> HIDE DEF Bad
    <3> QED
      BY <2>1, LeastSet
  <2>3. CASE C = {}
    <3>1. C \cup B = B /\ M[B] \in Nat
      BY <1>1, <2>3
    <3> QED
      BY <1>2, <2>2, <2>3, <3>1
  <2>4. CASE C # {}
    <3>1. PICK x \in C : TRUE
      BY <2>4
    <3> DEFINE D == C \ {x}
    <3>2. /\ D \in SUBSET A /\ D \subseteq C /\ D # C /\ C \in SUBSET S /\ C \cup B \in SUBSET S
          /\ x \in C /\ x \in C \cup B /\ (C \cup B) \ {x} = D \cup B /\ D \in SUBSET S /\ D \cup B \in SUBSET S
      BY <1>3, <2>2, <3>1
    <3>3. M[D \cup B] = M[D] + M[B]
      BY <2>2, <3>2
    <3>4. M[C] = x[f] + M[D] /\ M[C \cup B] = x[f] + M[D \cup B] /\ x[f] \in Nat
      BY <1>1, <3>2
    <3>5. M[D] \in Nat /\ M[B] \in Nat
      BY <1>1, <3>2
    <3> HIDE DEF D
    <3>6. M[C \cup B] = M[C] + M[B]
      BY <3>3, <3>4, <3>5
    <3> QED
      BY <2>2, <3>6
  <2> QED
    BY <2>3, <2>4
<1>4. Additive(M, S)
  BY <1>1, <1>2, <1>3 DEF Additive
<1> QED
  BY <1>4 DEF M

\* A sum over one row is its value.
LEMMA FieldSumOne ==
    ASSUME NEW r, NEW f, r[f] \in Nat
    PROVE  FieldSum(f, {r}) = r[f]
<1>1. IsFiniteSet({r}) /\ \A q \in {r} : q[f] \in Nat
  BY FS_Singleton
<1>2. FieldSum(f, {r}) = r[f] + FieldSum(f, {r} \ {r})
  BY <1>1, FieldSumStep
<1>3. {r} \ {r} = {}
  OBVIOUS
<1> QED
  BY <1>2, <1>3, FieldSumEmpty

\* The sums of the tables are sums of a field.
LEMMA Totals ==
    ASSUME NEW S
    PROVE  /\ Total(S, LAMBDA r : r.visits) = FieldSum("visits", S)
           /\ Total(S, LAMBDA r : r.engaged) = FieldSum("engaged", S)
           /\ Total(S, LAMBDA r : r.clicks) = FieldSum("clicks", S)
           /\ Total(S, LAMBDA r : r.companies) = FieldSum("companies", S)
           /\ Total(S, LAMBDA r : r.users) = FieldSum("users", S)
BY DEF Total, FieldSum, MapThenSumSet, MapThenFoldSet

----------------------------------------------------------------------------
(* What the visits of a window are.                                        *)

\* Min is the least of a nonempty set of numbers.
LEMMA LeastIn ==
    ASSUME NEW T, T \subseteq Nat, T # {}
    PROVE  Min(T) \in T /\ \A y \in T : Min(T) <= y
<1>1. \E x \in T : \A y \in T : x <= y
  BY LeastNatural
<1> QED
  BY <1>1 DEF Min

\* The engagement that an event counts for.
Pause(es, e) ==
    LET later == {f.ts : f \in {g \in es : g.ts > e.ts}}
    IN  IF later = {} THEN 0 ELSE Min({Min(later) - e.ts, EngagedCap})

\* A pause is a length of time.
LEMMA PauseTyped ==
    ASSUME NEW es, \A f \in es : f.ts \in Nat, NEW e \in es
    PROVE  Pause(es, e) \in Nat
<1> DEFINE later == {f.ts : f \in {g \in es : g.ts > e.ts}}
<1>1. EngagedCap \in Nat
  BY PageFactsAssumption
<1>2. CASE later = {}
  BY <1>2 DEF Pause
<1>3. CASE later # {}
  <2>1. later \subseteq Nat /\ \A t \in later : t > e.ts /\ e.ts \in Nat
    OBVIOUS
  <2>2. PICK least \in later : least = Min(later)
    <3> HIDE DEF later
    <3> QED
      BY <1>3, <2>1, LeastIn
  <2> DEFINE n == Min(later) - e.ts
  <2>3. n \in Nat
    <3>1. least \in Nat /\ least > e.ts /\ e.ts \in Nat
      BY <2>1
    <3> HIDE DEF later
    <3> QED
      BY <2>2, <3>1
  <2>4. Min({n, EngagedCap}) \in {n, EngagedCap}
    <3> HIDE DEF n
    <3>1. {n, EngagedCap} \subseteq Nat /\ {n, EngagedCap} # {}
      BY <1>1, <2>3
    <3> QED
      BY <3>1, LeastIn
  <2>5. Min({n, EngagedCap}) \in Nat
    <3> HIDE DEF n
    <3> QED
      BY <1>1, <2>3, <2>4
  <2> QED
    BY <1>3, <2>5 DEF Pause
<1> QED
  BY <1>2, <1>3

\* So is the engagement of a visit.
LEMMA EngagementTyped ==
    ASSUME NEW es, IsFiniteSet(es), \A f \in es : f.ts \in Nat
    PROVE  Engagement(es) \in Nat
<1> DEFINE F == [e \in es |-> Pause(es, e)]
<1>1. NaturalOn(F, es)
  BY PauseTyped DEF NaturalOn
<1>2. \A s \in SUBSET es : s # {} => F[Pick(s)] = Pause(es, Pick(s))
  BY PickIn
<1> HIDE DEF F
<1>3. \A g : Sums(F, es, g) <=>
        g = [s \in SUBSET es |-> IF s = {} THEN 0 ELSE Pause(es, Pick(s)) + g[s \ {Pick(s)}]]
  BY <1>2 DEF Sums
<1>4. \E g : g = [s \in SUBSET es |-> IF s = {} THEN 0 ELSE Pause(es, Pick(s)) + g[s \ {Pick(s)}]]
  BY <1>3, SumsExist
<1>5. \E g : /\ g = [s \in SUBSET es |-> IF s = {} THEN 0 ELSE Pause(es, Pick(s)) + g[s \ {Pick(s)}]]
             /\ MapThenSumSet(LAMBDA e : Pause(es, e), es) = g[es]
  BY <1>4 DEF MapThenSumSet, MapThenFoldSet, Pick
<1>6. PICK g : Sums(F, es, g) /\ MapThenSumSet(LAMBDA e : Pause(es, e), es) = g[es]
  BY <1>3, <1>5
<1>7. g[es] \in Nat
  BY <1>1, <1>6, SumStep
<1>8. Engagement(es) = MapThenSumSet(LAMBDA e : Pause(es, e), es)
  BY DEF Engagement, Pause
<1> QED
  BY <1>6, <1>7, <1>8

\* A finite set has finitely many images.
LEMMA ImageFinite ==
    ASSUME NEW S, IsFiniteSet(S), NEW f
    PROVE  IsFiniteSet({f[x] : x \in S})
<1> DEFINE g == [x \in S |-> f[x]]
           T == {f[x] : x \in S}
<1>1. g \in Surjection(S, T)
  BY DEF Surjection
<1> HIDE DEF g
<1> QED
  BY <1>1, FS_Surjection

\* The visits of a window are visits of stored events, eligible, on its days.
LEMMA VisitsOfSound ==
    ASSUME NEW E, EventsSound(E), NEW from \in Int, NEW to \in Int
    PROVE  /\ VisitsSound(VisitsOf(E, from, to), E)
           /\ \A v \in VisitsOf(E, from, to) : v.eligible = TRUE /\ OnDays(v.start, from, to)
<1> DEFINE F == WithUrl(E)
           V(e) == VisitFrom(F, e)
           All == Beginnings(E, from, to)
<1>1. F \subseteq E /\ IsFiniteSet(E) /\ IsFiniteSet(F)
  BY FS_Subset DEF EventsSound, WithUrl
<1>2. All \subseteq F /\ IsFiniteSet(All)
  BY <1>1, FS_Subset DEF Beginnings
<1>3. VisitsOf(E, from, to) = {V(e) : e \in All}
  BY VisitsAlike
<1>4. IsFiniteSet({V(e) : e \in All})
  <2> DEFINE f == [e \in All |-> V(e)]
  <2>1. {V(e) : e \in All} = {f[e] : e \in All}
    OBVIOUS
  <2> HIDE DEF V, All, f
  <2> QED
    BY <1>2, <2>1, ImageFinite
<1>5. ASSUME NEW e \in All
      PROVE  /\ IsVisit(V(e)) /\ V(e).eligible = TRUE /\ V(e).engaged \in Nat /\ V(e).clicks \in Nat
             /\ e \in E /\ V(e).session = e.session /\ V(e).start = e.ts
             /\ V(e).user = Identity[e.session].user /\ V(e).company = Identity[e.session].company
             /\ V(e).url = e.page.url /\ V(e).rule = e.page.rule
             /\ OnDays(e.ts, from, to)
  <2> DEFINE es == EventsOfVisit(F, e)
  <2>1. es \subseteq E /\ IsFiniteSet(es)
    BY <1>1, FS_Subset DEF EventsOfVisit
  <2>2. \A f \in es : f.ts \in Nat
    BY <2>1, EventTyped
  <2>3. Engagement(es) \in Nat
    <3> HIDE DEF es
    <3> QED
      BY <2>1, <2>2, EngagementTyped
  <2>4. Cardinality({f \in es : f.type = "click"}) \in Nat
    BY <2>1, FS_Subset, FS_CardinalityType
  <2>5. IsVisit(V(e))
    <3>1. DOMAIN VisitFrom(F, e) = VisitFieldNames
      BY DEF VisitFrom, VisitFieldNames
    <3>2. VisitFrom(F, e) = [x \in DOMAIN VisitFrom(F, e) |-> VisitFrom(F, e)[x]]
      BY DEF VisitFrom
    <3> QED
      BY <3>1, <3>2 DEF IsVisit
  <2>6. e \in E /\ OnDays(e.ts, from, to)
    BY <1>1 DEF Beginnings
  <2> QED
    BY <2>3, <2>4, <2>5, <2>6, VisitFields
<1> HIDE DEF V, All, F
<1>6. VisitsSound({V(e) : e \in All}, E)
  BY <1>4, <1>5 DEF VisitsSound
<1> QED
  BY <1>3, <1>5, <1>6

----------------------------------------------------------------------------
(* Judgement.                                                              *)

\* Taking a visit out of the reports changes one field.
LEMMA Marked ==
    ASSUME NEW v, IsVisit(v)
    PROVE  LET w == [v EXCEPT !.eligible = FALSE]
           IN  /\ IsVisit(w) /\ w.eligible = FALSE /\ w.session = v.session /\ w.start = v.start
               /\ w.user = v.user /\ w.company = v.company /\ w.url = v.url /\ w.end = v.end
               /\ w.rule = v.rule
               /\ w.engaged = v.engaged /\ w.clicks = v.clicks
<1> DEFINE w == [v EXCEPT !.eligible = FALSE]
<1>1. w = [x \in VisitFieldNames |-> IF x = "eligible" THEN FALSE ELSE v[x]]
  BY DEF IsVisit
<1> HIDE DEF w
<1>2. IsVisit(w)
  BY <1>1 DEF IsVisit
<1> QED
  BY <1>1, <1>2 DEF w, VisitFieldNames

\* A visit as it is judged.
Verdict(v, E, from, to, m) ==
    IF OnDays(v.start, from, to) /\ IsExcluded(Widened(E, from, to), v, m)
    THEN [v EXCEPT !.eligible = FALSE] ELSE v

\* A verdict changes eligibility only, and on the days of the window only.
LEMMA VerdictFields ==
    ASSUME NEW v, IsVisit(v), v.eligible \in BOOLEAN, NEW E, NEW from, NEW to, NEW m
    PROVE  LET w == Verdict(v, E, from, to, m)
           IN  /\ IsVisit(w) /\ w.eligible \in BOOLEAN /\ w.session = v.session /\ w.start = v.start
               /\ w.user = v.user /\ w.company = v.company /\ w.engaged = v.engaged /\ w.clicks = v.clicks
               /\ w.url = v.url /\ w.rule = v.rule
               /\ ~ OnDays(v.start, from, to) => w = v
               /\ ~ w.eligible => \/ ~ v.eligible
                                  \/ /\ OnDays(v.start, from, to)
                                     /\ IsExcluded(Widened(E, from, to), v, m)
<1>1. CASE OnDays(v.start, from, to) /\ IsExcluded(Widened(E, from, to), v, m)
  BY <1>1, Marked DEF Verdict
<1>2. CASE ~ (OnDays(v.start, from, to) /\ IsExcluded(Widened(E, from, to), v, m))
  BY <1>2 DEF Verdict
<1> QED
  BY <1>1, <1>2

\* Judging keeps the visits outside the window, and every other field.
LEMMA JudgedSound ==
    ASSUME NEW E, NEW V, VisitsSound(V, E), NEW from, NEW to, NEW m
    PROVE  /\ VisitsSound(Judged(V, E, from, to, m), E)
           /\ Beyond(Judged(V, E, from, to, m), from, to) = Beyond(V, from, to)
<1> DEFINE J(v) == Verdict(v, E, from, to, m)
<1>1. Judged(V, E, from, to, m) = {J(v) : v \in V}
  BY DEF Judged, Verdict
<1>2. \A v \in V : IsVisit(v) /\ v.eligible \in BOOLEAN
  BY DEF VisitsSound
<1>3. \A v \in V : /\ IsVisit(J(v)) /\ J(v).eligible \in BOOLEAN /\ J(v).session = v.session
                   /\ J(v).start = v.start /\ J(v).user = v.user /\ J(v).company = v.company
                   /\ J(v).engaged = v.engaged /\ J(v).clicks = v.clicks
                   /\ J(v).url = v.url /\ J(v).rule = v.rule
                   /\ ~ OnDays(v.start, from, to) => J(v) = v
  BY <1>2, VerdictFields
<1> HIDE DEF J
<1>4. IsFiniteSet({J(v) : v \in V})
  <2> DEFINE f == [v \in V |-> J(v)]
  <2>1. {J(v) : v \in V} = {f[v] : v \in V}
    OBVIOUS
  <2>2. IsFiniteSet(V)
    BY DEF VisitsSound
  <2>3. IsFiniteSet({f[v] : v \in V})
    <3> HIDE DEF f
    <3> QED
      BY <2>2, ImageFinite
  <2> QED
    BY <2>1, <2>3
<1>5. VisitsSound({J(v) : v \in V}, E)
  <2> SUFFICES ASSUME NEW v \in V
               PROVE  /\ IsVisit(J(v))
                      /\ J(v).eligible \in BOOLEAN /\ J(v).engaged \in Nat /\ J(v).clicks \in Nat
                      /\ \E e \in E : /\ J(v).session = e.session /\ J(v).start = e.ts
                                      /\ J(v).user = Identity[e.session].user
                                      /\ J(v).company = Identity[e.session].company
                                      /\ J(v).url = e.page.url /\ J(v).rule = e.page.rule
    BY <1>4 DEF VisitsSound
  <2> QED
    BY <1>3 DEF VisitsSound
<1>6. Beyond({J(v) : v \in V}, from, to) = Beyond(V, from, to)
  BY <1>3 DEF Beyond
<1> QED
  BY <1>1, <1>5, <1>6

----------------------------------------------------------------------------
(* What always holds of the visits, the transitions and a rebuild.         *)

\* CompaniesUnaffected, of any visits.
Unaffected(V) == \A v \in V : ~ v.eligible => v.user = None /\ v.company = None

\* A visit taken out of the reports is anonymous: its own event is in a scope without identity.
LEMMA ExcludedAnonymous ==
    ASSUME NEW E, EventsSound(E), NEW V, VisitsSound(V, E), NEW from \in Int, NEW to \in Int,
           NEW m, NEW v \in V, OnDays(v.start, from, to), IsExcluded(Widened(E, from, to), v, m)
    PROVE  v.user = None /\ v.company = None
<1> DEFINE W == Widened(E, from, to)
<1>1. PICK e \in E : /\ v.session = e.session /\ v.start = e.ts
                     /\ v.user = Identity[e.session].user
                     /\ v.company = Identity[e.session].company
  BY DEF VisitsSound
<1>2. PICK x \in W : /\ Visitor[x.session] = Visitor[v.session] /\ LowConfidence(W, x, m)
                     /\ \E f, g \in Scope(W, x) : f.ts <= v.start /\ v.start <= g.ts
  BY DEF IsExcluded
<1>3. PICK f \in Scope(W, x), g \in Scope(W, x) : f.ts <= v.start /\ v.start <= g.ts
  BY <1>2
<1>4. e \in W /\ SameVisitor(e, x)
  BY <1>1, <1>2, EventTyped DEF Widened, OnDays, SameVisitor
<1>5. \A s \in W : s.ts \in Nat
  BY EventTyped DEF Widened
<1>6. ASSUME NEW s \in W, SameVisitor(s, x), StartsScope(W, s)
      PROVE  s.ts <= x.ts <=> s.ts <= e.ts
  <2>1. (s.ts <= x.ts <=> s.ts <= f.ts) /\ (s.ts <= x.ts <=> s.ts <= g.ts) /\ f \in W /\ g \in W
    BY <1>6, ScopeMembers
  <2> QED
    BY <1>1, <1>2, <1>3, <1>4, <1>5, <2>1
<1>7. e \in Scope(W, x)
  BY <1>4, <1>6, ScopeMembers
<1>8. IsAnonymous(e)
  BY <1>2, <1>7 DEF LowConfidence, IsMeaningful
<1> QED
  BY <1>1, <1>8 DEF IsAnonymous

\* Only an anonymous visit is taken out: a session with an identity is meaningful.
LEMMA JudgedUnaffected ==
    ASSUME NEW E, EventsSound(E), NEW V, VisitsSound(V, E), Unaffected(V),
           NEW from \in Int, NEW to \in Int, NEW m
    PROVE  Unaffected(Judged(V, E, from, to, m))
<1> DEFINE J(v) == Verdict(v, E, from, to, m)
<1>1. Judged(V, E, from, to, m) = {J(v) : v \in V}
  BY DEF Judged, Verdict
<1>2. ASSUME NEW v \in V, ~ J(v).eligible
      PROVE  J(v).user = None /\ J(v).company = None
  <2>1. IsVisit(v) /\ v.eligible \in BOOLEAN
    BY DEF VisitsSound
  <2>2. /\ J(v).user = v.user /\ J(v).company = v.company
        /\ \/ ~ v.eligible
           \/ OnDays(v.start, from, to) /\ IsExcluded(Widened(E, from, to), v, m)
    BY <1>2, <2>1, VerdictFields
  <2>3. v.user = None /\ v.company = None
    BY <2>2, ExcludedAnonymous DEF Unaffected
  <2> QED
    BY <2>2, <2>3
<1> HIDE DEF J
<1> QED
  BY <1>1, <1>2 DEF Unaffected

\* More events, as many visits.
LEMMA VisitsStay ==
    ASSUME NEW E, NEW F, E \subseteq F, NEW V, VisitsSound(V, E)
    PROVE  VisitsSound(V, F)
BY DEF VisitsSound

\* The rebuild in progress has all of its fields.
JobRecord ==
    /\ job = [step |-> job.step, from |-> job.from, to |-> job.to, outdated |-> job.outdated,
              visits |-> job.visits, transitions |-> job.transitions]
    /\ job.step \in {"segmented", "judged"} /\ job.outdated \in BOOLEAN
    /\ job.from \in Nat /\ job.to \in Nat

\* The rebuild in progress has changed nothing outside its window.
JobSound ==
    \/ job = Idle
    \/ /\ JobRecord
       /\ VisitsSound(job.visits, events) /\ Unaffected(job.visits)
       /\ Beyond(job.visits, job.from, job.to) = Beyond(visits, job.from, job.to)
       /\ job.step = "segmented"
             => job.transitions = UntouchedTransitions(transitions, job.from, job.to)
       /\ job.step = "judged"
             => job.transitions = UntouchedTransitions(transitions, job.from, job.to)
                                     \cup TransitionsIn(job.visits, job.from, job.to)

\* The stored facts and those of the rebuild in progress are about stored events,
\* whatever came in meanwhile.
FactsSound ==
    /\ EventsSound(events)
    /\ VisitsSound(visits, events) /\ Unaffected(visits)
    /\ TransitionsRight(visits, transitions)
    /\ JobSound

\* The steps of a rebuild.
LEMMA JobSteps == ASSUME JobSound
                  PROVE  /\ job = Idle => job.step = "idle"
                         /\ job.step \in {"segmented", "judged"} => job # Idle /\ JobRecord
<1>1. Idle.step = "idle"
  BY DEF Idle
<1> QED
  BY <1>1 DEF JobSound

\* The empty store.
LEMMA FactsInit == Init => FactsSound
<1> SUFFICES ASSUME Init PROVE FactsSound
  OBVIOUS
<1>1. events = {} /\ visits = {} /\ transitions = {} /\ job = Idle
  BY DEF Init
<1>2. EventsSound({}) /\ VisitsSound({}, {}) /\ Unaffected({})
  BY FS_EmptySet DEF EventsSound, VisitsSound, Unaffected
<1>3. TransitionsRight({}, {})
  BY DEF TransitionsRight, Eligible, TransitionsOf
<1> QED
  BY <1>1, <1>2, <1>3 DEF FactsSound, JobSound

\* An event that arrives makes no fact unsound.
LEMMA IngestSound ==
    ASSUME FactsSound, NEW e \in Event, Ingest(e)
    PROVE  FactsSound'
<1>1. events' = events \cup {e} /\ visits' = visits /\ transitions' = transitions
      /\ job' = (IF job = Idle THEN Idle ELSE [job EXCEPT !.outdated = TRUE])
  BY DEF Ingest
<1>2. EventsSound(events) /\ JobSound
  BY DEF FactsSound
<1>3. EventsSound(events')
  <2>1. events' \subseteq Event /\ IsFiniteSet(events')
    BY <1>1, <1>2, FS_AddElement DEF EventsSound
  <2>2. \A f \in events' : f.ts \in Nat
    BY <2>1, PageFactsAssumption DEF Event
  <2>3. \A f \in events : Visitor[f.session] = Visitor[e.session] => f.ts # e.ts
    BY DEF Ingest
  <2>4. \A f \in events : f.session = e.session => Apart(f.ts, e.ts) <= MaxDuration
    BY DEF Ingest
  <2>5. \A s, t \in Nat : Apart(s, t) = Apart(t, s) /\ Apart(s, s) = 0
    BY DEF Apart
  <2>6. ASSUME NEW f \in events', NEW g \in events', Visitor[f.session] = Visitor[g.session], f.ts = g.ts
        PROVE  f = g
    <3>1. CASE f \in events /\ g \in events
      BY <1>2, <2>6, <3>1 DEF EventsSound
    <3>2. CASE f = e \/ g = e
      BY <1>1, <2>3, <2>6, <3>2
    <3> QED
      BY <1>1, <3>1, <3>2
  <2>7. ASSUME NEW f \in events', NEW g \in events', f.session = g.session
        PROVE  Apart(f.ts, g.ts) <= MaxDuration
    <3>1. CASE f \in events /\ g \in events
      BY <1>2, <2>7, <3>1 DEF EventsSound
    <3>2. CASE f = e /\ g = e
      BY <2>2, <2>5, <3>2, Lengths
    <3>3. CASE f \in events /\ g = e
      BY <2>4, <2>7, <3>3
    <3>4. CASE f = e /\ g \in events
      <4>1. Apart(g.ts, f.ts) <= MaxDuration
        BY <2>4, <2>7, <3>4
      <4> QED
        BY <2>2, <2>5, <4>1
    <3> QED
      BY <1>1, <3>1, <3>2, <3>3, <3>4
  <2> QED
    BY <2>1, <2>6, <2>7 DEF EventsSound
<1>4. VisitsSound(visits', events') /\ Unaffected(visits')
  BY <1>1, VisitsStay DEF FactsSound
<1>5. TransitionsRight(visits', transitions')
  BY <1>1 DEF FactsSound
<1>6. JobSound'
  <2>1. CASE job = Idle
    BY <1>1, <2>1 DEF JobSound
  <2>2. CASE job # Idle
    <3>1. /\ JobRecord /\ VisitsSound(job.visits, events) /\ Unaffected(job.visits)
          /\ Beyond(job.visits, job.from, job.to) = Beyond(visits, job.from, job.to)
          /\ job.step = "segmented"
                => job.transitions = UntouchedTransitions(transitions, job.from, job.to)
          /\ job.step = "judged"
                => job.transitions = UntouchedTransitions(transitions, job.from, job.to)
                                        \cup TransitionsIn(job.visits, job.from, job.to)
      BY <1>2, <2>2 DEF JobSound
    <3>2. job' = [step |-> job.step, from |-> job.from, to |-> job.to, outdated |-> TRUE,
                  visits |-> job.visits, transitions |-> job.transitions]
      BY <1>1, <2>2, <3>1 DEF JobRecord
    <3>3. /\ job'.step = job.step /\ job'.from = job.from /\ job'.to = job.to
          /\ job'.outdated = TRUE /\ job'.visits = job.visits /\ job'.transitions = job.transitions
      BY <3>2
    <3>4. JobRecord'
      BY <3>1, <3>2, <3>3 DEF JobRecord
    <3>5. VisitsSound(job'.visits, events')
      BY <1>1, <3>1, <3>3, VisitsStay
    <3> QED
      BY <1>1, <3>1, <3>3, <3>4, <3>5 DEF JobSound
  <2> QED
    BY <2>1, <2>2
<1> QED
  BY <1>3, <1>4, <1>5, <1>6 DEF FactsSound

\* Nor does the first step of a rebuild,
LEMMA SegmentSound ==
    ASSUME FactsSound, NEW from \in Nat, NEW to \in Nat, Segment(from, to)
    PROVE  FactsSound'
<1> DEFINE New == VisitsOf(events, from, to)
           Old == {v \in visits : ~ OnDays(v.start, from, to)}
<1>1. /\ job = Idle
      /\ job' = [step |-> "segmented", from |-> from, to |-> to, outdated |-> FALSE,
                 visits |-> Old \cup New, transitions |-> UntouchedTransitions(transitions, from, to)]
      /\ events' = events /\ visits' = visits /\ transitions' = transitions
  BY DEF Segment
<1>2. /\ VisitsSound(New, events)
      /\ \A v \in New : v.eligible = TRUE /\ OnDays(v.start, from, to)
  <2>1. from \in Int /\ to \in Int /\ EventsSound(events)
    BY DEF FactsSound
  <2> QED
    BY <2>1, VisitsOfSound
<1> HIDE DEF New
<1>3. VisitsSound(Old \cup New, events)
  <2>1. IsFiniteSet(Old) /\ IsFiniteSet(New)
    BY <1>2, FS_Subset DEF FactsSound, VisitsSound
  <2>2. IsFiniteSet(Old \cup New)
    BY <2>1, FS_Union
  <2> QED
    BY <1>2, <2>2 DEF FactsSound, VisitsSound
<1>4. Unaffected(Old \cup New)
  BY <1>2 DEF FactsSound, Unaffected
<1>5. Beyond(Old \cup New, from, to) = Beyond(visits, from, to)
  BY <1>2 DEF Beyond
<1> HIDE DEF Old
<1>6. /\ job'.step = "segmented" /\ job'.from = from /\ job'.to = to /\ job'.visits = Old \cup New
      /\ job'.outdated = FALSE /\ job'.transitions = UntouchedTransitions(transitions, from, to)
  BY <1>1
<1>7. JobRecord'
  BY <1>1, <1>6 DEF JobRecord
<1>8. JobSound'
  BY <1>1, <1>3, <1>4, <1>5, <1>6, <1>7 DEF JobSound
<1> QED
  BY <1>1, <1>8 DEF FactsSound

\* the second,
LEMMA JudgeSound ==
    ASSUME FactsSound, Judge
    PROVE  FactsSound'
<1> DEFINE V == Judged(job.visits, events, job.from, job.to, now)
<1>1. /\ job.step = "segmented"
      /\ job' = [job EXCEPT !.step = "judged", !.visits = V,
                 !.transitions = @ \cup TransitionsIn(V, job.from, job.to)]
      /\ events' = events /\ visits' = visits /\ transitions' = transitions
  BY DEF Judge
<1>2. /\ JobRecord /\ VisitsSound(job.visits, events) /\ Unaffected(job.visits)
      /\ Beyond(job.visits, job.from, job.to) = Beyond(visits, job.from, job.to)
      /\ job.transitions = UntouchedTransitions(transitions, job.from, job.to)
  BY <1>1, JobSteps DEF FactsSound, JobSound
<1>3. job.from \in Int /\ job.to \in Int /\ EventsSound(events)
  BY <1>2 DEF JobRecord, FactsSound
<1>4. VisitsSound(V, events) /\ Unaffected(V)
      /\ Beyond(V, job.from, job.to) = Beyond(visits, job.from, job.to)
  BY <1>2, <1>3, JudgedSound, JudgedUnaffected
<1> HIDE DEF V
<1>5. job' = [step |-> "judged", from |-> job.from, to |-> job.to, outdated |-> job.outdated,
              visits |-> V, transitions |-> job.transitions \cup TransitionsIn(V, job.from, job.to)]
  BY <1>1, <1>2 DEF JobRecord
<1>6. /\ job'.step = "judged" /\ job'.from = job.from /\ job'.to = job.to /\ job'.visits = V
      /\ job'.outdated = job.outdated
      /\ job'.transitions = job.transitions \cup TransitionsIn(V, job.from, job.to)
  BY <1>5
<1>7. JobRecord'
  BY <1>2, <1>5, <1>6 DEF JobRecord
<1>8. JobSound'
  BY <1>1, <1>2, <1>4, <1>6, <1>7 DEF JobSound
<1> QED
  BY <1>1, <1>8 DEF FactsSound

\* or the last.
LEMMA CommitSound ==
    ASSUME FactsSound, Commit
    PROVE  FactsSound'
<1>1. /\ job.step = "judged" /\ visits' = job.visits /\ transitions' = job.transitions
      /\ job' = Idle /\ events' = events
  BY DEF Commit
<1>2. /\ JobRecord /\ VisitsSound(job.visits, events) /\ Unaffected(job.visits)
      /\ Beyond(job.visits, job.from, job.to) = Beyond(visits, job.from, job.to)
      /\ job.transitions = UntouchedTransitions(transitions, job.from, job.to)
                              \cup TransitionsIn(job.visits, job.from, job.to)
  BY <1>1, JobSteps DEF FactsSound, JobSound
<1>3. TransitionsRight(job.visits, job.transitions)
  BY <1>2, TransitionsStay DEF FactsSound, JobRecord
<1> QED
  BY <1>1, <1>2, <1>3 DEF FactsSound, JobSound

\* Every step keeps FactsSound.
LEMMA FactsNext == FactsSound /\ [Next]_vars => FactsSound'
<1> SUFFICES ASSUME FactsSound, [Next]_vars PROVE FactsSound'
  OBVIOUS
<1>1. ASSUME NEW e \in {a \in Event : Arrivals(a)}, Ingest(e) PROVE FactsSound'
  BY <1>1, IngestSound
<1>2. CASE Wait
  BY <1>2 DEF Wait, FactsSound, JobSound
<1>3. ASSUME NEW w \in Windows, Segment(w[1], w[2]) PROVE FactsSound'
  <2>1. w[1] \in Nat /\ w[2] \in Nat
    BY PageFactsAssumption
  <2> QED
    BY <1>3, <2>1, SegmentSound
<1>4. CASE Judge
  BY <1>4, JudgeSound
<1>5. CASE Commit
  BY <1>5, CommitSound
<1>6. CASE UNCHANGED vars
  BY <1>6 DEF vars, FactsSound, JobSound, JobRecord
<1> QED
  BY <1>1, <1>2, <1>3, <1>4, <1>5, <1>6 DEF Next

\* Every visit is one of a stored event, with the identity of its fragment; the
\* visits taken out are anonymous; the transitions are those of the eligible visits;
\* and a rebuild in progress differs from the store on its own days only, whatever
\* is ingested between its statements (services.py:704-812).
THEOREM FactsStaySound == Spec => []FactsSound
<1>1. Init => FactsSound
  BY FactsInit
<1>2. FactsSound /\ [Next]_vars => FactsSound'
  BY FactsNext
<1> QED
  BY <1>1, <1>2, PTL DEF Spec

\* Rebuilds of parts leave no transition to or from a visit that is gone, taken out
\* or no longer next, and miss none within a day (queries.py:368-388, 696-758).
THEOREM TransitionsStaySound == Spec => []TransitionsSound
<1>1. FactsSound => TransitionsSound
  BY DEF FactsSound, TransitionsRight, TransitionsSound, Eligible
<1> QED
  BY <1>1, FactsStaySound, PTL

\* The company and the user tables need no condition on eligibility: a visit taken
\* out of the reports names nobody (queries.py:809-815).
THEOREM AnonymousStay == Spec => []CompaniesUnaffected
<1>1. FactsSound => CompaniesUnaffected
  BY DEF FactsSound, Unaffected, CompaniesUnaffected
<1> QED
  BY <1>1, FactsStaySound, PTL

----------------------------------------------------------------------------
(* The days that have been rebuilt since the last event.                   *)

\* The visits of one day.
DayOf(V, d) == {v \in V : Day(v.start) = d}

\* What a window leaves alone, it leaves alone day by day.
LEMMA DayBeyond ==
    ASSUME NEW V, NEW W, NEW from \in Int, NEW to \in Int, Beyond(W, from, to) = Beyond(V, from, to),
           NEW d \in Int, ~ (from <= d /\ d <= to)
    PROVE  DayOf(W, d) = DayOf(V, d)
<1>1. \A v : v \in V /\ ~ OnDays(v.start, from, to) <=> v \in W /\ ~ OnDays(v.start, from, to)
  BY DEF Beyond
<1>2. \A v : Day(v.start) = d => ~ OnDays(v.start, from, to)
  BY DEF OnDays
<1> QED
  BY <1>1, <1>2 DEF DayOf

\* The judgement of a window is the judgement of its days.
LEMMA DayJudged ==
    ASSUME NEW E, EventsSound(E), NEW V, VisitsSound(V, E), NEW from \in Int, NEW to \in Int, NEW m,
           {v \in V : OnDays(v.start, from, to)} = VisitsOf(E, from, to),
           NEW d \in Int, from <= d, d <= to
    PROVE  DayOf(Judged(V, E, from, to, m), d) = FactsOn(E, d, m)
<1> DEFINE J(v) == Verdict(v, E, from, to, m)
           U == VisitsOf(E, from, to)
<1>1. Judged(V, E, from, to, m) = {J(v) : v \in V} /\ Judged(U, E, from, to, m) = {J(v) : v \in U}
  BY DEF Judged, Verdict
<1>2. U \subseteq V /\ \A v \in V : OnDays(v.start, from, to) => v \in U
  OBVIOUS
<1>3. \A v \in V : J(v).start = v.start
  BY VerdictFields DEF VisitsSound
<1> HIDE DEF U, J
<1>4. \A v : Day(v.start) = d => OnDays(v.start, from, to)
  BY DEF OnDays
<1>5. DayOf({J(v) : v \in V}, d) = DayOf({J(v) : v \in U}, d)
  BY <1>2, <1>3, <1>4 DEF DayOf
<1>6. DayOf(Judged(U, E, from, to, m), d) = FactsOn(E, d, m)
  BY Rebuilt DEF DayOf, U
<1> QED
  BY <1>1, <1>5, <1>6

\* There is nothing before the first day.
LEMMA NothingBefore ==
    ASSUME NEW E, EventsSound(E), NEW V, VisitsSound(V, E), NEW m, NEW d \in Int, d < 0
    PROVE  DayOf(V, d) = {} /\ FactsOn(E, d, m) = {}
<1>1. \A v \in V : Day(v.start) \in Nat
  BY VisitTyped
<1>2. \A e \in E : Day(e.ts) \in Nat
  BY EventTyped
<1>3. Beginnings(E, d, d) = {}
  BY <1>2 DEF Beginnings, WithUrl, OnDays
<1> QED
  BY <1>1, <1>3 DEF DayOf, FactsOn

\* The visits of the day are those cut out of all events, judged at this time.
DaySettled(d) == DayOf(visits, d) = FactsOn(events, d, now)

\* A settled day and the day before it are settled by their visits.
SettledSound == \A d \in settled : d \in Nat /\ DaySettled(d) /\ DaySettled(d - 1)

\* A rebuild that no event has overtaken has made the visits of all events.
JobFresh ==
    job # Idle /\ ~ job.outdated =>
        /\ job.step = "segmented"
              => {v \in job.visits : OnDays(v.start, job.from, job.to)} = VisitsOf(events, job.from, job.to)
        /\ job.step = "judged"
              => \A d \in job.from .. job.to : DayOf(job.visits, d) = FactsOn(events, d, now)

\* The stored visits of the settled days, and those of the rebuild in progress.
FactsFresh == SettledSound /\ JobFresh

\* Nothing is settled at first.
LEMMA FreshInit == Init => FactsFresh
BY DEF Init, FactsFresh, SettledSound, JobFresh

\* An event unsettles every day and marks the rebuild in progress.
LEMMA FreshIngest ==
    ASSUME FactsSound, FactsFresh, NEW e \in Event, Ingest(e)
    PROVE  FactsFresh'
<1>1. settled' = {} /\ job' = (IF job = Idle THEN Idle ELSE [job EXCEPT !.outdated = TRUE])
  BY DEF Ingest
<1>2. SettledSound'
  BY <1>1 DEF SettledSound
<1>3. JobFresh'
  <2>1. CASE job = Idle
    BY <1>1, <2>1 DEF JobFresh
  <2>2. CASE job # Idle
    <3>1. JobRecord
      BY <2>2 DEF FactsSound, JobSound
    <3>2. job'.outdated = TRUE
      BY <1>1, <2>2, <3>1 DEF JobRecord
    <3> QED
      BY <3>2 DEF JobFresh
  <2> QED
    BY <2>1, <2>2
<1> QED
  BY <1>2, <1>3 DEF FactsFresh

\* The visits of a window are cut as from all events,
LEMMA FreshSegment ==
    ASSUME FactsSound, FactsFresh, NEW from \in Nat, NEW to \in Nat, Segment(from, to)
    PROVE  FactsFresh'
<1> DEFINE New == VisitsOf(events, from, to)
           Old == {v \in visits : ~ OnDays(v.start, from, to)}
<1>1. /\ job' = [step |-> "segmented", from |-> from, to |-> to, outdated |-> FALSE,
                 visits |-> Old \cup New, transitions |-> UntouchedTransitions(transitions, from, to)]
      /\ events' = events /\ visits' = visits /\ settled' = settled /\ now' = now
  BY DEF Segment
<1>2. \A v \in New : OnDays(v.start, from, to)
  <2>1. from \in Int /\ to \in Int /\ EventsSound(events)
    BY DEF FactsSound
  <2> QED
    BY <2>1, VisitsOfSound
<1>3. {v \in Old \cup New : OnDays(v.start, from, to)} = New
  BY <1>2
<1> HIDE DEF New, Old
<1>4. job'.step = "segmented" /\ job'.from = from /\ job'.to = to /\ job'.visits = Old \cup New
  BY <1>1
<1>5. {v \in job'.visits : OnDays(v.start, job'.from, job'.to)} = VisitsOf(events', job'.from, job'.to)
  BY <1>1, <1>3, <1>4 DEF New
<1>6. JobFresh'
  BY <1>4, <1>5 DEF JobFresh
<1>7. SettledSound'
  BY <1>1 DEF FactsFresh, SettledSound, DaySettled
<1> QED
  BY <1>6, <1>7 DEF FactsFresh

\* judged as among all events,
LEMMA FreshJudge ==
    ASSUME FactsSound, FactsFresh, Judge
    PROVE  FactsFresh'
<1> DEFINE V == Judged(job.visits, events, job.from, job.to, now)
<1>1. /\ job.step = "segmented"
      /\ job' = [job EXCEPT !.step = "judged", !.visits = V,
                 !.transitions = @ \cup TransitionsIn(V, job.from, job.to)]
      /\ events' = events /\ visits' = visits /\ settled' = settled /\ now' = now
  BY DEF Judge
<1>2. JobRecord /\ job # Idle /\ VisitsSound(job.visits, events) /\ EventsSound(events)
  BY <1>1, JobSteps DEF FactsSound, JobSound
<1>3. job.from \in Int /\ job.to \in Int /\ job.outdated \in BOOLEAN
  BY <1>2 DEF JobRecord
<1>4. ASSUME ~ job.outdated, NEW d \in job.from .. job.to
      PROVE  DayOf(V, d) = FactsOn(events, d, now)
  <2>1. {v \in job.visits : OnDays(v.start, job.from, job.to)} = VisitsOf(events, job.from, job.to)
    BY <1>1, <1>2, <1>4 DEF FactsFresh, JobFresh
  <2>2. d \in Int /\ job.from <= d /\ d <= job.to
    BY <1>3
  <2> QED
    BY <1>2, <1>3, <2>1, <2>2, DayJudged
<1> HIDE DEF V
<1>5. /\ job'.step = "judged" /\ job'.from = job.from /\ job'.to = job.to /\ job'.visits = V
      /\ job'.outdated = job.outdated
  BY <1>1, <1>2 DEF JobRecord
<1>6. JobFresh'
  BY <1>1, <1>4, <1>5 DEF JobFresh
<1>7. SettledSound'
  BY <1>1 DEF FactsFresh, SettledSound, DaySettled
<1> QED
  BY <1>6, <1>7 DEF FactsFresh

\* and stored for the days that are then settled.
LEMMA FreshCommit ==
    ASSUME FactsSound, FactsFresh, Commit
    PROVE  FactsFresh'
<1>1. /\ job.step = "judged" /\ visits' = job.visits /\ job' = Idle /\ events' = events /\ now' = now
      /\ settled' = IF job.outdated THEN {}
                    ELSE settled \cup {d \in job.from .. job.to :
                                          d = 0 \/ d - 1 \in settled \/ d > job.from}
  BY DEF Commit
<1>2. /\ JobRecord /\ job # Idle /\ VisitsSound(job.visits, events) /\ EventsSound(events)
      /\ Beyond(job.visits, job.from, job.to) = Beyond(visits, job.from, job.to)
  BY <1>1, JobSteps DEF FactsSound, JobSound
<1>3. job.from \in Nat /\ job.to \in Nat /\ job.outdated \in BOOLEAN
  BY <1>2 DEF JobRecord
<1>4. JobFresh'
  BY <1>1 DEF JobFresh
<1>5. SettledSound'
  <2>1. CASE job.outdated
    BY <1>1, <2>1 DEF SettledSound
  <2>2. CASE ~ job.outdated
    <3>1. \A d \in job.from .. job.to : DaySettled(d)'
      BY <1>1, <1>2, <2>2 DEF FactsFresh, JobFresh, DaySettled
    <3>2. \A d \in Int : DaySettled(d) => DaySettled(d)'
      <4> SUFFICES ASSUME NEW d \in Int, DaySettled(d) PROVE DaySettled(d)'
        OBVIOUS
      <4>1. CASE d \in job.from .. job.to
        BY <3>1, <4>1
      <4>2. CASE d \notin job.from .. job.to
        <5>1. DayOf(job.visits, d) = DayOf(visits, d)
          BY <1>2, <1>3, <4>2, DayBeyond
        <5> QED
          BY <1>1, <5>1 DEF DaySettled
      <4> QED
        BY <4>1, <4>2
    <3>3. \A d \in settled : d \in Nat /\ DaySettled(d)' /\ DaySettled(d - 1)'
      BY <3>2 DEF FactsFresh, SettledSound
    <3>4. ASSUME NEW d \in job.from .. job.to, d = 0 \/ d - 1 \in settled \/ d > job.from
          PROVE  d \in Nat /\ DaySettled(d)' /\ DaySettled(d - 1)'
      <4>1. d \in Nat
        BY <1>3
      <4>2. CASE d = 0
        <5>1. DayOf(job.visits, d - 1) = {} /\ FactsOn(events, d - 1, now) = {}
          <6>1. d - 1 \in Int /\ d - 1 < 0
            BY <4>2
          <6> QED
            BY <1>2, <6>1, NothingBefore
        <5>2. DaySettled(d - 1)'
          BY <1>1, <5>1 DEF DaySettled
        <5> QED
          BY <3>1, <4>1, <5>2
      <4>3. CASE d - 1 \in settled
        BY <3>1, <3>3, <4>1, <4>3
      <4>4. CASE d > job.from
        <5>1. d - 1 \in job.from .. job.to
          BY <1>3, <4>1, <4>4
        <5> QED
          BY <3>1, <4>1, <5>1
      <4> QED
        BY <3>4, <4>2, <4>3, <4>4
    <3>5. settled' = settled \cup {d \in job.from .. job.to : d = 0 \/ d - 1 \in settled \/ d > job.from}
      BY <1>1, <2>2
    <3> QED
      BY <3>3, <3>4, <3>5 DEF SettledSound
  <2> QED
    BY <2>1, <2>2
<1> QED
  BY <1>4, <1>5 DEF FactsFresh

\* Every step keeps FactsFresh.
LEMMA FreshNext == FactsSound /\ FactsFresh /\ [Next]_vars => FactsFresh'
<1> SUFFICES ASSUME FactsSound, FactsFresh, [Next]_vars PROVE FactsFresh'
  OBVIOUS
<1>1. ASSUME NEW e \in {a \in Event : Arrivals(a)}, Ingest(e) PROVE FactsFresh'
  BY <1>1, FreshIngest
<1>2. CASE Wait
  BY <1>2 DEF Wait, FactsFresh, SettledSound, JobFresh
<1>3. ASSUME NEW w \in Windows, Segment(w[1], w[2]) PROVE FactsFresh'
  <2>1. w[1] \in Nat /\ w[2] \in Nat
    BY PageFactsAssumption
  <2> QED
    BY <1>3, <2>1, FreshSegment
<1>4. CASE Judge
  BY <1>4, FreshJudge
<1>5. CASE Commit
  BY <1>5, FreshCommit
<1>6. CASE UNCHANGED vars
  BY <1>6 DEF vars, FactsFresh, SettledSound, JobFresh, DaySettled
<1> QED
  BY <1>1, <1>2, <1>3, <1>4, <1>5, <1>6 DEF Next

\* The visits of a settled day are those that all the events give, whatever windows
\* were rebuilt and in whatever order (services.py:704-812).
THEOREM FactsStayFresh == Spec => []FactsFresh
<1>1. Init => FactsFresh
  BY FreshInit
<1>2. FactsSound /\ FactsFresh /\ [Next]_vars => FactsFresh'
  BY FreshNext
<1> QED
  BY <1>1, <1>2, FactsStaySound, PTL DEF Spec

\* A finite set of naturals has a greatest element.
LEMMA GreatestIn ==
    ASSUME NEW T, T \subseteq Nat, T # {}, IsFiniteSet(T)
    PROVE  Max(T) \in T /\ \A y \in T : y <= Max(T)
<1> DEFINE Bounded(s) == s = {} \/ \E x \in s : \A y \in s : y <= x
           Bad == {s \in SUBSET T : ~ Bounded(s)}
<1>1. Bounded(T)
  <2> SUFFICES ASSUME Bad # {} PROVE FALSE
    OBVIOUS
  <2>1. \A s \in Bad : IsFiniteSet(s)
    BY FS_Subset
  <2>2. PICK s \in Bad : \A t \in Bad : ~ (t \subseteq s /\ t # s)
    <3> HIDE DEF Bad
    <3> QED
      BY <2>1, LeastSet
  <2>3. PICK z \in s : s \subseteq Nat
    <3>1. s # {} /\ s \subseteq T
      BY <2>2
    <3> QED
      BY <3>1
  <2>4. Bounded(s \ {z})
    <3>1. s \ {z} \in SUBSET T /\ s \ {z} \subseteq s /\ s \ {z} # s
      BY <2>2, <2>3
    <3>2. s \ {z} \notin Bad
      <4> HIDE DEF Bad
      <4> QED
        BY <2>2, <3>1
    <3> HIDE DEF Bounded
    <3> QED
      BY <3>1, <3>2
  <2>5. CASE s \ {z} = {}
    <3>1. \A y \in s : y <= z
      BY <2>3, <2>5
    <3> QED
      BY <2>2, <2>3, <3>1
  <2>6. CASE s \ {z} # {}
    <3>1. PICK x \in s \ {z} : \A y \in s \ {z} : y <= x
      BY <2>4, <2>6
    <3>2. x \in Nat /\ z \in Nat
      BY <2>3, <3>1
    <3>3. (\A y \in s : y <= x) \/ (\A y \in s : y <= z)
      BY <2>3, <3>1, <3>2
    <3> QED
      BY <2>2, <2>3, <3>1, <3>3
  <2> QED
    BY <2>5, <2>6
<1>2. \E x \in T : \A y \in T : x >= y
  BY <1>1
<1> QED
  BY <1>2 DEF Max

\* The last day is the last on which something can happen.
LEMMA LastDay ==
    /\ Max(Days) \in Nat /\ Max(Days) = Day(Max(Times))
    /\ \A t \in Times : Day(t) \in Nat /\ Day(t) <= Max(Days)
<1>1. Max(Times) \in Times /\ \A t \in Times : t <= Max(Times)
  BY PageFactsAssumption, GreatestIn
<1>2. Times \subseteq Nat
  BY PageFactsAssumption
<1>3. Day(Max(Times)) \in Nat
  BY <1>1, <1>2, DayBounds
<1> DEFINE n == Day(Max(Times))
<1>4. n \in 0 .. n /\ \A k \in 0 .. n : n >= k
  BY <1>3
<1>5. Max(0 .. n) = n
  <2> HIDE DEF n
  <2>1. n \in Nat
    BY <1>3 DEF n
  <2>2. \A k \in 0 .. n : (\A j \in 0 .. n : k >= j) => k = n
    BY <1>4, <2>1
  <2> QED
    BY <1>4, <2>2 DEF Max
<1> QED
  BY <1>1, <1>2, <1>3, <1>5, DayBounds, DaysOrdered DEF Days

\* The visits of a settled day and their eligibility are those of one rebuild of
\* everything: half of a two-page session is never mistaken for a single-page one
\* (analytics_eligibility.py:85-90).
THEOREM WindowsStayAlike == Spec => []WindowsAgree
<1>1. FactsSound /\ FactsFresh => WindowsAgree
  <2> SUFFICES ASSUME FactsSound, FactsFresh, NEW d \in settled
               PROVE  {v \in visits : Day(v.start) = d}
                         = {v \in Judged(VisitsOf(events, 0, Max(Days)), events, 0, Max(Days), now) :
                               Day(v.start) = d}
    BY DEF WindowsAgree
  <2> DEFINE n == Max(Days)
             Complete == Judged(VisitsOf(events, 0, n), events, 0, n, now)
  <2>1. d \in Nat /\ DayOf(visits, d) = FactsOn(events, d, now) /\ EventsSound(events) /\ n \in Nat
    BY LastDay DEF FactsFresh, SettledSound, DaySettled, FactsSound
  <2>2. CASE d <= n
    <3>1. {v \in Judged(VisitsOf(events, 0, n), events, 0, n, now) : Day(v.start) = d}
             = FactsOn(events, d, now)
      <4> HIDE DEF n
      <4> QED
        BY <2>1, <2>2, Rebuilt
    <3> QED
      BY <2>1, <3>1 DEF DayOf
  <2>3. CASE d > n
    <3>1. \A e \in events : Day(e.ts) <= n /\ Day(e.ts) \in Nat
      BY <2>1, LastDay, EventTyped
    <3>2. Beginnings(events, d, d) = {}
      <4> HIDE DEF n
      <4> QED
        BY <2>1, <2>3, <3>1 DEF Beginnings, WithUrl, OnDays
    <3>3. {v \in visits : Day(v.start) = d} = {}
      BY <2>1, <3>2 DEF FactsOn, DayOf
    <3>4. VisitsSound(VisitsOf(events, 0, n), events)
      <4>1. 0 \in Int /\ n \in Int
        BY <2>1
      <4> HIDE DEF n
      <4> QED
        BY <2>1, <4>1, VisitsOfSound
    <3>5. VisitsSound(Complete, events)
      <4> HIDE DEF n
      <4> QED
        BY <3>4, JudgedSound
    <3>6. \A v \in Complete : Day(v.start) <= n
      <4> HIDE DEF n, Complete
      <4> QED
        BY <2>1, <3>1, <3>5 DEF VisitsSound
    <3>7. {v \in Complete : Day(v.start) = d} = {}
      <4>1. \A v \in Complete : Day(v.start) # d
        <5>1. \A v \in Complete : Day(v.start) \in Nat
          BY <2>1, <3>5, VisitTyped
        <5> HIDE DEF n, Complete
        <5> QED
          BY <2>1, <2>3, <3>6, <5>1
      <4> QED
        BY <4>1
    <3> QED
      BY <3>3, <3>7
  <2> QED
    BY <2>1, <2>2, <2>3
<1> QED
  BY <1>1, FactsStaySound, FactsStayFresh, PTL

----------------------------------------------------------------------------
(* The daily tables, row by row.                                           *)

\* The identities in a set of rows or visits.
Names(g, f) == {v[f] : v \in g} \ {None}

\* The visits behind a row of the page table,
PageGroup(V, k) == {v \in V : Day(v.start) = k[1] /\ v.rule = k[2] /\ v.area = k[3]}

\* the row,
PageRow(g, k) ==
    [date |-> k[1], rule |-> k[2], area |-> k[3],
     visits |-> Cardinality(g), clicked |-> Cardinality(Clicked(g)),
     engaged |-> FieldSum("engaged", g), clicks |-> FieldSum("clicks", g),
     companies |-> Cardinality(Names(g, "company")), users |-> Cardinality(Names(g, "user"))]

\* and the keys of its rows.
PageGroups(V) == {<<Day(v.start), v.rule, v.area>> : v \in V}

\* The page table has one row for each key.
LEMMA PageRows ==
    ASSUME NEW V
    PROVE  PageDaily(V) = {PageRow(PageGroup(V, k), k) : k \in PageGroups(V)}
BY DEF PageDaily, PageRow, PageGroup, PageGroups, Total, CountOf, FieldSum, Names, MapThenSumSet, MapThenFoldSet

\* The same for the table of URLs,
RawGroup(V, k) == {v \in V : Day(v.start) = k[1] /\ v.url = k[2]}

\* its rows
RawRow(g, k) ==
    [date |-> k[1], url |-> k[2], visits |-> Cardinality(g), clicked |-> Cardinality(Clicked(g)),
     engaged |-> FieldSum("engaged", g), clicks |-> FieldSum("clicks", g),
     companies |-> Cardinality(Names(g, "company")), users |-> Cardinality(Names(g, "user"))]

\* and their keys.
RawGroups(V) == {<<Day(v.start), v.url>> : v \in V}

\* The table of URLs has one row for each key.
LEMMA RawRows ==
    ASSUME NEW V
    PROVE  RawPageDaily(V) = {RawRow(RawGroup(V, k), k) : k \in RawGroups(V)}
BY DEF RawPageDaily, RawRow, RawGroup, RawGroups, Total, CountOf, FieldSum, Names, MapThenSumSet, MapThenFoldSet

\* A row of the project table.
ProjectRow(g, d) ==
    [date |-> d, visits |-> Cardinality(g), engaged |-> FieldSum("engaged", g),
     clicks |-> FieldSum("clicks", g),
     companies |-> Cardinality(Names(g, "company")), users |-> Cardinality(Names(g, "user"))]

\* The project table has one row for each day.
LEMMA ProjectRows ==
    ASSUME NEW V
    PROVE  ProjectDaily(V) = {ProjectRow(DayOf(V, d), d) : d \in {Day(v.start) : v \in V}}
BY DEF ProjectDaily, ProjectRow, DayOf, Total, CountOf, FieldSum, Names, MapThenSumSet, MapThenFoldSet

\* The rows of a day are made from the visits of the day.
LEMMA PagesOn ==
    ASSUME NEW V, NEW d
    PROVE  On(PageDaily(V), d) = PageDaily(DayOf(V, d))
<1> DEFINE D == DayOf(V, d)
           R(k) == PageRow(PageGroup(V, k), k)
           S(k) == PageRow(PageGroup(D, k), k)
<1>1. \A k : k \in PageGroups(D) <=> k \in PageGroups(V) /\ k[1] = d
  BY DEF PageGroups, DayOf
<1>2. \A k : R(k).date = k[1]
  BY DEF PageRow
<1>3. \A k : k[1] = d => R(k) = S(k)
  <2>1. \A k : k[1] = d => PageGroup(V, k) = PageGroup(D, k)
    BY DEF PageGroup, DayOf
  <2> QED
    BY <2>1
<1>4. PageDaily(V) = {R(k) : k \in PageGroups(V)} /\ PageDaily(D) = {S(k) : k \in PageGroups(D)}
  BY PageRows
<1> HIDE DEF D, R, S
<1>5. On({R(k) : k \in PageGroups(V)}, d) = {S(k) : k \in PageGroups(D)}
  BY <1>1, <1>2, <1>3 DEF On
<1> QED
  BY <1>4, <1>5 DEF D

\* The rows of URLs of one day come from the visits of that day.
LEMMA RawOn ==
    ASSUME NEW V, NEW d
    PROVE  On(RawPageDaily(V), d) = RawPageDaily(DayOf(V, d))
<1> DEFINE D == DayOf(V, d)
           R(k) == RawRow(RawGroup(V, k), k)
           S(k) == RawRow(RawGroup(D, k), k)
<1>1. \A k : k \in RawGroups(D) <=> k \in RawGroups(V) /\ k[1] = d
  BY DEF RawGroups, DayOf
<1>2. \A k : R(k).date = k[1]
  BY DEF RawRow
<1>3. \A k : k[1] = d => R(k) = S(k)
  <2>1. \A k : k[1] = d => RawGroup(V, k) = RawGroup(D, k)
    BY DEF RawGroup, DayOf
  <2> QED
    BY <2>1
<1>4. RawPageDaily(V) = {R(k) : k \in RawGroups(V)} /\ RawPageDaily(D) = {S(k) : k \in RawGroups(D)}
  BY RawRows
<1> HIDE DEF D, R, S
<1>5. On({R(k) : k \in RawGroups(V)}, d) = {S(k) : k \in RawGroups(D)}
  BY <1>1, <1>2, <1>3 DEF On
<1> QED
  BY <1>4, <1>5 DEF D

\* So does the project's row.
LEMMA ProjectOn ==
    ASSUME NEW V, NEW d
    PROVE  On(ProjectDaily(V), d) = ProjectDaily(DayOf(V, d))
<1> DEFINE D == DayOf(V, d)
           R(k) == ProjectRow(DayOf(V, k), k)
           S(k) == ProjectRow(DayOf(D, k), k)
           Dates(U) == {Day(v.start) : v \in U}
<1>1. \A k : k \in Dates(D) <=> k \in Dates(V) /\ k = d
  BY DEF DayOf
<1>2. \A k : R(k).date = k
  BY DEF ProjectRow
<1>3. R(d) = S(d)
  <2>1. DayOf(V, d) = DayOf(D, d)
    BY DEF DayOf
  <2> QED
    BY <2>1
<1>4. ProjectDaily(V) = {R(k) : k \in Dates(V)} /\ ProjectDaily(D) = {S(k) : k \in Dates(D)}
  BY ProjectRows
<1> HIDE DEF D, R, S, Dates
<1>5. On({R(k) : k \in Dates(V)}, d) = {S(k) : k \in Dates(D)}
  BY <1>1, <1>2, <1>3 DEF On
<1> QED
  BY <1>4, <1>5 DEF D

\* The companies of a day's rows are those of its visits, and so are the users.
CompanyGroup(V, k) ==
    {v \in V : Day(v.start) = k[1] /\ v.rule = k[2] /\ v.area = k[3] /\ v.company = k[4]}

\* A row of the company table.
CompanyRow(g, k) ==
    [date |-> k[1], rule |-> k[2], area |-> k[3], company |-> k[4],
     visits |-> Cardinality(g), clicked |-> Cardinality(Clicked(g)),
     engaged |-> FieldSum("engaged", g), clicks |-> FieldSum("clicks", g),
     users |-> Cardinality(Names(g, "user"))]

\* The keys of its rows.
CompanyGroups(V) == {<<Day(v.start), v.rule, v.area, v.company>> : v \in {w \in V : w.company # None}}

\* The company table has one row for each key.
LEMMA CompanyTableRows ==
    ASSUME NEW V
    PROVE  CompanyDaily(V) = {CompanyRow(CompanyGroup(V, k), k) : k \in CompanyGroups(V)}
BY DEF CompanyDaily, CompanyRow, CompanyGroup, CompanyGroups, Total, CountOf, FieldSum, Names, MapThenSumSet, MapThenFoldSet

\* The companies with a row on a day are those of the day's visits.
LEMMA CompanyNames ==
    ASSUME NEW V, NEW d
    PROVE  Names(On(CompanyDaily(V), d), "company") = Names(DayOf(V, d), "company")
<1> DEFINE R(k) == CompanyRow(CompanyGroup(V, k), k)
<1>1. CompanyDaily(V) = {R(k) : k \in CompanyGroups(V)}
  BY CompanyTableRows
<1>2. \A k : R(k).date = k[1] /\ R(k)["company"] = k[4]
  BY DEF CompanyRow
<1> HIDE DEF R
<1>3. \A k : k \in CompanyGroups(V)
              <=> \E v \in V : v["company"] # None /\ k = <<Day(v.start), v.rule, v.area, v["company"]>>
  BY DEF CompanyGroups
<1>4. ASSUME NEW c \in Names(On(CompanyDaily(V), d), "company")
      PROVE  c \in Names(DayOf(V, d), "company")
  <2>1. PICK k \in CompanyGroups(V) : k[1] = d /\ c = k[4] /\ c # None
    BY <1>1, <1>2 DEF Names, On
  <2>2. PICK v \in V : k = <<Day(v.start), v.rule, v.area, v["company"]>>
    BY <1>3
  <2>3. Day(v.start) = d /\ c = v["company"]
    BY <2>1, <2>2
  <2> QED
    BY <2>1, <2>3 DEF Names, DayOf
<1>5. ASSUME NEW c \in Names(DayOf(V, d), "company")
      PROVE  c \in Names(On(CompanyDaily(V), d), "company")
  <2>1. PICK v \in V : Day(v.start) = d /\ c = v["company"] /\ c # None
    BY DEF Names, DayOf
  <2> DEFINE k == <<Day(v.start), v.rule, v.area, v["company"]>>
  <2>2. k \in CompanyGroups(V) /\ k[1] = d /\ k[4] = c
    BY <1>3, <2>1
  <2> HIDE DEF k
  <2>3. R(k) \in On(CompanyDaily(V), d) /\ R(k)["company"] = c
    BY <1>1, <1>2, <2>2 DEF On
  <2> QED
    BY <2>1, <2>3 DEF Names
<1> QED
  BY <1>4, <1>5

\* The visits behind a row of the user table,
UserGroup(V, k) ==
    {v \in V : Day(v.start) = k[1] /\ v.rule = k[2] /\ v.area = k[3] /\ v.user = k[4]}

\* the row,
UserRow(g, k) ==
    [date |-> k[1], rule |-> k[2], area |-> k[3], user |-> k[4],
     company |-> IF Names(g, "company") = {} THEN None ELSE CHOOSE c \in Names(g, "company") : TRUE,
     visits |-> Cardinality(g), engaged |-> FieldSum("engaged", g), clicks |-> FieldSum("clicks", g)]

\* and the keys of its rows.
UserGroups(V) == {<<Day(v.start), v.rule, v.area, v.user>> : v \in {w \in V : w.user # None}}

\* The user table has one row for each key.
LEMMA UserTableRows ==
    ASSUME NEW V
    PROVE  UserDaily(V) = {UserRow(UserGroup(V, k), k) : k \in UserGroups(V)}
BY DEF UserDaily, UserRow, UserGroup, UserGroups, Total, CountOf, FieldSum, Names, MapThenSumSet, MapThenFoldSet

\* The users with a row on a day are those of the day's visits.
LEMMA UserNames ==
    ASSUME NEW V, NEW d
    PROVE  Names(On(UserDaily(V), d), "user") = Names(DayOf(V, d), "user")
<1> DEFINE R(k) == UserRow(UserGroup(V, k), k)
<1>1. UserDaily(V) = {R(k) : k \in UserGroups(V)}
  BY UserTableRows
<1>2. \A k : R(k).date = k[1] /\ R(k)["user"] = k[4]
  BY DEF UserRow
<1> HIDE DEF R
<1>3. \A k : k \in UserGroups(V)
              <=> \E v \in V : v["user"] # None /\ k = <<Day(v.start), v.rule, v.area, v["user"]>>
  BY DEF UserGroups
<1>4. ASSUME NEW c \in Names(On(UserDaily(V), d), "user")
      PROVE  c \in Names(DayOf(V, d), "user")
  <2>1. PICK k \in UserGroups(V) : k[1] = d /\ c = k[4] /\ c # None
    BY <1>1, <1>2 DEF Names, On
  <2>2. PICK v \in V : k = <<Day(v.start), v.rule, v.area, v["user"]>>
    BY <1>3
  <2>3. Day(v.start) = d /\ c = v["user"]
    BY <2>1, <2>2
  <2> QED
    BY <2>1, <2>3 DEF Names, DayOf
<1>5. ASSUME NEW c \in Names(DayOf(V, d), "user")
      PROVE  c \in Names(On(UserDaily(V), d), "user")
  <2>1. PICK v \in V : Day(v.start) = d /\ c = v["user"] /\ c # None
    BY DEF Names, DayOf
  <2> DEFINE k == <<Day(v.start), v.rule, v.area, v["user"]>>
  <2>2. k \in UserGroups(V) /\ k[1] = d /\ k[4] = c
    BY <1>3, <2>1
  <2> HIDE DEF k
  <2>3. R(k) \in On(UserDaily(V), d) /\ R(k)["user"] = c
    BY <1>1, <1>2, <2>2 DEF On
  <2> QED
    BY <2>1, <2>3 DEF Names
<1> QED
  BY <1>4, <1>5

----------------------------------------------------------------------------
(* What the rows of a day add up to.                                       *)

\* Visits that can be added up.
Counted(V) == IsFiniteSet(V) /\ \A v \in V : v["engaged"] \in Nat /\ v["clicks"] \in Nat

\* The rows R stand for the parts of V.
Parts(R, G, V) ==
    /\ IsFiniteSet(R)
    /\ \A r \in R : /\ G[r] \in SUBSET V
                    /\ r["visits"] = Cardinality(G[r])
                    /\ r["engaged"] = FieldSum("engaged", G[r])
                    /\ r["clicks"] = FieldSum("clicks", G[r])
    /\ \A r, q \in R : r # q => G[r] \cap G[q] = {}
    /\ Whole(G, R) = V

\* The totals over the rows are those over the visits.
SameTotals(R, V) ==
    /\ FieldSum("visits", R) = Cardinality(V)
    /\ FieldSum("engaged", R) = FieldSum("engaged", V)
    /\ FieldSum("clicks", R) = FieldSum("clicks", V)

\* Rows of parts add up to the whole.
LEMMA PartsTotal ==
    ASSUME NEW V, Counted(V), NEW R, NEW G, Parts(R, G, V)
    PROVE  SameTotals(R, V)
<1>1. IsFiniteSet(R) /\ IsFiniteSet(V) /\ V \in SUBSET V /\ Whole(G, R) = V
  BY DEF Parts, Counted
<1>2. FieldSum("visits", R) = Cardinality(V)
  <2> DEFINE M == [A \in SUBSET V |-> Cardinality(A)]
  <2>1. Additive(M, V)
    BY <1>1, CountAdditive
  <2>2. Grouped(R, "visits", G, M, V)
    BY DEF Parts, Grouped
  <2>3. M[V] = Cardinality(V)
    OBVIOUS
  <2> HIDE DEF M
  <2> QED
    BY <1>1, <2>1, <2>2, <2>3, SumOfGroups
<1>3. FieldSum("engaged", R) = FieldSum("engaged", V)
  <2> DEFINE M == [A \in SUBSET V |-> FieldSum("engaged", A)]
  <2>1. Additive(M, V)
    BY <1>1, FieldAdditive DEF Counted
  <2>2. Grouped(R, "engaged", G, M, V)
    BY DEF Parts, Grouped
  <2>3. M[V] = FieldSum("engaged", V)
    OBVIOUS
  <2> HIDE DEF M
  <2> QED
    BY <1>1, <2>1, <2>2, <2>3, SumOfGroups
<1>4. FieldSum("clicks", R) = FieldSum("clicks", V)
  <2> DEFINE M == [A \in SUBSET V |-> FieldSum("clicks", A)]
  <2>1. Additive(M, V)
    BY <1>1, FieldAdditive DEF Counted
  <2>2. Grouped(R, "clicks", G, M, V)
    BY DEF Parts, Grouped
  <2>3. M[V] = FieldSum("clicks", V)
    OBVIOUS
  <2> HIDE DEF M
  <2> QED
    BY <1>1, <2>1, <2>2, <2>3, SumOfGroups
<1> QED
  BY <1>2, <1>3, <1>4 DEF SameTotals

\* The page table adds up to its visits,
LEMMA PageTotals ==
    ASSUME NEW V, Counted(V)
    PROVE  SameTotals(PageDaily(V), V)
<1> DEFINE R(k) == PageRow(PageGroup(V, k), k)
           K == PageGroups(V)
           Rows == {R(k) : k \in K}
           G == [r \in Rows |-> PageGroup(V, <<r.date, r.rule, r.area>>)]
<1>1. PageDaily(V) = Rows
  BY PageRows
<1>2. \A k \in K : /\ k = <<k[1], k[2], k[3]>> /\ R(k).date = k[1] /\ R(k).rule = k[2] /\ R(k).area = k[3]
                   /\ R(k)["visits"] = Cardinality(PageGroup(V, k))
                   /\ R(k)["engaged"] = FieldSum("engaged", PageGroup(V, k))
                   /\ R(k)["clicks"] = FieldSum("clicks", PageGroup(V, k))
  BY DEF PageGroups, PageRow
<1>3. IsFiniteSet(Rows)
  <2> DEFINE f == [v \in V |-> R(<<Day(v.start), v.rule, v.area>>)]
  <2>1. Rows = {f[v] : v \in V}
    BY DEF PageGroups
  <2> HIDE DEF f, Rows
  <2> QED
    BY <2>1, ImageFinite DEF Counted
<1>4. \A k \in K : R(k) \in Rows /\ G[R(k)] = PageGroup(V, k)
  <2> HIDE DEF R, K
  <2> QED
    BY <1>2
<1>5. \A r \in Rows : \E k \in K : r = R(k)
  OBVIOUS
<1>6. ASSUME NEW v \in V, NEW k \in K
      PROVE  v \in PageGroup(V, k) <=> k = <<Day(v.start), v.rule, v.area>>
  <2>1. k = <<k[1], k[2], k[3]>>
    BY <1>2
  <2> HIDE DEF R, K, Rows, G
  <2> QED
    BY <2>1 DEF PageGroup
<1>7. \A v \in V : <<Day(v.start), v.rule, v.area>> \in K
  BY DEF PageGroups
<1>8. \A k : PageGroup(V, k) \subseteq V
  BY DEF PageGroup
<1> HIDE DEF R, K, Rows, G
<1>9. Parts(Rows, G, V)
  <2>1. ASSUME NEW r \in Rows
        PROVE  /\ G[r] \in SUBSET V /\ r["visits"] = Cardinality(G[r])
               /\ r["engaged"] = FieldSum("engaged", G[r]) /\ r["clicks"] = FieldSum("clicks", G[r])
    BY <1>2, <1>4, <1>5, <1>8
  <2>2. ASSUME NEW r \in Rows, NEW q \in Rows, r # q
        PROVE  G[r] \cap G[q] = {}
    <3>1. PICK k \in K, j \in K : r = R(k) /\ q = R(j)
      BY <1>5
    <3>2. G[r] = PageGroup(V, k) /\ G[q] = PageGroup(V, j) /\ k # j
      BY <1>4, <2>2, <3>1
    <3> QED
      BY <1>6, <1>8, <3>2
  <2>3. Whole(G, Rows) = V
    <3>1. \A v \in V : \E r \in Rows : v \in G[r]
      BY <1>4, <1>6, <1>7
    <3> QED
      BY <2>1, <3>1 DEF Whole
  <2> QED
    BY <1>3, <2>1, <2>2, <2>3 DEF Parts
<1> QED
  BY <1>1, <1>9, PartsTotal

\* and so does the table of URLs.
LEMMA RawTotals ==
    ASSUME NEW V, Counted(V)
    PROVE  SameTotals(RawPageDaily(V), V)
<1> DEFINE R(k) == RawRow(RawGroup(V, k), k)
           K == RawGroups(V)
           Rows == {R(k) : k \in K}
           G == [r \in Rows |-> RawGroup(V, <<r.date, r.url>>)]
<1>1. RawPageDaily(V) = Rows
  BY RawRows
<1>2. \A k \in K : /\ k = <<k[1], k[2]>> /\ R(k).date = k[1] /\ R(k).url = k[2]
                   /\ R(k)["visits"] = Cardinality(RawGroup(V, k))
                   /\ R(k)["engaged"] = FieldSum("engaged", RawGroup(V, k))
                   /\ R(k)["clicks"] = FieldSum("clicks", RawGroup(V, k))
  BY DEF RawGroups, RawRow
<1>3. IsFiniteSet(Rows)
  <2> DEFINE f == [v \in V |-> R(<<Day(v.start), v.url>>)]
  <2>1. Rows = {f[v] : v \in V}
    BY DEF RawGroups
  <2> HIDE DEF f, Rows
  <2> QED
    BY <2>1, ImageFinite DEF Counted
<1>4. \A k \in K : R(k) \in Rows /\ G[R(k)] = RawGroup(V, k)
  <2> HIDE DEF R, K
  <2> QED
    BY <1>2
<1>5. \A r \in Rows : \E k \in K : r = R(k)
  OBVIOUS
<1>6. ASSUME NEW v \in V, NEW k \in K
      PROVE  v \in RawGroup(V, k) <=> k = <<Day(v.start), v.url>>
  <2>1. k = <<k[1], k[2]>>
    BY <1>2
  <2> HIDE DEF R, K, Rows, G
  <2> QED
    BY <2>1 DEF RawGroup
<1>7. \A v \in V : <<Day(v.start), v.url>> \in K
  BY DEF RawGroups
<1>8. \A k : RawGroup(V, k) \subseteq V
  BY DEF RawGroup
<1> HIDE DEF R, K, Rows, G
<1>9. Parts(Rows, G, V)
  <2>1. ASSUME NEW r \in Rows
        PROVE  /\ G[r] \in SUBSET V /\ r["visits"] = Cardinality(G[r])
               /\ r["engaged"] = FieldSum("engaged", G[r]) /\ r["clicks"] = FieldSum("clicks", G[r])
    BY <1>2, <1>4, <1>5, <1>8
  <2>2. ASSUME NEW r \in Rows, NEW q \in Rows, r # q
        PROVE  G[r] \cap G[q] = {}
    <3>1. PICK k \in K, j \in K : r = R(k) /\ q = R(j)
      BY <1>5
    <3>2. G[r] = RawGroup(V, k) /\ G[q] = RawGroup(V, j) /\ k # j
      BY <1>4, <2>2, <3>1
    <3> QED
      BY <1>6, <1>8, <3>2
  <2>3. Whole(G, Rows) = V
    <3>1. \A v \in V : \E r \in Rows : v \in G[r]
      BY <1>4, <1>6, <1>7
    <3> QED
      BY <2>1, <3>1 DEF Whole
  <2> QED
    BY <1>3, <2>1, <2>2, <2>3 DEF Parts
<1> QED
  BY <1>1, <1>9, PartsTotal

\* The project has one row for a day, if there were visits.
LEMMA ProjectTotals ==
    ASSUME NEW V, Counted(V), NEW d, DayOf(V, d) = V
    PROVE  /\ SameTotals(ProjectDaily(V), V)
           /\ FieldSum("companies", ProjectDaily(V)) = Cardinality(Names(V, "company"))
           /\ FieldSum("users", ProjectDaily(V)) = Cardinality(Names(V, "user"))
<1>1. CASE V = {}
  <2>1. ProjectDaily(V) = {}
    BY <1>1, ProjectRows
  <2>2. Names({}, "company") = {} /\ Names({}, "user") = {} /\ Cardinality({}) = 0
    BY FS_EmptySet DEF Names
  <2> QED
    BY <1>1, <2>1, <2>2, FieldSumEmpty DEF SameTotals
<1>2. CASE V # {}
  <2> DEFINE r == ProjectRow(V, d)
  <2>1. {Day(v.start) : v \in V} = {d}
    BY <1>2 DEF DayOf
  <2>2. ProjectDaily(V) = {r}
    BY <2>1, ProjectRows
  <2>3. /\ r["visits"] = Cardinality(V) /\ r["engaged"] = FieldSum("engaged", V)
        /\ r["clicks"] = FieldSum("clicks", V) /\ r["companies"] = Cardinality(Names(V, "company"))
        /\ r["users"] = Cardinality(Names(V, "user"))
    BY DEF ProjectRow
  <2>4. \A f \in {"company", "user"} : IsFiniteSet(Names(V, f))
    <3> SUFFICES ASSUME NEW f PROVE IsFiniteSet(Names(V, f))
      OBVIOUS
    <3> DEFINE g == [v \in V |-> v[f]]
    <3>1. {v[f] : v \in V} = {g[v] : v \in V}
      OBVIOUS
    <3>2. IsFiniteSet({g[v] : v \in V})
      <4> HIDE DEF g
      <4> QED
        BY ImageFinite DEF Counted
    <3>3. IsFiniteSet({v[f] : v \in V})
      BY <3>1, <3>2
    <3> QED
      BY <3>3, FS_Subset DEF Names
  <2>5. /\ FieldSum("engaged", V) \in Nat /\ FieldSum("clicks", V) \in Nat /\ Cardinality(V) \in Nat
        /\ Cardinality(Names(V, "company")) \in Nat /\ Cardinality(Names(V, "user")) \in Nat
    BY <2>4, FieldSumStep, FS_CardinalityType DEF Counted
  <2> HIDE DEF r
  <2> QED
    BY <2>2, <2>3, <2>5, FieldSumOne DEF SameTotals
<1> QED
  BY <1>1, <1>2

----------------------------------------------------------------------------
(* The tables tell of the visits.                                          *)

\* Rows of days made again.
Replaced(old, new, from, to) == {r \in old : ~ (from <= r.date /\ r.date <= to)} \cup new

\* Rows made again are the new ones in the window, the old ones outside it.
LEMMA ReplacedOn ==
    ASSUME NEW old, NEW new, NEW from \in Int, NEW to \in Int, NEW d \in Int
    PROVE  /\ from <= d /\ d <= to => On(Replaced(old, new, from, to), d) = On(new, d)
           /\ ~ (from <= d /\ d <= to) /\ On(new, d) = {} => On(Replaced(old, new, from, to), d) = On(old, d)
BY DEF Replaced, On

\* The visits of one day that are in the reports.
EligibleOn(V, d) == DayOf(Eligible(V), d)

\* The visits on the days from..to.
Window(V, from, to) == {v \in V : OnDays(v.start, from, to)}

\* The tables a rebuild makes, from the visits of its window.
LEMMA AggregatedTables ==
    ASSUME NEW T, NEW V, NEW E, NEW from, NEW to
    PROVE  LET U == Aggregated(T, V, E, from, to)
               all == Window(V, from, to)
           IN  /\ U.pages = Replaced(T.pages, PageDaily(Eligible(all)), from, to)
               /\ U.raw = Replaced(T.raw, RawPageDaily(Eligible(all)), from, to)
               /\ U.project = Replaced(T.project, ProjectDaily(Eligible(all)), from, to)
               /\ U.companies = Replaced(T.companies, CompanyDaily(all), from, to)
               /\ U.users = Replaced(T.users, UserDaily(all), from, to)
               /\ U.actions = Replaced(T.actions, ActionDaily(E, V, from, to), from, to)
BY DEF Aggregated, Replaced, Window, Eligible

\* The visits of one day of a window.
LEMMA WindowOn ==
    ASSUME NEW V, NEW from \in Int, NEW to \in Int, NEW d \in Int
    PROVE  /\ from <= d /\ d <= to => /\ DayOf(Window(V, from, to), d) = DayOf(V, d)
                                      /\ EligibleOn(Window(V, from, to), d) = EligibleOn(V, d)
           /\ ~ (from <= d /\ d <= to) => /\ DayOf(Window(V, from, to), d) = {}
                                          /\ EligibleOn(Window(V, from, to), d) = {}
BY DEF EligibleOn, Eligible, DayOf, Window, OnDays

\* Of no visits there are no rows.
LEMMA NoRows ==
    /\ PageDaily({}) = {} /\ RawPageDaily({}) = {} /\ ProjectDaily({}) = {}
<1>1. PageGroups({}) = {} /\ RawGroups({}) = {} /\ {Day(v.start) : v \in {}} = {}
  BY DEF PageGroups, RawGroups
<1> QED
  BY <1>1, PageRows, RawRows, ProjectRows

\* No company's row is of a day without visits.
LEMMA CompanyDates ==
    ASSUME NEW V, NEW d, DayOf(V, d) = {}
    PROVE  On(CompanyDaily(V), d) = {} /\ On(UserDaily(V), d) = {}
<1>1. On(CompanyDaily(V), d) = {}
  <2> DEFINE R(k) == CompanyRow(CompanyGroup(V, k), k)
  <2>1. CompanyDaily(V) = {R(k) : k \in CompanyGroups(V)}
    BY CompanyTableRows
  <2>2. \A k : R(k).date = k[1]
    BY DEF CompanyRow
  <2>3. \A k \in CompanyGroups(V) : k[1] # d
    BY DEF CompanyGroups, DayOf
  <2> HIDE DEF R
  <2> QED
    BY <2>1, <2>2, <2>3 DEF On
<1>2. On(UserDaily(V), d) = {}
  <2> DEFINE R(k) == UserRow(UserGroup(V, k), k)
  <2>1. UserDaily(V) = {R(k) : k \in UserGroups(V)}
    BY UserTableRows
  <2>2. \A k : R(k).date = k[1]
    BY DEF UserRow
  <2>3. \A k \in UserGroups(V) : k[1] # d
    BY DEF UserGroups, DayOf
  <2> HIDE DEF R
  <2> QED
    BY <2>1, <2>2, <2>3 DEF On
<1> QED
  BY <1>1, <1>2

\* The tables of a day tell of the visits of the day.
DayTold(T, V, d) ==
    /\ On(T.pages, d) = PageDaily(EligibleOn(V, d))
    /\ On(T.raw, d) = RawPageDaily(EligibleOn(V, d))
    /\ On(T.project, d) = ProjectDaily(EligibleOn(V, d))
    /\ Names(On(T.companies, d), "company") = Names(DayOf(V, d), "company")
    /\ Names(On(T.users, d), "user") = Names(DayOf(V, d), "user")

\* Every table tells of the stored visits, on every day.
TablesTold == \A d \in Int : DayTold(tables, visits, d)

\* Tables made again for a window tell of the visits the rebuild stores.
LEMMA AggregatedTold ==
    ASSUME NEW T, NEW V, NEW W, NEW E, NEW from \in Int, NEW to \in Int,
           Beyond(W, from, to) = Beyond(V, from, to), NEW d \in Int, DayTold(T, V, d)
    PROVE  DayTold(Aggregated(T, W, E, from, to), W, d)
<1> DEFINE all == Window(W, from, to)
           U == Aggregated(T, W, E, from, to)
<1>1. /\ U.pages = Replaced(T.pages, PageDaily(Eligible(all)), from, to)
      /\ U.raw = Replaced(T.raw, RawPageDaily(Eligible(all)), from, to)
      /\ U.project = Replaced(T.project, ProjectDaily(Eligible(all)), from, to)
      /\ U.companies = Replaced(T.companies, CompanyDaily(all), from, to)
      /\ U.users = Replaced(T.users, UserDaily(all), from, to)
  BY AggregatedTables
<1>2. /\ On(PageDaily(Eligible(all)), d) = PageDaily(EligibleOn(all, d))
      /\ On(RawPageDaily(Eligible(all)), d) = RawPageDaily(EligibleOn(all, d))
      /\ On(ProjectDaily(Eligible(all)), d) = ProjectDaily(EligibleOn(all, d))
  BY PagesOn, RawOn, ProjectOn DEF EligibleOn
<1>3. CASE from <= d /\ d <= to
  <2>1. DayOf(all, d) = DayOf(W, d) /\ EligibleOn(all, d) = EligibleOn(W, d)
    BY <1>3, WindowOn
  <2>2. /\ Names(On(CompanyDaily(all), d), "company") = Names(DayOf(all, d), "company")
        /\ Names(On(UserDaily(all), d), "user") = Names(DayOf(all, d), "user")
    BY CompanyNames, UserNames
  <2> HIDE DEF all, U
  <2>3. /\ On(U.pages, d) = On(PageDaily(Eligible(all)), d)
        /\ On(U.raw, d) = On(RawPageDaily(Eligible(all)), d)
        /\ On(U.project, d) = On(ProjectDaily(Eligible(all)), d)
        /\ On(U.companies, d) = On(CompanyDaily(all), d)
        /\ On(U.users, d) = On(UserDaily(all), d)
    BY <1>1, <1>3, ReplacedOn
  <2>4. DayTold(U, W, d)
    BY <1>2, <2>1, <2>2, <2>3 DEF DayTold
  <2> QED
    BY <2>4 DEF U
<1>4. CASE ~ (from <= d /\ d <= to)
  <2>1. DayOf(all, d) = {} /\ EligibleOn(all, d) = {}
    BY <1>4, WindowOn
  <2>2. On(CompanyDaily(all), d) = {} /\ On(UserDaily(all), d) = {}
    BY <2>1, CompanyDates
  <2>3. DayOf(W, d) = DayOf(V, d)
    BY <1>4, DayBeyond
  <2>4. EligibleOn(W, d) = EligibleOn(V, d)
    BY <2>3 DEF EligibleOn, Eligible, DayOf
  <2> HIDE DEF all, U
  <2>5. /\ On(PageDaily(Eligible(all)), d) = {} /\ On(RawPageDaily(Eligible(all)), d) = {}
        /\ On(ProjectDaily(Eligible(all)), d) = {}
    BY <1>2, <2>1, NoRows
  <2>6. /\ On(U.pages, d) = On(T.pages, d) /\ On(U.raw, d) = On(T.raw, d)
        /\ On(U.project, d) = On(T.project, d) /\ On(U.companies, d) = On(T.companies, d)
        /\ On(U.users, d) = On(T.users, d)
    BY <1>1, <1>4, <2>2, <2>5, ReplacedOn
  <2>7. DayTold(U, W, d)
    BY <2>3, <2>4, <2>6 DEF DayTold
  <2> QED
    BY <2>7 DEF U
<1> QED
  BY <1>3, <1>4

\* Empty tables tell of no visits.
LEMMA ToldInit == Init => TablesTold
<1> SUFFICES ASSUME Init, NEW d \in Int PROVE DayTold(tables, visits, d)
  BY DEF TablesTold
<1>1. /\ visits = {} /\ tables.pages = {} /\ tables.raw = {} /\ tables.project = {}
      /\ tables.companies = {} /\ tables.users = {}
  BY DEF Init, NoTables
<1>2. EligibleOn({}, d) = {} /\ DayOf({}, d) = {} /\ On({}, d) = {}
  BY DEF EligibleOn, Eligible, DayOf, On
<1> QED
  BY <1>1, <1>2, NoRows DEF DayTold

\* Every step keeps TablesTold.
LEMMA ToldNext == FactsSound /\ TablesTold /\ [Next]_vars => TablesTold'
<1> SUFFICES ASSUME FactsSound, TablesTold, [Next]_vars PROVE TablesTold'
  OBVIOUS
<1>1. CASE Commit
  <2>1. /\ job.step = "judged" /\ visits' = job.visits
        /\ tables' = Aggregated(tables, job.visits, events, job.from, job.to)
    BY <1>1 DEF Commit
  <2>2. /\ job.from \in Int /\ job.to \in Int
        /\ Beyond(job.visits, job.from, job.to) = Beyond(visits, job.from, job.to)
    BY <2>1, JobSteps DEF FactsSound, JobSound, JobRecord
  <2>3. ASSUME NEW d \in Int
        PROVE  DayTold(Aggregated(tables, job.visits, events, job.from, job.to), job.visits, d)
    BY <2>2, AggregatedTold DEF TablesTold
  <2> QED
    BY <2>1, <2>3 DEF TablesTold
<1>2. CASE UNCHANGED <<visits, tables>>
  BY <1>2 DEF TablesTold
<1>3. ASSUME NEW e, Ingest(e) PROVE UNCHANGED <<visits, tables>>
  BY <1>3 DEF Ingest
<1>4. ASSUME NEW from, NEW to, Segment(from, to) PROVE UNCHANGED <<visits, tables>>
  BY <1>4 DEF Segment
<1> QED
  BY <1>1, <1>2, <1>3, <1>4 DEF Next, Wait, Judge, vars

\* The tables are those of the stored visits on every day, settled or not: visits and
\* tables change in one commit (services.py:1024-1085).
THEOREM TablesStayTold == Spec => []TablesTold
<1>1. Init => TablesTold
  BY ToldInit
<1>2. FactsSound /\ TablesTold /\ [Next]_vars => TablesTold'
  BY ToldNext
<1> QED
  BY <1>1, <1>2, FactsStaySound, PTL DEF Spec

\* On every day the pages, the URLs and the project have the same visits, engagement
\* and clicks, and the project counts the companies and users of their own tables
\* (queries.py:771-1022).
THEOREM DaysStayAlike == Spec => []DaysAgree
<1>1. FactsSound /\ TablesTold => DaysAgree
  <2> SUFFICES ASSUME FactsSound, TablesTold, NEW d \in Days
               PROVE  LET project == On(tables.project, d)
        IN  /\ \A rows \in {On(tables.pages, d), On(tables.raw, d)} :
                /\ Total(rows, LAMBDA r : r.visits) = Total(project, LAMBDA r : r.visits)
                /\ Total(rows, LAMBDA r : r.engaged) = Total(project, LAMBDA r : r.engaged)
                /\ Total(rows, LAMBDA r : r.clicks) = Total(project, LAMBDA r : r.clicks)
            /\ CountOf(On(tables.companies, d), LAMBDA r : r.company)
                   = Total(project, LAMBDA r : r.companies)
            /\ CountOf(On(tables.users, d), LAMBDA r : r.user)
                   = Total(project, LAMBDA r : r.users)
    BY DEF DaysAgree
  <2> DEFINE V == EligibleOn(visits, d)
             P == On(tables.project, d)
  <2>1. d \in Int
    BY DEF Days
  <2>2. DayTold(tables, visits, d)
    BY <2>1 DEF TablesTold
  <2>3. Counted(V) /\ DayOf(V, d) = V
    BY FS_Subset DEF FactsSound, VisitsSound, Counted, EligibleOn, Eligible, DayOf
  <2>4. \A rows \in {On(tables.pages, d), On(tables.raw, d)} : SameTotals(rows, V)
    <3> HIDE DEF V
    <3>1. SameTotals(PageDaily(V), V) /\ SameTotals(RawPageDaily(V), V)
      BY <2>3, PageTotals, RawTotals
    <3> QED
      BY <2>2, <3>1 DEF DayTold, V
  <2>5. /\ SameTotals(P, V)
        /\ FieldSum("companies", P) = Cardinality(Names(V, "company"))
        /\ FieldSum("users", P) = Cardinality(Names(V, "user"))
    <3> HIDE DEF V
    <3> QED
      BY <2>2, <2>3, ProjectTotals DEF DayTold, V
  <2>6. /\ Names(On(tables.companies, d), "company") = Names(V, "company")
        /\ Names(On(tables.users, d), "user") = Names(V, "user")
    <3>1. \A v \in visits : ~ v.eligible => v.user = None /\ v.company = None
      BY DEF FactsSound, Unaffected
    <3>2. /\ Names(DayOf(visits, d), "company") = Names(V, "company")
          /\ Names(DayOf(visits, d), "user") = Names(V, "user")
      BY <3>1 DEF Names, EligibleOn, Eligible, DayOf
    <3> QED
      BY <2>2, <3>2 DEF DayTold
  <2>7. /\ CountOf(On(tables.companies, d), LAMBDA r : r.company) = Cardinality(Names(V, "company"))
        /\ CountOf(On(tables.users, d), LAMBDA r : r.user) = Cardinality(Names(V, "user"))
    <3> HIDE DEF V
    <3> QED
      BY <2>6 DEF CountOf, Names
  <2>8. /\ Total(P, LAMBDA r : r.visits) = FieldSum("visits", P)
        /\ Total(P, LAMBDA r : r.engaged) = FieldSum("engaged", P)
        /\ Total(P, LAMBDA r : r.clicks) = FieldSum("clicks", P)
        /\ Total(P, LAMBDA r : r.companies) = FieldSum("companies", P)
        /\ Total(P, LAMBDA r : r.users) = FieldSum("users", P)
    <3> HIDE DEF P
    <3> QED
      BY DEF Total, FieldSum, MapThenSumSet, MapThenFoldSet
  <2>9. ASSUME NEW rows \in {On(tables.pages, d), On(tables.raw, d)}
        PROVE  /\ Total(rows, LAMBDA r : r.visits) = Total(P, LAMBDA r : r.visits)
               /\ Total(rows, LAMBDA r : r.engaged) = Total(P, LAMBDA r : r.engaged)
               /\ Total(rows, LAMBDA r : r.clicks) = Total(P, LAMBDA r : r.clicks)
    <3>1. /\ Total(rows, LAMBDA r : r.visits) = FieldSum("visits", rows)
          /\ Total(rows, LAMBDA r : r.engaged) = FieldSum("engaged", rows)
          /\ Total(rows, LAMBDA r : r.clicks) = FieldSum("clicks", rows)
      BY DEF Total, FieldSum, MapThenSumSet, MapThenFoldSet
    <3> HIDE DEF P, V
    <3> QED
      BY <2>4, <2>5, <2>8, <2>9, <3>1 DEF SameTotals
  <2>10. /\ CountOf(On(tables.companies, d), LAMBDA r : r.company)
               = Total(P, LAMBDA r : r.companies)
         /\ CountOf(On(tables.users, d), LAMBDA r : r.user)
               = Total(P, LAMBDA r : r.users)
    <3> HIDE DEF P, V
    <3> QED
      BY <2>5, <2>7, <2>8
  <2> QED
    BY <2>9, <2>10
<1> QED
  BY <1>1, FactsStaySound, TablesStayTold, PTL

----------------------------------------------------------------------------
(* Clicks and the visits they fall into.                                   *)

\* An event is of a visit when no visit begins between them.
LEMMA VisitMembers ==
    ASSUME NEW F, NEW b, NEW f
    PROVE  f \in EventsOfVisit(F, b) <=>
             /\ f \in F /\ f.session = b.session
             /\ \A s \in F : s.session = b.session /\ StartsVisit(F, s) => (s.ts <= b.ts <=> s.ts <= f.ts)
BY DEF EventsOfVisit

\* Each event of a visit but the first follows one of the same URL within the timeout.
LEMMA Predecessor ==
    ASSUME NEW F, \A f \in F : f.ts \in Nat, NEW b \in F, NEW q \in EventsOfVisit(F, b), b.ts < q.ts
    PROVE  \E p \in EventsOfVisit(F, b) : /\ p.ts < q.ts /\ q.ts - p.ts <= Timeout
                                          /\ p.page.url = q.page.url
<1>1. /\ q \in F /\ q.session = b.session
      /\ \A s \in F : s.session = b.session /\ StartsVisit(F, s) => (s.ts <= b.ts <=> s.ts <= q.ts)
  BY VisitMembers
<1>2. ~ StartsVisit(F, q)
  BY <1>1
<1>3. PICK p \in Previous(F, q) : p.page.url = q.page.url /\ ~ (q.ts - p.ts > Timeout)
  BY <1>2 DEF StartsVisit
<1>4. /\ p \in F /\ p.session = q.session /\ p.ts < q.ts
      /\ ~ \E x \in F : x.session = q.session /\ p.ts < x.ts /\ x.ts < q.ts
  BY DEF Previous
<1>5. b.ts <= p.ts
  BY <1>1, <1>4
<1>6. p \in EventsOfVisit(F, b)
  <2>1. ASSUME NEW s \in F, s.session = b.session, StartsVisit(F, s)
        PROVE  s.ts <= b.ts <=> s.ts <= p.ts
    BY <1>1, <1>4, <1>5, <2>1
  <2> QED
    BY <1>1, <1>4, <2>1, VisitMembers
<1> QED
  BY <1>1, <1>3, <1>4, <1>6, Lengths

\* No scope begins within a visit.
LEMMA VisitInScope ==
    ASSUME NEW E, EventsSound(E), NEW b \in WithUrl(E), NEW last \in EventsOfVisit(WithUrl(E), b),
           NEW e \in E, SameVisitor(e, b), b.ts <= e.ts, e.ts <= last.ts
    PROVE  e \in Scope(E, b)
<1> DEFINE F == WithUrl(E)
           es == EventsOfVisit(F, b)
<1>1. F \subseteq E /\ b \in E /\ \A f \in E : f.ts \in Nat
  BY EventTyped DEF WithUrl
<1>2. \A f \in es : f \in F /\ f \in E /\ f.session = b.session
  BY <1>1, VisitMembers
<1>3. ASSUME NEW s \in E, SameVisitor(s, b), StartsScope(E, s), b.ts < s.ts, s.ts <= e.ts
      PROVE  FALSE
  <2> DEFINE late == {f \in es : s.ts <= f.ts}
  <2>1. last \in late
    BY <1>1, <1>2, <1>3
  <2>2. PICK q \in late : \A f \in late : q.ts <= f.ts
    <3>1. \A f \in late : f.ts \in Nat
      BY <1>1, <1>2
    <3> HIDE DEF late
    <3> QED
      BY <2>1, <3>1, EarliestEvent
  <2>3. q \in es /\ s.ts <= q.ts /\ q \in E
    BY <1>2, <2>2
  <2>4. PICK p \in es : p.ts < q.ts /\ q.ts - p.ts <= Timeout
    <3>1. b.ts < q.ts
      BY <1>1, <1>3, <2>3
    <3> HIDE DEF late
    <3> QED
      BY <1>1, <2>3, <3>1, Predecessor
  <2>5. p \in E /\ p.session = b.session
    BY <1>2
  <2>6. p.ts < s.ts
    BY <1>1, <1>3, <2>2, <2>3, <2>4, <2>5
  <2>7. s.ts - p.ts <= Timeout
    BY <1>1, <1>3, <2>3, <2>4, <2>5, <2>6, Lengths
  <2>8. Visitor[p.session] = Visitor[s.session]
    BY <1>3, <2>5 DEF SameVisitor
  <2> QED
    BY <1>3, <2>5, <2>6, <2>7, <2>8 DEF StartsScope
<1>4. ASSUME NEW s \in E, SameVisitor(s, b), StartsScope(E, s)
      PROVE  s.ts <= b.ts <=> s.ts <= e.ts
  BY <1>1, <1>3, <1>4
<1> QED
  BY <1>4, ScopeMembers

\* An event falls into the visit that begins last before it.
LEMMA VisitHolding ==
    ASSUME NEW E, EventsSound(E), NEW e \in WithUrl(E)
    PROVE  \E b \in WithUrl(E) : /\ StartsVisit(WithUrl(E), b) /\ b.session = e.session /\ b.ts <= e.ts
                                 /\ e \in EventsOfVisit(WithUrl(E), b) /\ b.page.url = e.page.url
<1> DEFINE F == WithUrl(E)
           Mine == {f \in F : f.session = e.session}
           Starts == {f \in Mine : StartsVisit(F, f) /\ f.ts <= e.ts}
<1>1. \A f \in F : f.ts \in Nat
  BY EventTyped DEF WithUrl
<1>2. PICK first \in Mine : \A f \in Mine : first.ts <= f.ts
  <2>1. Mine # {} /\ \A f \in Mine : f.ts \in Nat
    BY <1>1
  <2> HIDE DEF Mine
  <2> QED
    BY <2>1, EarliestEvent
<1>3. first \in Starts
  <2>1. Previous(F, first) = {}
    BY <1>1, <1>2 DEF Previous
  <2> QED
    BY <1>2, <2>1 DEF StartsVisit
<1>4. PICK b \in Starts : \A f \in Starts : f.ts <= b.ts
  <2>1. Starts # {} /\ \A f \in Starts : f.ts \in Nat /\ f.ts <= e.ts
    BY <1>1, <1>3
  <2>2. e.ts \in Nat
    BY <1>1
  <2> HIDE DEF Starts
  <2> QED
    BY <2>1, <2>2, LatestEvent
<1>5. b \in F /\ b.session = e.session /\ StartsVisit(F, b) /\ b.ts <= e.ts
  BY <1>4
<1>6. e \in EventsOfVisit(F, b)
  <2>1. ASSUME NEW s \in F, s.session = b.session, StartsVisit(F, s)
        PROVE  s.ts <= b.ts <=> s.ts <= e.ts
    <3>1. s.ts <= e.ts => s \in Starts
      BY <1>5, <2>1
    <3> QED
      BY <1>1, <1>4, <1>5, <3>1
  <2> QED
    BY <1>5, <2>1, VisitMembers
<1> DEFINE Odd == {f \in EventsOfVisit(F, b) : f.ts >= b.ts /\ f.page.url # b.page.url}
<1>7. Odd = {}
  <2> SUFFICES ASSUME Odd # {} PROVE FALSE
    OBVIOUS
  <2>1. PICK q \in Odd : \A f \in Odd : q.ts <= f.ts
    <3>1. \A f \in Odd : f.ts \in Nat
      BY <1>1, VisitMembers
    <3> HIDE DEF Odd
    <3> QED
      BY <3>1, EarliestEvent
  <2>2. q \in F /\ q.session = b.session /\ q \in EventsOfVisit(F, b) /\ b \in E /\ q \in E
    BY <1>5, VisitMembers DEF WithUrl
  <2>3. b.ts < q.ts
    <3>1. b.ts = q.ts => b = q
      BY <2>2 DEF EventsSound
    <3> QED
      BY <1>1, <1>5, <2>1, <2>2, <3>1
  <2>4. PICK p \in EventsOfVisit(F, b) : p.ts < q.ts /\ p.page.url = q.page.url
    <3> HIDE DEF F, Odd
    <3> QED
      BY <1>1, <1>5, <2>2, <2>3, Predecessor
  <2>5. p \in F /\ p.session = b.session /\ (b.ts <= b.ts <=> b.ts <= p.ts)
    BY <1>5, VisitMembers
  <2>6. p \in Odd
    BY <1>1, <1>5, <2>1, <2>4, <2>5
  <2> QED
    BY <1>1, <2>1, <2>2, <2>4, <2>5, <2>6
<1>8. b.page.url = e.page.url
  BY <1>1, <1>5, <1>6, <1>7
<1> QED
  BY <1>5, <1>6, <1>8

\* A visit ends with the last of its events.
LEMMA VisitEnds ==
    ASSUME NEW E, EventsSound(E), NEW b \in WithUrl(E)
    PROVE  \E last \in EventsOfVisit(WithUrl(E), b) :
             /\ Max({f.ts : f \in EventsOfVisit(WithUrl(E), b)}) = last.ts
             /\ \A f \in EventsOfVisit(WithUrl(E), b) : f.ts <= last.ts
<1> DEFINE es == EventsOfVisit(WithUrl(E), b)
           T == {f.ts : f \in es}
<1>1. es \subseteq E /\ IsFiniteSet(es) /\ b \in es
  <2>1. es \subseteq E
    BY VisitMembers DEF WithUrl
  <2>2. b \in es
    BY VisitMembers
  <2> QED
    BY <2>1, <2>2, FS_Subset DEF EventsSound
<1>2. T \subseteq Nat /\ T # {}
  BY <1>1, EventTyped
<1>3. IsFiniteSet(T)
  <2> DEFINE g == [f \in es |-> f.ts]
  <2>1. T = {g[f] : f \in es}
    OBVIOUS
  <2> HIDE DEF g, T, es
  <2> QED
    BY <1>1, <2>1, ImageFinite
<1>4. Max(T) \in T /\ \A y \in T : y <= Max(T)
  <2> HIDE DEF T
  <2> QED
    BY <1>2, <1>3, GreatestIn
<1> HIDE DEF es
<1>5. PICK last \in es : last.ts = Max(T)
  BY <1>4
<1>6. \A f \in es : f.ts <= last.ts
  BY <1>4, <1>5
<1> QED
  BY <1>5, <1>6 DEF es

\* A visit is taken out if the scope that it begins in is.
LEMMA ExcludedByScope ==
    ASSUME NEW E, EventsSound(E), NEW b \in E, NEW m,
           NEW v, v.start = b.ts, v.session = b.session
    PROVE  IsExcluded(E, v, m) <=> LowConfidence(E, b, m)
<1>1. \A f \in E : f.ts \in Nat
  BY EventTyped
<1>2. ASSUME IsExcluded(E, v, m) PROVE LowConfidence(E, b, m)
  <2>1. PICK x \in E : /\ Visitor[x.session] = Visitor[v.session] /\ LowConfidence(E, x, m)
                       /\ \E f, g \in Scope(E, x) : f.ts <= v.start /\ v.start <= g.ts
    BY <1>2 DEF IsExcluded
  <2>2. PICK f \in Scope(E, x), g \in Scope(E, x) : f.ts <= v.start /\ v.start <= g.ts
    BY <2>1
  <2>3. ASSUME NEW s \in E, SameVisitor(s, x), StartsScope(E, s)
        PROVE  s.ts <= x.ts <=> s.ts <= b.ts
    <3>1. (s.ts <= x.ts <=> s.ts <= f.ts) /\ (s.ts <= x.ts <=> s.ts <= g.ts) /\ f \in E /\ g \in E
      BY <2>3, ScopeMembers
    <3> QED
      BY <1>1, <2>2, <3>1
  <2>4. b \in Scope(E, x)
    BY <2>1, <2>3, ScopeMembers DEF SameVisitor
  <2>5. Scope(E, b) = Scope(E, x)
    BY <2>4, ScopeOfMember
  <2> QED
    BY <2>1, <2>5 DEF LowConfidence
<1>3. ASSUME LowConfidence(E, b, m) PROVE IsExcluded(E, v, m)
  <2>1. b \in Scope(E, b)
    BY ScopeMembers DEF SameVisitor
  <2>2. b.ts <= v.start /\ v.start <= b.ts
    BY <1>1
  <2> QED
    BY <1>3, <2>1, <2>2 DEF IsExcluded
<1> QED
  BY <1>2, <1>3

\* A visit that a click falls into is taken out if the click is of low confidence.
LEMMA ClickJudged ==
    ASSUME NEW E, EventsSound(E), NEW e \in WithUrl(E), NEW b \in WithUrl(E), NEW m,
           Fact(E, b, m).session = e.session, Fact(E, b, m).start <= e.ts, e.ts <= Fact(E, b, m).end
    PROVE  Fact(E, b, m).eligible <=> ~ LowConfidence(E, e, m)
<1>1. /\ b.session = e.session /\ b.ts <= e.ts
      /\ e.ts <= Max({f.ts : f \in EventsOfVisit(WithUrl(E), b)})
      /\ Fact(E, b, m).eligible = ~ IsExcluded(E, VisitFrom(WithUrl(E), b), m)
  BY FactFields
<1>2. PICK last \in EventsOfVisit(WithUrl(E), b) : e.ts <= last.ts
  BY <1>1, VisitEnds
<1>3. e \in E /\ b \in E /\ SameVisitor(e, b)
  BY <1>1 DEF WithUrl, SameVisitor
<1>4. e \in Scope(E, b)
  BY <1>1, <1>2, <1>3, VisitInScope
<1>5. Scope(E, e) = Scope(E, b) /\ Visitor[e.session] = Visitor[b.session]
  BY <1>3, <1>4, ScopeOfMember DEF SameVisitor
<1>6. LowConfidence(E, e, m) <=> LowConfidence(E, b, m)
  BY <1>5 DEF LowConfidence
<1>7. IsExcluded(E, VisitFrom(WithUrl(E), b), m) <=> LowConfidence(E, b, m)
  <2> DEFINE v == VisitFrom(WithUrl(E), b)
  <2>1. v.start = b.ts /\ v.session = b.session
    BY VisitFields
  <2> HIDE DEF v
  <2>2. IsExcluded(E, v, m) <=> LowConfidence(E, b, m)
    BY <1>3, <2>1, ExcludedByScope
  <2> QED
    BY <2>2 DEF v
<1> QED
  BY <1>1, <1>6, <1>7

----------------------------------------------------------------------------
(* The rows of the actions.                                                *)

\* The clicks behind a row of the action table,
ActionGroup(C, k) == {e \in C : Day(e.ts) = k[1] /\ e.page.url = k[2]}

\* the row,
ActionRow(g, k, V) ==
    [date |-> k[1], url |-> k[2], clicks |-> Cardinality(g),
     users |-> Cardinality({Identity[e.session].user : e \in g} \ {None}),
     companies |-> Cardinality({Identity[e.session].company : e \in g} \ {None}),
     visits |-> Cardinality(UNION {VisitsAt(V, e) : e \in g})]

\* the keys of its rows,
ActionGroups(C) == {<<Day(e.ts), e.page.url>> : e \in C}

\* and the rows.
ActionRowsOf(C, V) == {ActionRow(ActionGroup(C, k), k, V) : k \in ActionGroups(C)}

\* The action table has one row for each key.
LEMMA ActionRows ==
    ASSUME NEW E, NEW V, NEW from, NEW to
    PROVE  ActionDaily(E, V, from, to) = ActionRowsOf(CountedClicks(E, V, from, to), V)
BY DEF ActionDaily, ActionRowsOf, ActionRow, ActionGroup, ActionGroups, CountOf

\* The rows of a day are made from the clicks of the day.
LEMMA ActionsOn ==
    ASSUME NEW E, EventsSound(E), NEW V, NEW from \in Int, NEW to \in Int, NEW d \in Int
    PROVE  /\ from <= d /\ d <= to => On(ActionDaily(E, V, from, to), d) = ActionDaily(E, V, d, d)
           /\ ~ (from <= d /\ d <= to) => On(ActionDaily(E, V, from, to), d) = {}
<1> DEFINE C == CountedClicks(E, V, from, to)
           D == CountedClicks(E, V, d, d)
           R(k) == ActionRow(ActionGroup(C, k), k, V)
           S(k) == ActionRow(ActionGroup(D, k), k, V)
<1>1. \A e \in WithUrl(E) : Day(e.ts) \in Nat
  BY EventTyped DEF WithUrl
<1>2. C \subseteq WithUrl(E) /\ D \subseteq WithUrl(E)
  BY DEF CountedClicks
<1>3. \A e \in C : from <= Day(e.ts) /\ Day(e.ts) <= to
  BY DEF CountedClicks, OnDays
<1>4. \A k : R(k).date = k[1]
  BY DEF ActionRow
<1>5. ActionDaily(E, V, from, to) = {R(k) : k \in ActionGroups(C)}
  BY ActionRows DEF ActionRowsOf
<1>6. ActionDaily(E, V, d, d) = {S(k) : k \in ActionGroups(D)}
  BY ActionRows DEF ActionRowsOf
<1>7. CASE from <= d /\ d <= to
  <2>1. \A e : e \in D <=> e \in C /\ Day(e.ts) = d
    BY <1>1, <1>7 DEF CountedClicks, OnDays
  <2> HIDE DEF C, D
  <2>2. \A k : k \in ActionGroups(D) <=> k \in ActionGroups(C) /\ k[1] = d
    BY <2>1 DEF ActionGroups
  <2>3. \A k : k[1] = d => R(k) = S(k)
    <3>1. \A k : k[1] = d => ActionGroup(C, k) = ActionGroup(D, k)
      BY <2>1 DEF ActionGroup
    <3> QED
      BY <3>1
  <2> HIDE DEF R, S
  <2>4. On({R(k) : k \in ActionGroups(C)}, d) = {S(k) : k \in ActionGroups(D)}
    BY <1>4, <2>2, <2>3 DEF On
  <2> QED
    BY <1>5, <1>6, <1>7, <2>4
<1>8. CASE ~ (from <= d /\ d <= to)
  <2>1. \A k \in ActionGroups(C) : k[1] # d
    BY <1>3, <1>8 DEF ActionGroups
  <2> HIDE DEF R, C
  <2>2. On({R(k) : k \in ActionGroups(C)}, d) = {}
    BY <1>4, <2>1 DEF On
  <2> QED
    BY <1>5, <1>8, <2>2
<1> QED
  BY <1>7, <1>8

\* The visits an event falls into begin on its day or on the day before.
LEMMA VisitsAtNear ==
    ASSUME NEW E, EventsSound(E), NEW V, VisitsSound(V, E), NEW e \in E, NEW v \in VisitsAt(V, e)
    PROVE  Day(v.start) = Day(e.ts) \/ Day(v.start) = Day(e.ts) - 1
<1>1. v \in V /\ v.session = e.session /\ v.start <= e.ts
  BY DEF VisitsAt
<1>2. PICK f \in E : v.session = f.session /\ v.start = f.ts
  BY <1>1 DEF VisitsSound
<1>3. Apart(f.ts, e.ts) <= MaxDuration /\ f.ts \in Nat /\ e.ts \in Nat
  BY <1>1, <1>2, EventTyped DEF EventsSound
<1>4. e.ts <= f.ts + DayLength
  BY <1>1, <1>2, <1>3, Lengths DEF Apart
<1>5. Day(e.ts) <= Day(f.ts) + 1 /\ Day(f.ts) <= Day(e.ts)
  BY <1>1, <1>2, <1>3, <1>4, DaysNear, DaysOrdered
<1>6. Day(e.ts) \in Nat /\ Day(f.ts) \in Nat
  BY <1>3, DayBounds
<1> QED
  BY <1>2, <1>5, <1>6

\* So the rows of a day are made from the visits of two days.
LEMMA ActionsAlike ==
    ASSUME NEW E, EventsSound(E), NEW V, VisitsSound(V, E), NEW W, VisitsSound(W, E), NEW d \in Int,
           DayOf(V, d) = DayOf(W, d), DayOf(V, d - 1) = DayOf(W, d - 1)
    PROVE  ActionDaily(E, V, d, d) = ActionDaily(E, W, d, d)
<1>1. ASSUME NEW e \in E, Day(e.ts) = d
      PROVE  VisitsAt(V, e) = VisitsAt(W, e)
  <2>1. \A v : Day(v.start) = d \/ Day(v.start) = d - 1 => (v \in V <=> v \in W)
    BY DEF DayOf
  <2>2. \A v \in VisitsAt(V, e) \cup VisitsAt(W, e) : Day(v.start) = d \/ Day(v.start) = d - 1
    BY <1>1, VisitsAtNear
  <2> QED
    BY <2>1, <2>2 DEF VisitsAt
<1>2. \A e \in WithUrl(E) : OnDays(e.ts, d, d) => e \in E /\ Day(e.ts) = d
  BY EventTyped DEF WithUrl, OnDays
<1> DEFINE C == CountedClicks(E, V, d, d)
<1>3. CountedClicks(E, W, d, d) = C
  BY <1>1, <1>2 DEF CountedClicks
<1>4. \A e \in C : VisitsAt(V, e) = VisitsAt(W, e)
  BY <1>1, <1>2 DEF CountedClicks
<1> HIDE DEF C
<1>5. \A k : ActionRow(ActionGroup(C, k), k, V) = ActionRow(ActionGroup(C, k), k, W)
  <2> SUFFICES ASSUME NEW k
               PROVE  ActionRow(ActionGroup(C, k), k, V) = ActionRow(ActionGroup(C, k), k, W)
    OBVIOUS
  <2> DEFINE g == ActionGroup(C, k)
  <2>1. \A e \in g : VisitsAt(V, e) = VisitsAt(W, e)
    BY <1>4 DEF ActionGroup
  <2> HIDE DEF g
  <2>2. UNION {VisitsAt(V, e) : e \in g} = UNION {VisitsAt(W, e) : e \in g}
    BY <2>1
  <2>3. ActionRow(g, k, V) = ActionRow(g, k, W)
    BY <2>2 DEF ActionRow
  <2> QED
    BY <2>3 DEF g
<1>6. ActionRowsOf(C, V) = ActionRowsOf(C, W)
  BY <1>5 DEF ActionRowsOf
<1> QED
  BY <1>3, <1>6, ActionRows DEF C

\* Each click is in one row.
LEMMA ActionTotal ==
    ASSUME NEW C, IsFiniteSet(C), NEW V
    PROVE  FieldSum("clicks", ActionRowsOf(C, V)) = Cardinality(C)
<1> DEFINE R(k) == ActionRow(ActionGroup(C, k), k, V)
           K == ActionGroups(C)
           Rows == {R(k) : k \in K}
           G == [r \in Rows |-> ActionGroup(C, <<r.date, r.url>>)]
           M == [A \in SUBSET C |-> Cardinality(A)]
<1>1. ActionRowsOf(C, V) = Rows
  BY DEF ActionRowsOf
<1>2. \A k \in K : /\ k = <<k[1], k[2]>> /\ R(k).date = k[1] /\ R(k).url = k[2]
                   /\ R(k)["clicks"] = Cardinality(ActionGroup(C, k))
  BY DEF ActionGroups, ActionRow
<1>3. IsFiniteSet(Rows)
  <2> DEFINE f == [e \in C |-> R(<<Day(e.ts), e.page.url>>)]
  <2>1. Rows = {f[e] : e \in C}
    BY DEF ActionGroups
  <2> HIDE DEF f, Rows
  <2> QED
    BY <2>1, ImageFinite
<1>4. \A k \in K : R(k) \in Rows /\ G[R(k)] = ActionGroup(C, k)
  <2> HIDE DEF R, K
  <2> QED
    BY <1>2
<1>5. \A r \in Rows : \E k \in K : r = R(k)
  OBVIOUS
<1>6. ASSUME NEW e \in C, NEW k \in K
      PROVE  e \in ActionGroup(C, k) <=> k = <<Day(e.ts), e.page.url>>
  <2>1. k = <<k[1], k[2]>>
    BY <1>2
  <2> HIDE DEF R, K, Rows, G, M
  <2> QED
    BY <2>1 DEF ActionGroup
<1>7. \A e \in C : <<Day(e.ts), e.page.url>> \in K
  BY DEF ActionGroups
<1>8. \A k : ActionGroup(C, k) \in SUBSET C
  BY DEF ActionGroup
<1>9. Additive(M, C) /\ M[C] = Cardinality(C) /\ \A k : M[ActionGroup(C, k)] = Cardinality(ActionGroup(C, k))
  BY <1>8, CountAdditive
<1> HIDE DEF R, K, Rows, G, M
<1>10. Grouped(Rows, "clicks", G, M, C)
  <2>1. ASSUME NEW r \in Rows
        PROVE  G[r] \in SUBSET C /\ r["clicks"] = M[G[r]]
    BY <1>2, <1>4, <1>5, <1>8, <1>9
  <2>2. ASSUME NEW r \in Rows, NEW q \in Rows, r # q
        PROVE  G[r] \cap G[q] = {}
    <3>1. PICK k \in K, j \in K : r = R(k) /\ q = R(j)
      BY <1>5
    <3>2. G[r] = ActionGroup(C, k) /\ G[q] = ActionGroup(C, j) /\ k # j
      BY <1>4, <2>2, <3>1
    <3> QED
      BY <1>6, <1>8, <3>2
  <2> QED
    BY <2>1, <2>2 DEF Grouped
<1>11. Whole(G, Rows) = C
  <2>1. \A e \in C : \E r \in Rows : e \in G[r]
    BY <1>4, <1>6, <1>7
  <2>2. \A r \in Rows : G[r] \in SUBSET C
    BY <1>10 DEF Grouped
  <2> QED
    BY <2>1, <2>2 DEF Whole
<1> QED
  BY <1>1, <1>3, <1>9, <1>10, <1>11, SumOfGroups

----------------------------------------------------------------------------
(* Clicks counted once.                                                    *)

\* On a settled day the action table is that of the stored events and visits.
ActionsTold == \A d \in settled : On(tables.actions, d) = ActionDaily(events, visits, d, d)

\* No day is settled at first.
LEMMA ActionsInit == Init => ActionsTold
BY DEF Init, ActionsTold

\* The actions of a window are counted from the events the visits were cut from.
LEMMA ActionsCommit ==
    ASSUME FactsSound, FactsFresh, FactsFresh', ActionsTold, Commit
    PROVE  ActionsTold'
<1> DEFINE U == Aggregated(tables, job.visits, events, job.from, job.to)
<1>1. /\ job.step = "judged" /\ visits' = job.visits /\ tables' = U
      /\ events' = events /\ now' = now
      /\ settled' = IF job.outdated THEN {}
                    ELSE settled \cup {d \in job.from .. job.to :
                                          d = 0 \/ d - 1 \in settled \/ d > job.from}
  BY DEF Commit
<1>2. /\ JobRecord /\ VisitsSound(job.visits, events) /\ EventsSound(events)
      /\ VisitsSound(visits, events)
      /\ Beyond(job.visits, job.from, job.to) = Beyond(visits, job.from, job.to)
  BY <1>1, JobSteps DEF FactsSound, JobSound
<1>3. job.from \in Int /\ job.to \in Int
  BY <1>2 DEF JobRecord
<1>4. U.actions = Replaced(tables.actions, ActionDaily(events, job.visits, job.from, job.to), job.from, job.to)
  BY AggregatedTables
<1> HIDE DEF U
<1>5. ASSUME NEW d \in settled'
      PROVE  On(U.actions, d) = ActionDaily(events, job.visits, d, d)
  <2>1. d \in Int
    BY DEF FactsFresh, SettledSound
  <2>2. CASE job.from <= d /\ d <= job.to
    <3>1. On(ActionDaily(events, job.visits, job.from, job.to), d) = ActionDaily(events, job.visits, d, d)
      BY <1>2, <1>3, <2>1, <2>2, ActionsOn
    <3> QED
      BY <1>3, <1>4, <2>1, <2>2, <3>1, ReplacedOn
  <2>3. CASE ~ (job.from <= d /\ d <= job.to)
    <3>1. d \in settled
      BY <1>1, <1>3, <2>1, <2>3
    <3>2. On(ActionDaily(events, job.visits, job.from, job.to), d) = {}
      BY <1>2, <1>3, <2>1, <2>3, ActionsOn
    <3>3. On(U.actions, d) = On(tables.actions, d)
      BY <1>3, <1>4, <2>1, <2>3, <3>2, ReplacedOn
    <3>4. DaySettled(d) /\ DaySettled(d - 1)
      BY <3>1 DEF FactsFresh, SettledSound
    <3>5. DaySettled(d)' /\ DaySettled(d - 1)'
      BY DEF FactsFresh, SettledSound
    <3>6. DayOf(visits, d) = DayOf(job.visits, d) /\ DayOf(visits, d - 1) = DayOf(job.visits, d - 1)
      BY <1>1, <3>4, <3>5 DEF DaySettled
    <3>7. ActionDaily(events, visits, d, d) = ActionDaily(events, job.visits, d, d)
      BY <1>2, <2>1, <3>6, ActionsAlike
    <3> QED
      BY <3>1, <3>3, <3>7 DEF ActionsTold
  <2> QED
    BY <2>2, <2>3
<1> QED
  BY <1>1, <1>5 DEF ActionsTold

\* Every step keeps ActionsTold.
LEMMA ActionsNext == FactsSound /\ FactsFresh /\ FactsFresh' /\ ActionsTold /\ [Next]_vars => ActionsTold'
<1> SUFFICES ASSUME FactsSound, FactsFresh, FactsFresh', ActionsTold, [Next]_vars PROVE ActionsTold'
  OBVIOUS
<1>1. CASE Commit
  BY <1>1, ActionsCommit
<1>2. CASE UNCHANGED <<events, visits, tables, settled>>
  BY <1>2 DEF ActionsTold
<1>3. CASE settled' = {}
  BY <1>3 DEF ActionsTold
<1>4. ASSUME NEW e, Ingest(e) PROVE settled' = {}
  BY <1>4 DEF Ingest
<1>5. ASSUME NEW from, NEW to, Segment(from, to) PROVE UNCHANGED <<events, visits, tables, settled>>
  BY <1>5 DEF Segment
<1> QED
  BY <1>1, <1>2, <1>3, <1>4, <1>5 DEF Next, Wait, Judge, vars

\* The action table of a settled day is that of the stored events and visits
\* (queries.py:935-996).
THEOREM ActionsStayTold == Spec => []ActionsTold
<1>1. Init => ActionsTold
  BY ActionsInit
<1>2. FactsSound /\ FactsFresh /\ FactsFresh' /\ ActionsTold /\ [Next]_vars => ActionsTold'
  BY ActionsNext
<1> QED
  BY <1>1, <1>2, FactsStaySound, FactsStayFresh, PTL DEF Spec

\* On a settled day the clicks counted are those that are not of low confidence.
LEMMA SettledClicks ==
    ASSUME FactsSound, FactsFresh, NEW d \in settled
    PROVE  CountedClicks(events, visits, d, d)
              = {e \in WithUrl(events) : /\ e.type = "click" /\ Day(e.ts) = d
                                         /\ ~ LowConfidence(events, e, now)}
<1>1. /\ EventsSound(events) /\ VisitsSound(visits, events) /\ d \in Nat
      /\ DaySettled(d) /\ DaySettled(d - 1)
  BY DEF FactsSound, FactsFresh, SettledSound
<1>2. ASSUME NEW e \in WithUrl(events), Day(e.ts) = d, NEW v \in VisitsAt(visits, e)
      PROVE  v.eligible <=> ~ LowConfidence(events, e, now)
  <2>1. /\ v \in visits /\ v.session = e.session /\ v.start <= e.ts /\ e.ts <= v.end /\ e \in events
    BY DEF VisitsAt, WithUrl
  <2>2. Day(v.start) = d \/ Day(v.start) = d - 1
    BY <1>1, <1>2, <2>1, VisitsAtNear
  <2>3. v \in FactsOn(events, d, now) \cup FactsOn(events, d - 1, now)
    BY <1>1, <2>1, <2>2 DEF DaySettled, DayOf
  <2>4. PICK b \in WithUrl(events) : v = Fact(events, b, now)
    BY <2>3 DEF FactsOn, Beginnings
  <2> QED
    BY <1>1, <2>1, <2>4, ClickJudged
<1>3. ASSUME NEW e \in WithUrl(events), Day(e.ts) = d
      PROVE  VisitsAt(visits, e) # {}
  <2> DEFINE F == WithUrl(events)
  <2>1. PICK b \in F : /\ StartsVisit(F, b) /\ b.session = e.session /\ b.ts <= e.ts
                       /\ e \in EventsOfVisit(F, b) /\ b.page.url = e.page.url
    BY <1>1, VisitHolding
  <2> DEFINE v == Fact(events, b, now)
  <2>2. e.ts <= Max({f.ts : f \in EventsOfVisit(F, b)})
    BY <1>1, <2>1, VisitEnds
  <2>3. v.session = e.session /\ v.start = b.ts /\ v.url = e.page.url /\ v.start <= e.ts /\ e.ts <= v.end
    BY <2>1, <2>2, FactFields
  <2>4. b \in events /\ e \in events
    BY DEF WithUrl
  <2>5. Day(b.ts) = d \/ Day(b.ts) = d - 1
    <3>1. Apart(b.ts, e.ts) <= MaxDuration /\ b.ts \in Nat /\ e.ts \in Nat
      BY <1>1, <2>1, <2>4, EventTyped DEF EventsSound
    <3>2. e.ts <= b.ts + DayLength
      BY <2>1, <3>1, Lengths DEF Apart
    <3>3. Day(e.ts) <= Day(b.ts) + 1 /\ Day(b.ts) <= Day(e.ts) /\ Day(b.ts) \in Nat
      BY <2>1, <3>1, <3>2, DaysNear, DaysOrdered, DayBounds
    <3> QED
      BY <1>1, <1>3, <3>3
  <2>6. b \in Beginnings(events, Day(b.ts), Day(b.ts))
    <3>1. Day(b.ts) \in Nat
      BY <1>1, <2>4, EventTyped
    <3> QED
      BY <2>1, <3>1 DEF Beginnings, OnDays
  <2>7. v \in FactsOn(events, d, now) \cup FactsOn(events, d - 1, now)
    BY <2>5, <2>6 DEF FactsOn
  <2>8. v \in visits
    BY <1>1, <2>7 DEF DaySettled, DayOf
  <2> HIDE DEF v
  <2>9. v \in VisitsAt(visits, e)
    BY <2>3, <2>8 DEF VisitsAt
  <2> QED
    BY <2>9
<1>4. ASSUME NEW e \in WithUrl(events)
      PROVE  OnDays(e.ts, d, d) <=> Day(e.ts) = d
  BY <1>1, EventTyped DEF WithUrl, OnDays
<1>5. \A e \in WithUrl(events) : Day(e.ts) = d =>
         ((VisitsAt(visits, e) = {} \/ \E v \in VisitsAt(visits, e) : v.eligible)
             <=> ~ LowConfidence(events, e, now))
  BY <1>2, <1>3
<1> QED
  BY <1>4, <1>5 DEF CountedClicks

\* On a settled day every click is counted once, but those of a session taken out of
\* the reports: they fall into visits, and all of those are taken out (queries.py:923-971).
THEOREM ClicksStayCounted == Spec => []ClicksCounted
<1>1. FactsSound /\ FactsFresh /\ ActionsTold => ClicksCounted
  <2> SUFFICES ASSUME FactsSound, FactsFresh, ActionsTold, NEW d \in settled
               PROVE  Total(On(tables.actions, d), LAMBDA r : r.clicks)
                         = Cardinality({e \in WithUrl(events) : /\ e.type = "click" /\ Day(e.ts) = d
                                                   /\ ~ LowConfidence(events, e, now)})
    BY DEF ClicksCounted
  <2> DEFINE C == CountedClicks(events, visits, d, d)
             rows == On(tables.actions, d)
  <2>1. rows = ActionRowsOf(C, visits)
    BY ActionRows DEF ActionsTold
  <2>2. IsFiniteSet(C)
    BY FS_Subset DEF FactsSound, EventsSound, CountedClicks, WithUrl
  <2>3. FieldSum("clicks", rows) = Cardinality(C)
    <3> HIDE DEF C, rows
    <3> QED
      BY <2>1, <2>2, ActionTotal
  <2>4. Total(rows, LAMBDA r : r.clicks) = FieldSum("clicks", rows)
    <3> HIDE DEF rows
    <3> QED
      BY DEF Total, FieldSum, MapThenSumSet, MapThenFoldSet
  <2>5. C = {e \in WithUrl(events) : /\ e.type = "click" /\ Day(e.ts) = d
                                     /\ ~ LowConfidence(events, e, now)}
    BY SettledClicks
  <2>6. Total(rows, LAMBDA r : r.clicks) = Cardinality(C)
    <3> HIDE DEF C, rows
    <3> QED
      BY <2>3, <2>4
  <2> QED
    BY <2>5, <2>6
<1> QED
  BY <1>1, FactsStaySound, FactsStayFresh, ActionsStayTold, PTL

\* The tables tell one story, for each day and each identity.
THEOREM TablesTellOneStory == Spec => []TablesAgree
<1>1. CompaniesUnaffected /\ DaysAgree /\ ClicksCounted => TablesAgree
  BY DEF TablesAgree
<1> QED
  BY <1>1, AnonymousStay, DaysStayAlike, ClicksStayCounted, PTL

----------------------------------------------------------------------------
(* The tables are those of all visits.                                     *)

\* The visits A and B differ on the days from..to only.
SameBeyond(A, B, from, to) == Beyond(A, from, to) = Beyond(B, from, to)

\* A page table made again for a window is that of all visits,
LEMMA PagesRemade ==
    ASSUME NEW A, NEW B, NEW from, NEW to, SameBeyond(A, B, from, to)
    PROVE  Replaced(PageDaily(A), PageDaily(Window(B, from, to)), from, to) = PageDaily(B)
<1> DEFINE W == Window(B, from, to)
           R(k) == PageRow(PageGroup(A, k), k)
           S(k) == PageRow(PageGroup(B, k), k)
           T(k) == PageRow(PageGroup(W, k), k)
           In(k) == from <= k[1] /\ k[1] <= to
<1>1. \A k : R(k).date = k[1]
  BY DEF PageRow
<1>2. \A k : ~ In(k) => (k \in PageGroups(A) <=> k \in PageGroups(B)) /\ PageGroup(A, k) = PageGroup(B, k)
  <2>1. \A v : ~ OnDays(v.start, from, to) => (v \in A <=> v \in B)
    BY DEF SameBeyond, Beyond
  <2>2. \A k, v : k[1] = Day(v.start) => (OnDays(v.start, from, to) <=> In(k))
    BY DEF OnDays
  <2> HIDE DEF In
  <2>3. \A k : ~ In(k) => PageGroup(A, k) = PageGroup(B, k)
    BY <2>1, <2>2 DEF PageGroup
  <2>4. \A k : ~ In(k) => (k \in PageGroups(A) <=> k \in PageGroups(B))
    <3>1. \A v : <<Day(v.start), v.rule, v.area>>[1] = Day(v.start)
      OBVIOUS
    <3> QED
      BY <2>1, <2>2, <3>1 DEF PageGroups
  <2> QED
    BY <2>3, <2>4
<1>3. \A k : In(k) => (k \in PageGroups(W) <=> k \in PageGroups(B)) /\ PageGroup(W, k) = PageGroup(B, k)
  BY DEF PageGroups, PageGroup, Window, OnDays
<1>4. \A k \in PageGroups(W) : In(k)
  BY DEF PageGroups, Window, OnDays
<1>5. /\ PageDaily(A) = {R(k) : k \in PageGroups(A)} /\ PageDaily(W) = {T(k) : k \in PageGroups(W)}
      /\ PageDaily(B) = {S(k) : k \in PageGroups(B)}
  BY PageRows
<1>6. \A k : (~ In(k) => R(k) = S(k)) /\ (In(k) => T(k) = S(k))
  BY <1>2, <1>3
<1>7. \A k : ~ (from <= R(k).date /\ R(k).date <= to) <=> ~ In(k)
  BY <1>1
<1> HIDE DEF W, R, S, T, In
<1>8. Replaced({R(k) : k \in PageGroups(A)}, {T(k) : k \in PageGroups(W)}, from, to)
          = {S(k) : k \in PageGroups(B)}
  BY <1>2, <1>3, <1>4, <1>6, <1>7 DEF Replaced
<1> QED
  BY <1>5, <1>8 DEF W

\* so is the company table,
LEMMA CompaniesRemade ==
    ASSUME NEW A, NEW B, NEW from, NEW to, SameBeyond(A, B, from, to)
    PROVE  Replaced(CompanyDaily(A), CompanyDaily(Window(B, from, to)), from, to) = CompanyDaily(B)
<1> DEFINE W == Window(B, from, to)
           R(k) == CompanyRow(CompanyGroup(A, k), k)
           S(k) == CompanyRow(CompanyGroup(B, k), k)
           T(k) == CompanyRow(CompanyGroup(W, k), k)
           In(k) == from <= k[1] /\ k[1] <= to
<1>1. \A k : R(k).date = k[1]
  BY DEF CompanyRow
<1>2. \A k : ~ In(k) => (k \in CompanyGroups(A) <=> k \in CompanyGroups(B)) /\ CompanyGroup(A, k) = CompanyGroup(B, k)
  <2>1. \A v : ~ OnDays(v.start, from, to) => (v \in A <=> v \in B)
    BY DEF SameBeyond, Beyond
  <2>2. \A k, v : k[1] = Day(v.start) => (OnDays(v.start, from, to) <=> In(k))
    BY DEF OnDays
  <2> HIDE DEF In
  <2>3. \A k : ~ In(k) => CompanyGroup(A, k) = CompanyGroup(B, k)
    BY <2>1, <2>2 DEF CompanyGroup
  <2>4. \A k : ~ In(k) => (k \in CompanyGroups(A) <=> k \in CompanyGroups(B))
    <3>1. \A v : <<Day(v.start), v.rule, v.area, v.company>>[1] = Day(v.start)
      OBVIOUS
    <3> QED
      BY <2>1, <2>2, <3>1 DEF CompanyGroups
  <2> QED
    BY <2>3, <2>4
<1>3. \A k : In(k) => (k \in CompanyGroups(W) <=> k \in CompanyGroups(B)) /\ CompanyGroup(W, k) = CompanyGroup(B, k)
  BY DEF CompanyGroups, CompanyGroup, Window, OnDays
<1>4. \A k \in CompanyGroups(W) : In(k)
  BY DEF CompanyGroups, Window, OnDays
<1>5. /\ CompanyDaily(A) = {R(k) : k \in CompanyGroups(A)} /\ CompanyDaily(W) = {T(k) : k \in CompanyGroups(W)}
      /\ CompanyDaily(B) = {S(k) : k \in CompanyGroups(B)}
  BY CompanyTableRows
<1>6. \A k : (~ In(k) => R(k) = S(k)) /\ (In(k) => T(k) = S(k))
  BY <1>2, <1>3
<1>7. \A k : ~ (from <= R(k).date /\ R(k).date <= to) <=> ~ In(k)
  BY <1>1
<1> HIDE DEF W, R, S, T, In
<1>8. Replaced({R(k) : k \in CompanyGroups(A)}, {T(k) : k \in CompanyGroups(W)}, from, to)
          = {S(k) : k \in CompanyGroups(B)}
  BY <1>2, <1>3, <1>4, <1>6, <1>7 DEF Replaced
<1> QED
  BY <1>5, <1>8 DEF W

\* and the user table.
LEMMA UsersRemade ==
    ASSUME NEW A, NEW B, NEW from, NEW to, SameBeyond(A, B, from, to)
    PROVE  Replaced(UserDaily(A), UserDaily(Window(B, from, to)), from, to) = UserDaily(B)
<1> DEFINE W == Window(B, from, to)
           R(k) == UserRow(UserGroup(A, k), k)
           S(k) == UserRow(UserGroup(B, k), k)
           T(k) == UserRow(UserGroup(W, k), k)
           In(k) == from <= k[1] /\ k[1] <= to
<1>1. \A k : R(k).date = k[1]
  BY DEF UserRow
<1>2. \A k : ~ In(k) => (k \in UserGroups(A) <=> k \in UserGroups(B)) /\ UserGroup(A, k) = UserGroup(B, k)
  <2>1. \A v : ~ OnDays(v.start, from, to) => (v \in A <=> v \in B)
    BY DEF SameBeyond, Beyond
  <2>2. \A k, v : k[1] = Day(v.start) => (OnDays(v.start, from, to) <=> In(k))
    BY DEF OnDays
  <2> HIDE DEF In
  <2>3. \A k : ~ In(k) => UserGroup(A, k) = UserGroup(B, k)
    BY <2>1, <2>2 DEF UserGroup
  <2>4. \A k : ~ In(k) => (k \in UserGroups(A) <=> k \in UserGroups(B))
    <3>1. \A v : <<Day(v.start), v.rule, v.area, v.user>>[1] = Day(v.start)
      OBVIOUS
    <3> QED
      BY <2>1, <2>2, <3>1 DEF UserGroups
  <2> QED
    BY <2>3, <2>4
<1>3. \A k : In(k) => (k \in UserGroups(W) <=> k \in UserGroups(B)) /\ UserGroup(W, k) = UserGroup(B, k)
  BY DEF UserGroups, UserGroup, Window, OnDays
<1>4. \A k \in UserGroups(W) : In(k)
  BY DEF UserGroups, Window, OnDays
<1>5. /\ UserDaily(A) = {R(k) : k \in UserGroups(A)} /\ UserDaily(W) = {T(k) : k \in UserGroups(W)}
      /\ UserDaily(B) = {S(k) : k \in UserGroups(B)}
  BY UserTableRows
<1>6. \A k : (~ In(k) => R(k) = S(k)) /\ (In(k) => T(k) = S(k))
  BY <1>2, <1>3
<1>7. \A k : ~ (from <= R(k).date /\ R(k).date <= to) <=> ~ In(k)
  BY <1>1
<1> HIDE DEF W, R, S, T, In
<1>8. Replaced({R(k) : k \in UserGroups(A)}, {T(k) : k \in UserGroups(W)}, from, to)
          = {S(k) : k \in UserGroups(B)}
  BY <1>2, <1>3, <1>4, <1>6, <1>7 DEF Replaced
<1> QED
  BY <1>5, <1>8 DEF W

\* The tables read by the reports are those of the stored visits.
TablesMade ==
    /\ tables.pages = PageDaily(Eligible(visits))
    /\ tables.companies = CompanyDaily(visits)
    /\ tables.users = UserDaily(visits)

\* Every step keeps TablesMade.
LEMMA MadeNext == FactsSound /\ TablesMade /\ [Next]_vars => TablesMade'
<1> SUFFICES ASSUME FactsSound, TablesMade, [Next]_vars PROVE TablesMade'
  OBVIOUS
<1>1. CASE Commit
  <2> DEFINE from == job.from
             to == job.to
             W == job.visits
             all == Window(W, from, to)
  <2>1. /\ job.step = "judged" /\ visits' = W /\ tables' = Aggregated(tables, W, events, from, to)
    BY <1>1 DEF Commit
  <2>2. SameBeyond(visits, W, from, to)
    BY <2>1, JobSteps DEF FactsSound, JobSound, JobRecord, SameBeyond
  <2>3. SameBeyond(Eligible(visits), Eligible(W), from, to) /\ Eligible(all) = Window(Eligible(W), from, to)
    BY <2>2 DEF SameBeyond, Beyond, Eligible, Window
  <2>4. /\ tables'.pages = Replaced(tables.pages, PageDaily(Eligible(all)), from, to)
        /\ tables'.companies = Replaced(tables.companies, CompanyDaily(all), from, to)
        /\ tables'.users = Replaced(tables.users, UserDaily(all), from, to)
    BY <2>1, AggregatedTables
  <2> HIDE DEF from, to, W
  <2>5. /\ Replaced(tables.pages, PageDaily(Eligible(all)), from, to) = PageDaily(Eligible(W))
        /\ Replaced(tables.companies, CompanyDaily(all), from, to) = CompanyDaily(W)
        /\ Replaced(tables.users, UserDaily(all), from, to) = UserDaily(W)
    BY <2>2, <2>3, PagesRemade, CompaniesRemade, UsersRemade DEF TablesMade
  <2> QED
    BY <2>1, <2>4, <2>5 DEF TablesMade
<1>2. CASE UNCHANGED <<visits, tables>>
  BY <1>2 DEF TablesMade
<1>3. ASSUME NEW e, Ingest(e) PROVE UNCHANGED <<visits, tables>>
  BY <1>3 DEF Ingest
<1>4. ASSUME NEW from, NEW to, Segment(from, to) PROVE UNCHANGED <<visits, tables>>
  BY <1>4 DEF Segment
<1> QED
  BY <1>1, <1>2, <1>3, <1>4 DEF Next, Wait, Judge, vars

\* The tables of pages, companies and users are always those of the stored visits, for
\* every day at once (services.py:1024-1085).
THEOREM TablesStayMade == Spec => []TablesMade
<1>1. Init => TablesMade
  <2> SUFFICES ASSUME Init PROVE TablesMade
    OBVIOUS
  <2>1. visits = {} /\ tables.pages = {} /\ tables.companies = {} /\ tables.users = {}
    BY DEF Init, NoTables
  <2>2. Eligible({}) = {} /\ CompanyGroups({}) = {} /\ UserGroups({}) = {}
    BY DEF Eligible, CompanyGroups, UserGroups
  <2>3. PageDaily({}) = {} /\ CompanyDaily({}) = {} /\ UserDaily({}) = {}
    BY <2>2, NoRows, CompanyTableRows, UserTableRows
  <2> QED
    BY <2>1, <2>2, <2>3 DEF TablesMade
<1>2. FactsSound /\ TablesMade /\ [Next]_vars => TablesMade'
  BY MadeNext
<1> QED
  BY <1>1, <1>2, FactsStaySound, PTL DEF Spec

----------------------------------------------------------------------------
(* Sums over days.                                                         *)

\* The sum of F over a set.
FunSum(F, S) == MapThenSumSet(LAMBDA x : F[x], S)

\* FunSum is the last partial sum.
LEMMA FunSums ==
    ASSUME NEW F, NEW S, IsFiniteSet(S)
    PROVE  \E g : Sums(F, S, g) /\ FunSum(F, S) = g[S]
<1>1. \E g : g = [s \in SUBSET S |-> IF s = {} THEN 0 ELSE F[Pick(s)] + g[s \ {Pick(s)}]]
  <2>1. \E g : Sums(F, S, g)
    BY SumsExist
  <2> QED
    BY <2>1 DEF Sums
<1>2. \E g : /\ g = [s \in SUBSET S |-> IF s = {} THEN 0 ELSE F[Pick(s)] + g[s \ {Pick(s)}]]
             /\ MapThenSumSet(LAMBDA x : F[x], S) = g[S]
  BY <1>1 DEF MapThenSumSet, MapThenFoldSet, Pick
<1> QED
  BY <1>2 DEF FunSum, Sums

\* A day taken out is a term less.
LEMMA FunSumStep ==
    ASSUME NEW F, NEW S, IsFiniteSet(S), NaturalOn(F, S)
    PROVE  \A x \in S : FunSum(F, S) = F[x] + FunSum(F, S \ {x})
<1>1. PICK g : Sums(F, S, g) /\ FunSum(F, S) = g[S]
  BY FunSums
<1>2. g[S] \in Nat /\ \A x \in S : g[S] = F[x] + g[S \ {x}]
  BY <1>1, SumStep
<1>3. ASSUME NEW x \in S PROVE FunSum(F, S) = F[x] + FunSum(F, S \ {x})
  <2> DEFINE T == S \ {x}
  <2>1. IsFiniteSet(T) /\ T \in SUBSET (S \cap T)
    BY FS_Subset
  <2>2. AlikeOn(F, F, S \cap T)
    BY DEF AlikeOn
  <2> HIDE DEF T
  <2>3. PICK h : Sums(F, T, h) /\ FunSum(F, T) = h[T]
    BY <2>1, FunSums
  <2>4. g[T] = h[T]
    BY <1>1, <2>1, <2>2, <2>3, SumsAgree
  <2> QED
    BY <1>1, <1>2, <2>3, <2>4 DEF T
<1> QED
  BY <1>3

\* Each day measures its own part of S.
Portions(F, I, G, M, S) ==
    /\ \A i \in I : G[i] \in SUBSET S /\ F[i] = M[G[i]]
    /\ \A i, j \in I : i # j => G[i] \cap G[j] = {}

\* A sum over the days measures what they have together.
LEMMA SumOfPortions ==
    ASSUME NEW S, NEW M, Additive(M, S), NEW I, IsFiniteSet(I), NEW F, NEW G, Portions(F, I, G, M, S)
    PROVE  FunSum(F, I) = M[Whole(G, I)]
<1> DEFINE All(T) == UNION {G[i] : i \in T}
           Bad == {T \in SUBSET I : FunSum(F, T) # M[All(T)]}
<1> SUFFICES ASSUME Bad # {} PROVE FALSE
  BY DEF Whole
<1>1. \A T \in Bad : IsFiniteSet(T)
  BY FS_Subset
<1>2. PICK T \in Bad : \A U \in Bad : ~ (U \subseteq T /\ U # T)
  <2> HIDE DEF Bad
  <2> QED
    BY <1>1, LeastSet
<1>3. CASE T = {}
  <2>1. All(T) = {}
    BY <1>3
  <2>2. FunSum(F, {}) = 0
    <3>1. PICK g : Sums(F, {}, g) /\ FunSum(F, {}) = g[{}]
      BY FunSums, FS_EmptySet
    <3> QED
      BY <3>1 DEF Sums
  <2> QED
    BY <1>3, <2>1, <2>2 DEF Additive
<1>4. CASE T # {}
  <2>1. PICK x \in T : TRUE
    BY <1>4
  <2> DEFINE U == T \ {x}
  <2>2. U \in SUBSET I /\ U \subseteq T /\ U # T /\ x \in I /\ T \subseteq I
    BY <2>1
  <2>3. FunSum(F, U) = M[All(U)]
    BY <1>2, <2>2
  <2>4. G[x] \in SUBSET S /\ All(U) \in SUBSET S /\ G[x] \cap All(U) = {} /\ All(T) = G[x] \cup All(U)
    <3>1. \A i \in U : i \in I /\ i # x
      BY <2>2
    <3>2. \A i \in I : G[i] \in SUBSET S
      BY DEF Portions
    <3>3. \A i \in U : G[x] \cap G[i] = {}
      BY <2>2, <3>1 DEF Portions
    <3>4. All(T) = G[x] \cup All(U)
      BY <2>1
    <3>5. All(U) \in SUBSET S
      BY <3>1, <3>2
    <3>6. G[x] \cap All(U) = {}
      BY <3>3
    <3> QED
      BY <2>2, <3>2, <3>4, <3>5, <3>6
  <2>5. M[All(T)] = M[G[x]] + M[All(U)]
    <3> HIDE DEF All, U
    <3> QED
      BY <2>4 DEF Additive
  <2>6. IsFiniteSet(T) /\ NaturalOn(F, T)
    BY <1>1, <2>2 DEF Portions, Additive, NaturalOn
  <2>7. FunSum(F, T) = F[x] + FunSum(F, U)
    BY <2>1, <2>6, FunSumStep
  <2>8. F[x] = M[G[x]]
    BY <2>2 DEF Portions
  <2>9. FunSum(F, T) = M[All(T)]
    <3> HIDE DEF All, U
    <3> QED
      BY <2>3, <2>5, <2>7, <2>8
  <2> QED
    BY <1>2, <2>9
<1> QED
  BY <1>3, <1>4

\* A running sum is a sum over days.
LEMMA RunningSum ==
    ASSUME NEW F, NEW from, NEW d
    PROVE  Running(F, from, d) = FunSum(F, from .. d)
BY DEF Running, FunSum, MapThenSumSet, MapThenFoldSet

\* More of a set measures no less.
LEMMA AdditiveMonotone ==
    ASSUME NEW M, NEW S, Additive(M, S), NEW A \in SUBSET S, NEW B \in SUBSET S, A \subseteq B
    PROVE  M[A] <= M[B]
<1>1. B \ A \in SUBSET S /\ A \cap (B \ A) = {} /\ A \cup (B \ A) = B
  OBVIOUS
<1>2. M[B] = M[A] + M[B \ A] /\ M[A] \in Nat /\ M[B \ A] \in Nat
  BY <1>1 DEF Additive
<1> QED
  BY <1>2

\* More rows never add up to less.
LEMMA FieldSumMonotone ==
    ASSUME NEW f, NEW S, IsFiniteSet(S), \A r \in S : r[f] \in Nat, NEW R, R \subseteq S
    PROVE  FieldSum(f, R) <= FieldSum(f, S)
<1> DEFINE M == [A \in SUBSET S |-> FieldSum(f, A)]
<1>1. Additive(M, S)
  BY FieldAdditive
<1>2. M[R] = FieldSum(f, R) /\ M[S] = FieldSum(f, S)
  OBVIOUS
<1> HIDE DEF M
<1> QED
  BY <1>1, <1>2, AdditiveMonotone

\* Rows with dates, as every table has them.
Dated(R) == IsFiniteSet(R) /\ \A r \in R : r.date \in Nat

\* Rows of no day before a day.
From(R, from) == \A r \in R : from <= r.date

\* The rows of the days up to d add up to the running sum of the days' sums.
LEMMA RunningField ==
    ASSUME NEW R, Dated(R), NEW f, \A r \in R : r[f] \in Nat, NEW from \in Nat, NEW d \in Nat,
           NEW F, \A i \in from .. d : F[i] = FieldSum(f, On(R, i))
    PROVE  Running(F, from, d) = FieldSum(f, Within(R, from, d))
<1> DEFINE M == [A \in SUBSET R |-> FieldSum(f, A)]
           I == from .. d
           G == [i \in I |-> On(R, i)]
<1>1. Additive(M, R)
  BY FieldAdditive DEF Dated
<1>2. IsFiniteSet(I)
  BY FS_Interval
<1>3. \A i : On(R, i) \in SUBSET R
  BY DEF On
<1>4. Portions(F, I, G, M, R)
  BY <1>3 DEF Portions, On
<1>5. Whole(G, I) = Within(R, from, d)
  <2>1. \A r \in R : r.date \in Nat
    BY DEF Dated
  <2>2. \A r : r \in Whole(G, I) <=> \E i \in I : r \in On(R, i)
    BY DEF Whole
  <2>3. \A r : (\E i \in I : r \in On(R, i)) <=> r \in Within(R, from, d)
    BY <2>1 DEF On, Within
  <2> QED
    BY <2>2, <2>3
<1>6. M[Within(R, from, d)] = FieldSum(f, Within(R, from, d))
  BY DEF Within
<1> HIDE DEF M, G
<1> QED
  BY <1>1, <1>2, <1>4, <1>5, <1>6, RunningSum, SumOfPortions

\* F counts the identities that are first seen on each day.
CountsNew(F, R, who, from, d) ==
    \A i \in from .. d : F[i] = Cardinality(Names(On(FirstSeen(R, who), i), who))

\* The identities first seen on each day add up to those seen by d.
LEMMA RunningNames ==
    ASSUME NEW R, Dated(R), NEW who, NEW from \in Nat, NEW d \in Nat, From(R, from),
           NEW F, CountsNew(F, R, who, from, d)
    PROVE  Running(F, from, d) = Cardinality(Names(Within(R, from, d), who))
<1> DEFINE S == Names(R, who)
           M == [A \in SUBSET S |-> Cardinality(A)]
           I == from .. d
           G == [i \in I |-> Names(On(FirstSeen(R, who), i), who)]
<1>1. IsFiniteSet(S)
  <2>1. IsFiniteSet({r[who] : r \in R})
    <3> DEFINE h == [r \in R |-> r[who]]
    <3>1. {r[who] : r \in R} = {h[r] : r \in R}
      OBVIOUS
    <3>2. IsFiniteSet(R)
      BY DEF Dated
    <3> HIDE DEF h
    <3>3. IsFiniteSet({h[r] : r \in R})
      BY <3>2, ImageFinite
    <3> QED
      BY <3>1, <3>3
  <2> QED
    BY <2>1, FS_Subset DEF Names
<1>2. Additive(M, S)
  BY <1>1, CountAdditive
<1>3. IsFiniteSet(I)
  BY FS_Interval
<1>4. \A r \in R : r.date \in Nat /\ from <= r.date
  BY DEF Dated, From
<1>5. \A i, x : x \in Names(On(FirstSeen(R, who), i), who)
          <=> x # None /\ \E r \in R : r[who] = x /\ r.date = i /\ ~ \E q \in R : q[who] = x /\ q.date < i
  BY DEF Names, On, FirstSeen
<1>6. \A x : x \in Names(Within(R, from, d), who)
          <=> x # None /\ \E r \in R : r[who] = x /\ r.date <= d
  BY <1>4 DEF Names, Within
<1>7. \A x : x \in S <=> x # None /\ \E r \in R : r[who] = x
  BY DEF Names
<1> HIDE DEF S
<1>8. Portions(F, I, G, M, S)
  <2>1. \A i \in I : G[i] \in SUBSET S
    BY <1>5, <1>7
  <2>2. \A i \in I : F[i] = M[G[i]]
    BY <2>1 DEF CountsNew
  <2>3. ASSUME NEW i \in I, NEW j \in I, i # j, NEW x, x \in G[i], x \in G[j]
        PROVE  FALSE
    <3>1. PICK r \in R : r[who] = x /\ r.date = i /\ ~ \E q \in R : q[who] = x /\ q.date < i
      BY <1>5, <2>3
    <3>2. PICK q \in R : q[who] = x /\ q.date = j /\ ~ \E t \in R : t[who] = x /\ t.date < j
      BY <1>5, <2>3
    <3> QED
      BY <2>3, <3>1, <3>2
  <2> HIDE DEF G, M
  <2> QED
    BY <2>1, <2>2, <2>3 DEF Portions
<1>9. Whole(G, I) = Names(Within(R, from, d), who)
  <2>1. \A x : x \in Whole(G, I) <=> \E i \in I : x \in Names(On(FirstSeen(R, who), i), who)
    BY DEF Whole
  <2>2. ASSUME NEW i \in I, NEW x \in Names(On(FirstSeen(R, who), i), who)
        PROVE  x \in Names(Within(R, from, d), who)
    BY <1>5, <1>6
  <2>3. ASSUME NEW x \in Names(Within(R, from, d), who)
        PROVE  \E i \in I : x \in Names(On(FirstSeen(R, who), i), who)
    <3>1. PICK r \in R : r[who] = x /\ r.date <= d /\ x # None
      BY <1>6
    <3> DEFINE D == {q.date : q \in {p \in R : p[who] = x}}
    <3>2. D \subseteq Nat /\ r.date \in D
      BY <1>4, <3>1
    <3>3. PICK i \in D : \A j \in D : i <= j
      <4> HIDE DEF D
      <4> QED
        BY <3>2, LeastNatural
    <3>4. PICK q \in R : q[who] = x /\ q.date = i
      BY <3>3
    <3>5. i \in I
      BY <1>4, <3>1, <3>2, <3>3, <3>4
    <3>6. ~ \E t \in R : t[who] = x /\ t.date < i
      BY <1>4, <3>3, <3>4
    <3> QED
      BY <1>5, <3>1, <3>4, <3>5, <3>6
  <2> HIDE DEF G, I
  <2> QED
    BY <2>1, <2>2, <2>3
<1>10. M[Names(Within(R, from, d), who)] = Cardinality(Names(Within(R, from, d), who))
  BY <1>6, <1>7
<1> HIDE DEF M, G
<1> QED
  BY <1>2, <1>3, <1>8, <1>9, <1>10, RunningSum, SumOfPortions

----------------------------------------------------------------------------
(* What the rows of the tables have to do with each other.                 *)

\* A row that can be added up.
Measured(r) == r["visits"] \in Nat /\ r["clicked"] \in Nat /\ r["engaged"] \in Nat /\ r["clicks"] \in Nat

\* Rows of the same page on the same day.
Beside(r, q) == q.date = r.date /\ q.rule = r.rule /\ q.area = r.area

\* Every company and every user is on a page that has a row, and a user's company too.
TablesLinked ==
    /\ Dated(tables.pages) /\ Dated(tables.companies) /\ Dated(tables.users)
    /\ \A r \in tables.pages : Measured(r)
    /\ \A r \in tables.companies :
          Measured(r) /\ r.company \in Companies /\ \E q \in tables.pages : Beside(r, q)
    /\ \A r \in tables.users :
          /\ \E q \in tables.pages : Beside(r, q)
          /\ r.company # None => \E q \in tables.companies : Beside(r, q) /\ q.company = r.company

\* Groups of visits can be added up.
LEMMA GroupMeasured ==
    ASSUME NEW V, Counted(V), NEW g, g \subseteq V
    PROVE  /\ Cardinality(g) \in Nat /\ Cardinality(Clicked(g)) \in Nat
           /\ FieldSum("engaged", g) \in Nat /\ FieldSum("clicks", g) \in Nat
<1>1. IsFiniteSet(g) /\ Clicked(g) \subseteq g /\ \A v \in g : v["engaged"] \in Nat /\ v["clicks"] \in Nat
  BY FS_Subset DEF Counted, Clicked
<1>2. FieldSum("engaged", g) \in Nat
  BY <1>1, FieldSumStep
<1>3. FieldSum("clicks", g) \in Nat
  BY <1>1, FieldSumStep
<1> QED
  BY <1>1, <1>2, <1>3, FS_Subset, FS_CardinalityType

\* The stored visits can be added up; what is not in the reports has no identity.
LEMMA StoredVisits ==
    ASSUME FactsSound
    PROVE  /\ Counted(visits) /\ Counted(Eligible(visits))
           /\ \A v \in visits :
                /\ Day(v.start) \in Nat /\ v.company \in Companies \cup {None}
                /\ v.user # None \/ v.company # None => v \in Eligible(visits)
<1>1. EventsSound(events) /\ VisitsSound(visits, events) /\ Unaffected(visits)
  BY DEF FactsSound
<1>2. Counted(visits) /\ Counted(Eligible(visits))
  BY <1>1, FS_Subset DEF VisitsSound, Counted, Eligible
<1>3. ASSUME NEW v \in visits
      PROVE  /\ Day(v.start) \in Nat /\ v.company \in Companies \cup {None}
             /\ v.user # None \/ v.company # None => v \in Eligible(visits)
  <2>1. Day(v.start) \in Nat
    BY <1>1, VisitTyped
  <2>2. PICK e \in events : v.company = Identity[e.session].company
    BY <1>1 DEF VisitsSound
  <2>3. e.session \in Sessions
    BY <1>1 DEF EventsSound, Event
  <2> QED
    BY <1>1, <2>1, <2>2, <2>3, SummariesAssumption DEF Unaffected, Eligible
<1> QED
  BY <1>2, <1>3

\* The page table is one of dated rows that can be added up,
LEMMA PagesLinked ==
    ASSUME NEW V, Counted(V), \A v \in V : Day(v.start) \in Nat
    PROVE  /\ Dated(PageDaily(V)) /\ \A r \in PageDaily(V) : Measured(r)
           /\ \A v \in V : \E q \in PageDaily(V) :
                 q.date = Day(v.start) /\ q.rule = v.rule /\ q.area = v.area
<1> DEFINE R(k) == PageRow(PageGroup(V, k), k)
           K == PageGroups(V)
           Key(v) == <<Day(v.start), v.rule, v.area>>
<1>1. PageDaily(V) = {R(k) : k \in K}
  BY PageRows
<1>2. ASSUME NEW k \in K PROVE R(k).date \in Nat /\ Measured(R(k))
  <2>1. R(k).date = k[1] /\ k[1] \in Nat
    BY DEF PageRow, PageGroups
  <2>2. PageGroup(V, k) \subseteq V
    BY DEF PageGroup
  <2> QED
    BY <2>1, <2>2, GroupMeasured DEF PageRow, Measured
<1>3. \A v \in V : Key(v) \in K /\ R(Key(v)).date = Day(v.start) /\ R(Key(v)).rule = v.rule
                   /\ R(Key(v)).area = v.area
  BY DEF PageGroups, PageRow
<1>4. IsFiniteSet({R(k) : k \in K})
  <2> DEFINE f == [v \in V |-> R(Key(v))]
  <2>1. {R(k) : k \in K} = {f[v] : v \in V}
    BY DEF PageGroups
  <2>2. IsFiniteSet(V)
    BY DEF Counted
  <2> HIDE DEF f, R, K
  <2>3. IsFiniteSet({f[v] : v \in V})
    BY <2>2, ImageFinite
  <2> QED
    BY <2>1, <2>3
<1> HIDE DEF R, K, Key
<1> QED
  BY <1>1, <1>2, <1>3, <1>4 DEF Dated

\* so is the company table,
LEMMA CompaniesLinked ==
    ASSUME NEW V, Counted(V), \A v \in V : Day(v.start) \in Nat
    PROVE  /\ Dated(CompanyDaily(V)) /\ \A r \in CompanyDaily(V) : Measured(r)
           /\ \A r \in CompanyDaily(V) : \E v \in V :
                 /\ r.date = Day(v.start) /\ r.rule = v.rule /\ r.area = v.area
                 /\ r.company = v.company /\ v.company # None
           /\ \A v \in V : v.company # None => \E q \in CompanyDaily(V) :
                 q.date = Day(v.start) /\ q.rule = v.rule /\ q.area = v.area /\ q.company = v.company
<1> DEFINE R(k) == CompanyRow(CompanyGroup(V, k), k)
           K == CompanyGroups(V)
           Key(v) == <<Day(v.start), v.rule, v.area, v.company>>
           W == {v \in V : v.company # None}
<1>1. CompanyDaily(V) = {R(k) : k \in K}
  BY CompanyTableRows
<1>2. ASSUME NEW k \in K
      PROVE  /\ R(k).date \in Nat /\ Measured(R(k))
             /\ \E v \in V : /\ R(k).date = Day(v.start) /\ R(k).rule = v.rule /\ R(k).area = v.area
                             /\ R(k).company = v.company /\ v.company # None
  <2>1. R(k).date = k[1] /\ R(k).rule = k[2] /\ R(k).area = k[3] /\ R(k).company = k[4]
    BY DEF CompanyRow
  <2>2. PICK v \in V : v.company # None /\ k = Key(v)
    BY DEF CompanyGroups
  <2>3. CompanyGroup(V, k) \subseteq V
    BY DEF CompanyGroup
  <2>4. Measured(R(k))
    BY <2>3, GroupMeasured DEF CompanyRow, Measured
  <2> QED
    BY <2>1, <2>2, <2>4
<1>3. \A v \in W : Key(v) \in K /\ R(Key(v)).date = Day(v.start) /\ R(Key(v)).rule = v.rule
                   /\ R(Key(v)).area = v.area /\ R(Key(v)).company = v.company
  BY DEF CompanyGroups, CompanyRow
<1>4. IsFiniteSet({R(k) : k \in K})
  <2> DEFINE f == [v \in W |-> R(Key(v))]
  <2>1. {R(k) : k \in K} = {f[v] : v \in W}
    BY DEF CompanyGroups
  <2>2. IsFiniteSet(W)
    BY FS_Subset DEF Counted
  <2> HIDE DEF f, R, K, W
  <2>3. IsFiniteSet({f[v] : v \in W})
    BY <2>2, ImageFinite
  <2> QED
    BY <2>1, <2>3
<1> HIDE DEF R, K, Key
<1> QED
  BY <1>1, <1>2, <1>3, <1>4 DEF Dated

\* and the user table, in which a user's company is that of a visit on the page.
LEMMA UsersLinked ==
    ASSUME NEW V, Counted(V), \A v \in V : Day(v.start) \in Nat
    PROVE  /\ Dated(UserDaily(V))
           /\ \A r \in UserDaily(V) :
                /\ \E v \in V : /\ r.date = Day(v.start) /\ r.rule = v.rule /\ r.area = v.area
                                /\ v.user # None
                /\ r.company # None => \E v \in V : /\ r.date = Day(v.start) /\ r.rule = v.rule
                                                    /\ r.area = v.area /\ v.company = r.company
<1> DEFINE R(k) == UserRow(UserGroup(V, k), k)
           K == UserGroups(V)
           Key(v) == <<Day(v.start), v.rule, v.area, v.user>>
           W == {v \in V : v.user # None}
<1>1. UserDaily(V) = {R(k) : k \in K}
  BY UserTableRows
<1>2. ASSUME NEW k \in K
      PROVE  /\ R(k).date \in Nat
             /\ \E v \in V : /\ R(k).date = Day(v.start) /\ R(k).rule = v.rule /\ R(k).area = v.area
                             /\ v.user # None
             /\ R(k).company # None => \E v \in V : /\ R(k).date = Day(v.start) /\ R(k).rule = v.rule
                                                    /\ R(k).area = v.area /\ v.company = R(k).company
  <2> DEFINE c == R(k).company
             names == Names(UserGroup(V, k), "company")
  <2>1. R(k).date = k[1] /\ R(k).rule = k[2] /\ R(k).area = k[3]
        /\ c = IF names = {} THEN None ELSE CHOOSE x \in names : TRUE
    BY DEF UserRow
  <2>2. PICK v \in V : v.user # None /\ k = Key(v)
    BY DEF UserGroups
  <2>3. ASSUME c # None
        PROVE  \E w \in V : R(k).date = Day(w.start) /\ R(k).rule = w.rule /\ R(k).area = w.area /\ w.company = c
    <3>1. c \in names
      BY <2>1, <2>3
    <3>2. PICK w \in UserGroup(V, k) : w["company"] = c
      BY <3>1 DEF Names
    <3>3. w \in V /\ Day(w.start) = k[1] /\ w.rule = k[2] /\ w.area = k[3]
      BY DEF UserGroup
    <3> QED
      BY <2>1, <3>2, <3>3
  <2> QED
    BY <2>1, <2>2, <2>3
<1>4. IsFiniteSet({R(k) : k \in K})
  <2> DEFINE f == [v \in W |-> R(Key(v))]
  <2>1. {R(k) : k \in K} = {f[v] : v \in W}
    BY DEF UserGroups
  <2>2. IsFiniteSet(W)
    BY FS_Subset DEF Counted
  <2> HIDE DEF f, R, K, W
  <2>3. IsFiniteSet({f[v] : v \in W})
    BY <2>2, ImageFinite
  <2> QED
    BY <2>1, <2>3
<1> HIDE DEF R, K, Key
<1> QED
  BY <1>1, <1>2, <1>4 DEF Dated

\* The tables of the stored visits are linked.
LEMMA TablesFit == FactsSound /\ TablesMade => TablesLinked
<1> SUFFICES ASSUME FactsSound, TablesMade PROVE TablesLinked
  OBVIOUS
<1> DEFINE V == visits
           W == Eligible(visits)
<1>1. /\ Counted(V) /\ Counted(W)
      /\ \A v \in V : /\ Day(v.start) \in Nat /\ v.company \in Companies \cup {None}
                      /\ v.user # None \/ v.company # None => v \in W
  BY StoredVisits
<1>2. \A v \in W : Day(v.start) \in Nat
  BY <1>1 DEF Eligible
<1>3. tables.pages = PageDaily(W) /\ tables.companies = CompanyDaily(V) /\ tables.users = UserDaily(V)
  BY DEF TablesMade
<1> HIDE DEF V, W
<1>4. /\ Dated(tables.pages) /\ \A r \in tables.pages : Measured(r)
      /\ \A v \in W : \E q \in tables.pages :
            q.date = Day(v.start) /\ q.rule = v.rule /\ q.area = v.area
  BY <1>1, <1>2, <1>3, PagesLinked
<1>5. /\ Dated(tables.companies) /\ \A r \in tables.companies : Measured(r)
      /\ \A r \in tables.companies : \E v \in V :
            /\ r.date = Day(v.start) /\ r.rule = v.rule /\ r.area = v.area
            /\ r.company = v.company /\ v.company # None
      /\ \A v \in V : v.company # None => \E q \in tables.companies :
            q.date = Day(v.start) /\ q.rule = v.rule /\ q.area = v.area /\ q.company = v.company
  BY <1>1, <1>3, CompaniesLinked
<1>6. /\ Dated(tables.users)
      /\ \A r \in tables.users :
           /\ \E v \in V : /\ r.date = Day(v.start) /\ r.rule = v.rule /\ r.area = v.area
                           /\ v.user # None
           /\ r.company # None => \E v \in V : /\ r.date = Day(v.start) /\ r.rule = v.rule
                                               /\ r.area = v.area /\ v.company = r.company
  BY <1>1, <1>3, UsersLinked
<1>7. ASSUME NEW r \in tables.companies
      PROVE  r.company \in Companies /\ \E q \in tables.pages : Beside(r, q)
  <2>1. PICK v \in V : /\ r.date = Day(v.start) /\ r.rule = v.rule /\ r.area = v.area
                       /\ r.company = v.company /\ v.company # None
    BY <1>5
  <2>2. v \in W /\ v.company \in Companies
    BY <1>1, <2>1
  <2> QED
    BY <1>4, <2>1, <2>2 DEF Beside
<1>8. ASSUME NEW r \in tables.users
      PROVE  /\ \E q \in tables.pages : Beside(r, q)
             /\ r.company # None => \E q \in tables.companies : Beside(r, q) /\ q.company = r.company
  <2>1. PICK v \in V : r.date = Day(v.start) /\ r.rule = v.rule /\ r.area = v.area /\ v.user # None
    BY <1>6
  <2>2. \E q \in tables.pages : Beside(r, q)
    BY <1>1, <1>4, <2>1 DEF Beside
  <2>3. ASSUME r.company # None
        PROVE  \E q \in tables.companies : Beside(r, q) /\ q.company = r.company
    <3>1. PICK w \in V : /\ r.date = Day(w.start) /\ r.rule = w.rule /\ r.area = w.area
                         /\ w.company = r.company
      BY <1>6, <2>3
    <3> QED
      BY <1>5, <2>3, <3>1 DEF Beside
  <2> QED
    BY <2>2, <2>3
<1> QED
  BY <1>4, <1>5, <1>6, <1>7, <1>8 DEF TablesLinked

----------------------------------------------------------------------------
(* The figures of a report row.                                            *)

\* The rows behind a row of a report: for its sums,
MeasuresOf(grain, key, from, to, cohort) == OfKey(grain, MeasureRows(from, to, cohort), key)

\* for its companies
CompaniesOf(grain, key, from, to, cohort) == OfKey(grain, CompanyRows(from, to, cohort), key)

\* and for its users.
UsersOf(grain, key, from, to, cohort) == OfKey(grain, UserRows(from, to, cohort), key)

\* The companies of a row.
Adopters(grain, key, from, to, cohort) == {r.company : r \in CompaniesOf(grain, key, from, to, cohort)}

\* The rows of the users that a company of the row could have.
Candidates(grain, key, from, to) ==
    IF grain = "area" THEN Within(tables.users, from, to)
    ELSE OfKey(grain, Within(tables.users, from, to), key)

\* These users.
Reached(grain, key, from, to, cohort) ==
    {u.user : u \in {w \in Candidates(grain, key, from, to) :
                        w.company \in Adopters(grain, key, from, to, cohort)}}

\* What a report row shows, without the case that there is no such row.
Figures(grain, key, from, to, cohort) ==
    [companies   |-> Cardinality(Names(CompaniesOf(grain, key, from, to, cohort), "company")),
     users       |-> Cardinality(Names(UsersOf(grain, key, from, to, cohort), "user")),
     active      |-> Cardinality(Names(CompanyRows(from, to, cohort), "company")),
     denominator |-> Cardinality(Reached(grain, key, from, to, cohort)),
     visits      |-> FieldSum("visits", MeasuresOf(grain, key, from, to, cohort)),
     engaged     |-> FieldSum("engaged", MeasuresOf(grain, key, from, to, cohort)),
     clicks      |-> FieldSum("clicks", MeasuresOf(grain, key, from, to, cohort)),
     clicked     |-> FieldSum("clicked", MeasuresOf(grain, key, from, to, cohort))]

\* Rows of one page have the same key.
LEMMA SameKey ==
    ASSUME NEW grain \in Grains, NEW r, NEW q, Beside(r, q)
    PROVE  RowKey(grain, r) = RowKey(grain, q)
BY SummariesAssumption DEF RowKey, Beside

\* Where nothing is measured nobody is counted: every company and every user that a
\* filter lets through has a row among the measured ones.
LEMMA NothingShown ==
    ASSUME TablesLinked, NEW grain \in Grains, NEW key, NEW from, NEW to, NEW cohort \in Cohorts,
           MeasuresOf(grain, key, from, to, cohort) = {}
    PROVE  CompaniesOf(grain, key, from, to, cohort) = {} /\ UsersOf(grain, key, from, to, cohort) = {}
<1>1. CASE cohort = Everyone
  <2>1. \A q \in tables.pages : from <= q.date /\ q.date <= to => RowKey(grain, q) # key
    BY <1>1 DEF MeasuresOf, MeasureRows, OfKey, Within
  <2>2. ASSUME NEW r, \E q \in tables.pages : Beside(r, q), from <= r.date, r.date <= to
        PROVE  RowKey(grain, r) # key
    <3>1. PICK q \in tables.pages : Beside(r, q)
      BY <2>2
    <3>2. q.date = r.date
      BY <3>1 DEF Beside
    <3> QED
      BY <2>1, <2>2, <3>1, <3>2, SameKey
  <2>3. \A r \in tables.companies \cup tables.users : \E q \in tables.pages : Beside(r, q)
    BY DEF TablesLinked
  <2> QED
    BY <1>1, <2>2, <2>3 DEF CompaniesOf, UsersOf, CompanyRows, UserRows, OfCohort, OfKey, Within
<1>2. CASE cohort # Everyone
  <2>1. \A q \in tables.companies : from <= q.date /\ q.date <= to /\ q.company \in cohort
                                       => RowKey(grain, q) # key
    BY <1>2 DEF MeasuresOf, MeasureRows, OfKey, OfCohort, Within
  <2>2. CompaniesOf(grain, key, from, to, cohort) = {}
    BY <1>2, <2>1 DEF CompaniesOf, CompanyRows, OfCohort, OfKey, Within
  <2>3. None \notin cohort
    BY <1>2, SummariesAssumption DEF Cohorts
  <2>4. ASSUME NEW r \in tables.users, from <= r.date, r.date <= to, r.company \in cohort
        PROVE  RowKey(grain, r) # key
    <3>1. PICK q \in tables.companies : Beside(r, q) /\ q.company = r.company
      BY <2>3, <2>4 DEF TablesLinked
    <3>2. q.date = r.date
      BY <3>1 DEF Beside
    <3> QED
      BY <2>1, <2>4, <3>1, <3>2, SameKey
  <2>5. UsersOf(grain, key, from, to, cohort) = {}
    BY <1>2, <2>4 DEF UsersOf, UserRows, OfCohort, OfKey, Within
  <2> QED
    BY <2>2, <2>5
<1> QED
  BY <1>1, <1>2

\* The denominator of a row counts the users its companies could have.
LEMMA Denominators ==
    ASSUME NEW grain \in Grains, NEW key, NEW from, NEW to, NEW cohort
    PROVE  DenominatorOf(grain, key, from, to, cohort) = Cardinality(Reached(grain, key, from, to, cohort))
<1>1. CASE grain = "area"
  BY <1>1 DEF DenominatorOf, AreaDenominator, Reached, Candidates, Adopters, AdoptingCompanies, CompaniesOf
<1>2. CASE grain = "page"
  BY <1>2 DEF DenominatorOf, PageDenominator, Reached, Candidates, Adopters, AdoptingCompanies, CompaniesOf
<1>3. CASE grain = "display"
  BY <1>3 DEF DenominatorOf, DisplayDenominator, Reached, Candidates, Adopters, AdoptingCompanies, CompaniesOf
<1> QED
  BY <1>1, <1>2, <1>3, SummariesAssumption

\* The rows that have clicks add up like the others.
LEMMA ClickedTotal == ASSUME NEW S PROVE Total(S, LAMBDA r : r.clicked) = FieldSum("clicked", S)
BY DEF Total, FieldSum, MapThenSumSet, MapThenFoldSet

\* The figures of a summary's row.
Shows(row, grain, key, from, to, cohort) ==
    /\ row.visits = FieldSum("visits", MeasuresOf(grain, key, from, to, cohort))
    /\ row.engaged = FieldSum("engaged", MeasuresOf(grain, key, from, to, cohort))
    /\ row.clicks = FieldSum("clicks", MeasuresOf(grain, key, from, to, cohort))
    /\ row.clicked = FieldSum("clicked", MeasuresOf(grain, key, from, to, cohort))
    /\ row.companies = Cardinality(Names(CompaniesOf(grain, key, from, to, cohort), "company"))
    /\ row.users = Cardinality(Names(UsersOf(grain, key, from, to, cohort), "user"))

\* The rows of a summary.
LEMMA SummaryRows ==
    ASSUME NEW grain \in Grains, NEW from, NEW to, NEW cohort
    PROVE  LET s == SummaryOf(grain, from, to, cohort)
           IN  \A key : /\ key \in DOMAIN s <=> MeasuresOf(grain, key, from, to, cohort) # {}
                        /\ key \in DOMAIN s => Shows(s[key], grain, key, from, to, cohort)
<1>1. SummaryOf(grain, from, to, cohort) = Summary(grain, from, to, cohort)
  BY SummariesAssumption DEF SummaryOf, AreaSummary, PageSummary, DisplaySummary
<1> DEFINE s == Summary(grain, from, to, cohort)
<1>3. ASSUME NEW key
      PROVE  key \in DOMAIN s <=> MeasuresOf(grain, key, from, to, cohort) # {}
  BY DEF Summary, MeasuresOf, OfKey
<1>4. ASSUME NEW key, key \in DOMAIN s
      PROVE  Shows(s[key], grain, key, from, to, cohort)
  <2> DEFINE M == MeasuresOf(grain, key, from, to, cohort)
             C == CompaniesOf(grain, key, from, to, cohort)
             U == UsersOf(grain, key, from, to, cohort)
  <2>1. s[key] = [visits    |-> Total(M, LAMBDA r : r.visits),
                  engaged   |-> Total(M, LAMBDA r : r.engaged),
                  clicks    |-> Total(M, LAMBDA r : r.clicks),
                  clicked   |-> Total(M, LAMBDA r : r.clicked),
                  companies |-> CountOf(C, LAMBDA r : r.company),
                  users     |-> CountOf(U, LAMBDA r : r.user)]
    BY <1>4 DEF Summary, MeasuresOf, CompaniesOf, UsersOf
  <2>2. /\ Total(M, LAMBDA r : r.visits) = FieldSum("visits", M)
        /\ Total(M, LAMBDA r : r.engaged) = FieldSum("engaged", M)
        /\ Total(M, LAMBDA r : r.clicks) = FieldSum("clicks", M)
        /\ Total(M, LAMBDA r : r.clicked) = FieldSum("clicked", M)
    BY Totals, ClickedTotal
  <2>3. /\ CountOf(C, LAMBDA r : r.company) = Cardinality(Names(C, "company"))
        /\ CountOf(U, LAMBDA r : r.user) = Cardinality(Names(U, "user"))
    BY DEF CountOf, Names
  <2> HIDE DEF s
  <2> QED
    BY <2>1, <2>2, <2>3 DEF Shows
<1> QED
  BY <1>1, <1>3, <1>4

\* A report row shows the figures.
LEMMA ChangeRows ==
    ASSUME TablesLinked, NEW grain \in Grains, NEW key, NEW from, NEW to, NEW cohort \in Cohorts
    PROVE  ChangeRow(grain, key, from, to, cohort) = Figures(grain, key, from, to, cohort)
<1> DEFINE s == SummaryOf(grain, from, to, cohort)
           row == IF key \in DOMAIN s THEN s[key] ELSE NoDaily
           M == MeasuresOf(grain, key, from, to, cohort)
           C == CompaniesOf(grain, key, from, to, cohort)
           U == UsersOf(grain, key, from, to, cohort)
<1>1. /\ row.companies = Cardinality(Names(C, "company")) /\ row.users = Cardinality(Names(U, "user"))
      /\ row.visits = FieldSum("visits", M) /\ row.engaged = FieldSum("engaged", M)
      /\ row.clicks = FieldSum("clicks", M) /\ row.clicked = FieldSum("clicked", M)
  <2>1. CASE key \in DOMAIN s
    BY <2>1, SummaryRows DEF Shows
  <2>2. CASE key \notin DOMAIN s
    <3>1. M = {}
      BY <2>2, SummaryRows
    <3>2. C = {} /\ U = {}
      BY <3>1, NothingShown
    <3>3. Names({}, "company") = {} /\ Names({}, "user") = {}
      BY DEF Names
    <3>4. row = NoDaily
      BY <2>2
    <3> HIDE DEF row, M, C, U
    <3> QED
      BY <3>1, <3>2, <3>3, <3>4, FieldSumEmpty, FS_EmptySet DEF NoDaily
  <2> QED
    BY <2>1, <2>2
<1>2. DenominatorOf(grain, key, from, to, cohort) = Cardinality(Reached(grain, key, from, to, cohort))
  BY Denominators
<1>3. DistinctCounts(from, to, cohort).companies = Cardinality(Names(CompanyRows(from, to, cohort), "company"))
  BY DEF DistinctCounts, CountOf, Names
<1>4. ChangeRow(grain, key, from, to, cohort) =
        [companies   |-> row.companies, users |-> row.users,
         active      |-> DistinctCounts(from, to, cohort).companies,
         denominator |-> DenominatorOf(grain, key, from, to, cohort),
         visits      |-> row.visits, engaged |-> row.engaged,
         clicks      |-> row.clicks, clicked |-> row.clicked]
  BY DEF ChangeRow
<1> HIDE DEF row
<1> QED
  BY <1>1, <1>2, <1>3, <1>4 DEF Figures

\* So does a daily row, where it has sums.
LEMMA DailyRows ==
    ASSUME NEW grain, NEW key, NEW d, NEW cohort
    PROVE  LET row == DailyRow(grain, key, d, cohort)
               M == MeasuresOf(grain, key, d, d, cohort)
           IN  /\ row.visits = FieldSum("visits", M) /\ row.engaged = FieldSum("engaged", M)
               /\ row.clicks = FieldSum("clicks", M) /\ row.clicked = FieldSum("clicked", M)
<1> DEFINE M == MeasuresOf(grain, key, d, d, cohort)
<1>1. CASE M = {}
  <2>1. DailyRow(grain, key, d, cohort) = NoDaily
    BY <1>1 DEF DailyRow, MeasuresOf
  <2> QED
    BY <1>1, <2>1, FieldSumEmpty DEF NoDaily
<1>2. CASE M # {}
  <2>1. LET row == DailyRow(grain, key, d, cohort)
        IN  /\ row.visits = Total(M, LAMBDA r : r.visits) /\ row.engaged = Total(M, LAMBDA r : r.engaged)
            /\ row.clicks = Total(M, LAMBDA r : r.clicks) /\ row.clicked = Total(M, LAMBDA r : r.clicked)
    BY <1>2 DEF DailyRow, MeasuresOf
  <2> QED
    BY <2>1, Totals, ClickedTotal
<1> QED
  BY <1>1, <1>2

----------------------------------------------------------------------------
(* The series of a period.                                                 *)

\* Rows of a table picked by company and key.
Picked(R, grain, key, from, to, cohort) == OfKey(grain, OfCohort(Within(R, from, to), cohort), key)

\* The picked rows of the first days of a period,
LEMMA PickedUpTo ==
    ASSUME NEW R, Dated(R), NEW grain, NEW key, NEW cohort, NEW from \in Nat, NEW to \in Nat,
           NEW d \in Nat, d <= to
    PROVE  Within(Picked(R, grain, key, from, to, cohort), from, d) = Picked(R, grain, key, from, d, cohort)
<1>1. \A r \in R : r.date \in Nat
  BY DEF Dated
<1> QED
  BY <1>1 DEF Picked, OfKey, OfCohort, Within

\* of one of its days,
LEMMA PickedOn ==
    ASSUME NEW R, Dated(R), NEW grain, NEW key, NEW cohort, NEW from \in Nat, NEW to \in Nat,
           NEW d \in Nat, from <= d, d <= to
    PROVE  On(Picked(R, grain, key, from, to, cohort), d) = Picked(R, grain, key, d, d, cohort)
<1>1. \A r \in R : r.date \in Nat
  BY DEF Dated
<1> QED
  BY <1>1 DEF Picked, OfKey, OfCohort, Within, On

\* and of all of it.
LEMMA PickedDated ==
    ASSUME NEW R, Dated(R), NEW grain, NEW key, NEW cohort, NEW from, NEW to
    PROVE  /\ Picked(R, grain, key, from, to, cohort) \subseteq R
           /\ Dated(Picked(R, grain, key, from, to, cohort))
           /\ From(Picked(R, grain, key, from, to, cohort), from)
<1> DEFINE P == Picked(R, grain, key, from, to, cohort)
<1>1. P \subseteq R /\ \A r \in P : from <= r.date
  BY DEF Picked, OfKey, OfCohort, Within
<1> HIDE DEF P
<1>2. Dated(P)
  BY <1>1, FS_Subset DEF Dated
<1> QED
  BY <1>1, <1>2 DEF From, P

\* What a report row is made of, as picked rows.
LEMMA RowsPicked ==
    ASSUME NEW grain, NEW key, NEW from, NEW to, NEW cohort
    PROVE  /\ MeasuresOf(grain, key, from, to, cohort)
                = Picked(IF cohort = Everyone THEN tables.pages ELSE tables.companies, grain, key, from, to, cohort)
           /\ CompaniesOf(grain, key, from, to, cohort) = Picked(tables.companies, grain, key, from, to, cohort)
           /\ UsersOf(grain, key, from, to, cohort) = Picked(tables.users, grain, key, from, to, cohort)
BY DEF MeasuresOf, MeasureRows, CompaniesOf, CompanyRows, UsersOf, UserRows, Picked, OfCohort

\* F holds the sums of each day.
MeasuresNew(F, f, grain, key, from, d, cohort) ==
    \A i \in from .. d : F[i] = FieldSum(f, MeasuresOf(grain, key, i, i, cohort))

\* The running sums of the daily measures are those of the period so far.
LEMMA MeasuresRun ==
    ASSUME TablesLinked, NEW grain, NEW key, NEW cohort, NEW from \in Nat,
           NEW d \in Nat, NEW f \in {"visits", "engaged", "clicks", "clicked"}, NEW F,
           MeasuresNew(F, f, grain, key, from, d, cohort)
    PROVE  Running(F, from, d) = FieldSum(f, MeasuresOf(grain, key, from, d, cohort))
<1> DEFINE R == IF cohort = Everyone THEN tables.pages ELSE tables.companies
           P == Picked(R, grain, key, from, d, cohort)
<1>1. Dated(R) /\ \A r \in R : r[f] \in Nat
  BY DEF TablesLinked, Measured
<1>2. \A i, j : MeasuresOf(grain, key, i, j, cohort) = Picked(R, grain, key, i, j, cohort)
  BY RowsPicked
<1> HIDE DEF R
<1>3. /\ Within(P, from, d) = MeasuresOf(grain, key, from, d, cohort)
      /\ P \subseteq R /\ Dated(P)
  BY <1>1, <1>2, PickedUpTo, PickedDated
<1>4. \A i \in from .. d : On(P, i) = MeasuresOf(grain, key, i, i, cohort)
  <2> SUFFICES ASSUME NEW i \in from .. d PROVE On(P, i) = MeasuresOf(grain, key, i, i, cohort)
    OBVIOUS
  <2>1. i \in Nat /\ from <= i /\ i <= d
    OBVIOUS
  <2> HIDE DEF P
  <2> QED
    BY <1>1, <1>2, <2>1, PickedOn DEF P
<1> HIDE DEF P
<1>5. \A r \in P : r[f] \in Nat
  BY <1>1, <1>3
<1>6. \A i \in from .. d : F[i] = FieldSum(f, On(P, i))
  BY <1>4 DEF MeasuresNew
<1>7. Running(F, from, d) = FieldSum(f, Within(P, from, d))
  BY <1>3, <1>5, <1>6, RunningField
<1> QED
  BY <1>3, <1>7

\* The running sums of companies and users first seen are their numbers so far.
LEMMA NamesRun ==
    ASSUME NEW R, Dated(R), NEW grain, NEW key, NEW cohort, NEW from \in Nat, NEW to \in Nat,
           NEW d \in Nat, d <= to, NEW who, NEW F,
           CountsNew(F, Picked(R, grain, key, from, to, cohort), who, from, d)
    PROVE  Running(F, from, d) = Cardinality(Names(Picked(R, grain, key, from, d, cohort), who))
<1> DEFINE P == Picked(R, grain, key, from, to, cohort)
<1>1. Within(P, from, d) = Picked(R, grain, key, from, d, cohort)
  BY PickedUpTo
<1>2. Dated(P) /\ From(P, from)
  BY PickedDated
<1> HIDE DEF P
<1>3. CountsNew(F, P, who, from, d)
  BY DEF P
<1>4. Running(F, from, d) = Cardinality(Names(Within(P, from, d), who))
  BY <1>2, <1>3, RunningNames
<1> QED
  BY <1>1, <1>4

\* The first day of some rows.
FirstDay(R) == Min({q.date : q \in R})

\* The rows of a company, and those of a user of it.
OfCompany(R, company) == {w \in R : w.company = company}
OfUser(R, user, company) == {w \in R : w.user = user /\ w.company = company}

\* A company and a user are there from a day on.
BothSince(C, W, u, company) == Max({FirstDay(OfCompany(C, company)), FirstDay(OfUser(W, u, company))})

\* The companies of C that the user has in W.
Links(C, W, u) == {w \in C : \E q \in W : q.user = u /\ q.company = w.company}

\* The day from which a user counts.
CountsSince(C, W, u) == Min({BothSince(C, W, u, c.company) : c \in Links(C, W, u)})

\* The first day is one of the days.
LEMMA FirstDayIn ==
    ASSUME NEW R, R # {}, \A r \in R : r.date \in Nat
    PROVE  /\ FirstDay(R) \in Nat /\ \E r \in R : FirstDay(R) = r.date
           /\ \A r \in R : FirstDay(R) <= r.date
<1> DEFINE D == {q.date : q \in R}
<1>1. D \subseteq Nat /\ D # {}
  OBVIOUS
<1>2. Min(D) \in D /\ \A y \in D : Min(D) <= y
  <2> HIDE DEF D
  <2> QED
    BY <1>1, LeastIn
<1> QED
  BY <1>2 DEF FirstDay

\* The later of two days.
LEMMA LaterOf ==
    ASSUME NEW a \in Nat, NEW b \in Nat
    PROVE  Max({a, b}) \in Nat /\ \A d \in Nat : Max({a, b}) <= d <=> a <= d /\ b <= d
<1>1. CASE a >= b
  <2>1. \A x \in {a, b} : (\A y \in {a, b} : x >= y) => x = a
    BY <1>1
  <2>2. a \in {a, b} /\ \A y \in {a, b} : a >= y
    BY <1>1
  <2>3. Max({a, b}) = a
    BY <2>1, <2>2 DEF Max
  <2> QED
    BY <1>1, <2>3
<1>2. CASE ~ a >= b
  <2>1. \A x \in {a, b} : (\A y \in {a, b} : x >= y) => x = b
    BY <1>2
  <2>2. b \in {a, b} /\ \A y \in {a, b} : b >= y
    BY <1>2
  <2>3. Max({a, b}) = b
    BY <2>1, <2>2 DEF Max
  <2> QED
    BY <1>2, <2>3
<1> QED
  BY <1>1, <1>2

\* A user counts by day d if one of their companies has been seen by then, and they with it.
LEMMA CountsWhen ==
    ASSUME NEW C, Dated(C), NEW W, Dated(W), NEW u, Links(C, W, u) # {}
    PROVE  /\ CountsSince(C, W, u) \in Nat
           /\ \A d \in Nat : CountsSince(C, W, u) <= d <=>
                \E c \in C, q \in W : /\ q.user = u /\ q.company = c.company
                                      /\ c.date <= d /\ q.date <= d
<1> DEFINE L == Links(C, W, u)
           D == {BothSince(C, W, u, c.company) : c \in L}
<1>1. ASSUME NEW c \in L
      PROVE  /\ BothSince(C, W, u, c.company) \in Nat
             /\ \A d \in Nat : BothSince(C, W, u, c.company) <= d <=>
                  \E b \in C, q \in W : /\ b.company = c.company /\ q.user = u /\ q.company = c.company
                                        /\ b.date <= d /\ q.date <= d
  <2> DEFINE A == OfCompany(C, c.company)
             B == OfUser(W, u, c.company)
  <2>1. A # {} /\ B # {}
    BY DEF Links, OfCompany, OfUser
  <2>2. (\A r \in A : r.date \in Nat) /\ (\A r \in B : r.date \in Nat)
    BY DEF Dated, OfCompany, OfUser
  <2>3. /\ \A r : r \in A <=> r \in C /\ r.company = c.company
        /\ \A r : r \in B <=> r \in W /\ r.user = u /\ r.company = c.company
    BY DEF OfCompany, OfUser
  <2> HIDE DEF A, B, L
  <2>4. /\ FirstDay(A) \in Nat /\ \E r \in A : FirstDay(A) = r.date
        /\ \A r \in A : FirstDay(A) <= r.date
    BY <2>1, <2>2, FirstDayIn
  <2>5. /\ FirstDay(B) \in Nat /\ \E r \in B : FirstDay(B) = r.date
        /\ \A r \in B : FirstDay(B) <= r.date
    BY <2>1, <2>2, FirstDayIn
  <2>6. BothSince(C, W, u, c.company) = Max({FirstDay(A), FirstDay(B)})
    BY DEF BothSince, A, B
  <2>7. /\ BothSince(C, W, u, c.company) \in Nat
        /\ \A d \in Nat : BothSince(C, W, u, c.company) <= d <=> FirstDay(A) <= d /\ FirstDay(B) <= d
    BY <2>4, <2>5, <2>6, LaterOf
  <2>8. \A d \in Nat : FirstDay(A) <= d <=> \E r \in A : r.date <= d
    BY <2>2, <2>4
  <2>9. \A d \in Nat : FirstDay(B) <= d <=> \E r \in B : r.date <= d
    BY <2>2, <2>5
  <2> QED
    BY <2>3, <2>7, <2>8, <2>9
<1>2. D \subseteq Nat /\ D # {}
  BY <1>1
<1>3. CountsSince(C, W, u) = Min(D)
  BY DEF CountsSince
<1>4. \A r : r \in L <=> r \in C /\ \E q \in W : q.user = u /\ q.company = r.company
  BY DEF Links
<1>5. Min(D) \in D /\ \A y \in D : Min(D) <= y
  <2> HIDE DEF D
  <2> QED
    BY <1>2, LeastIn
<1>6. CountsSince(C, W, u) \in Nat
  BY <1>2, <1>3, <1>5
<1>7. PICK c \in L : CountsSince(C, W, u) = BothSince(C, W, u, c.company)
  BY <1>3, <1>5
<1>8. \A b \in L : CountsSince(C, W, u) <= BothSince(C, W, u, b.company)
  BY <1>3, <1>5
<1> HIDE DEF D, L
<1>9. ASSUME NEW d \in Nat, CountsSince(C, W, u) <= d
      PROVE  \E b \in C, q \in W : q.user = u /\ q.company = b.company /\ b.date <= d /\ q.date <= d
  BY <1>1, <1>7, <1>9
<1>10. ASSUME NEW d \in Nat, NEW b \in C, NEW q \in W, q.user = u, q.company = b.company,
              b.date <= d, q.date <= d
       PROVE  CountsSince(C, W, u) <= d
  <2>1. b \in L
    BY <1>4, <1>10
  <2>2. BothSince(C, W, u, b.company) <= d /\ BothSince(C, W, u, b.company) \in Nat
    BY <1>1, <1>10, <2>1
  <2> QED
    BY <1>6, <1>8, <2>1, <2>2
<1> QED
  BY <1>6, <1>9, <1>10

----------------------------------------------------------------------------
(* Penetration.                                                            *)

\* The rows of users with a company that a row could have.
NamedCandidates(grain, key, from, to) ==
    LET all == {u \in Within(tables.users, from, to) : u.company # None}
    IN  IF grain = "area" THEN all ELSE OfKey(grain, all, key)

\* The users in W with a company in C, and those that count from day d on.
Reachable(C, W) == {q.user : q \in {w \in W : w.company \in {c.company : c \in C}}}
ReachableSince(C, W, d) == {u \in Reachable(C, W) : CountsSince(C, W, u) = d}

\* These are who PenetrationEvents counts.
LEMMA PenetrationOn ==
    ASSUME NEW grain, NEW key, NEW d, NEW from, NEW to, NEW cohort
    PROVE  PenetrationEvents(grain, key, d, from, to, cohort)
             = Cardinality(ReachableSince(CompaniesOf(grain, key, from, to, cohort),
                                          NamedCandidates(grain, key, from, to), d))
BY DEF PenetrationEvents, ReachableSince, Reachable, CountsSince, Links, BothSince, FirstDay, OfCompany, OfUser,
       CompaniesOf, NamedCandidates

\* F counts the users from the day on which they count.
CountsReached(F, C, W, from, d) ==
    \A i \in from .. d : F[i] = Cardinality(ReachableSince(C, W, i))

\* The users who count by day d.
ReachableBy(C, W, d) ==
    {u \in Reachable(C, W) : \E c \in C, q \in W : /\ q.user = u /\ q.company = c.company
                                                   /\ c.date <= d /\ q.date <= d}

\* The users added day by day are those who count by the last day.
LEMMA ReachedRun ==
    ASSUME NEW C, Dated(C), NEW W, Dated(W), NEW from \in Nat, NEW d \in Nat, From(C, from),
           NEW F, CountsReached(F, C, W, from, d)
    PROVE  Running(F, from, d) = Cardinality(ReachableBy(C, W, d))
<1> DEFINE S == Reachable(C, W)
           M == [A \in SUBSET S |-> Cardinality(A)]
           I == from .. d
           G == [i \in I |-> ReachableSince(C, W, i)]
<1>1. IsFiniteSet(S)
  <2>1. IsFiniteSet({q.user : q \in W})
    <3> DEFINE h == [q \in W |-> q.user]
    <3>1. {q.user : q \in W} = {h[q] : q \in W}
      OBVIOUS
    <3>2. IsFiniteSet(W)
      BY DEF Dated
    <3> HIDE DEF h
    <3>3. IsFiniteSet({h[q] : q \in W})
      BY <3>2, ImageFinite
    <3> QED
      BY <3>1, <3>3
  <2>2. S \subseteq {q.user : q \in W}
    BY DEF Reachable
  <2> QED
    BY <2>1, <2>2, FS_Subset
<1>2. Additive(M, S)
  BY <1>1, CountAdditive
<1>3. IsFiniteSet(I)
  BY FS_Interval
<1>4. ASSUME NEW u \in S
      PROVE  /\ CountsSince(C, W, u) \in Nat /\ from <= CountsSince(C, W, u)
             /\ CountsSince(C, W, u) <= d <=> u \in ReachableBy(C, W, d)
  <2>1. PICK w \in W : w.user = u /\ \E c \in C : w.company = c.company
    BY DEF Reachable
  <2>2. Links(C, W, u) # {}
    BY <2>1 DEF Links
  <2>3. /\ CountsSince(C, W, u) \in Nat
        /\ \A e \in Nat : CountsSince(C, W, u) <= e <=>
              \E c \in C, q \in W : q.user = u /\ q.company = c.company /\ c.date <= e /\ q.date <= e
    BY <2>2, CountsWhen
  <2>4. PICK c \in C : c.date <= CountsSince(C, W, u)
    BY <2>3
  <2>5. c.date \in Nat /\ from <= c.date
    BY DEF Dated, From
  <2>6. CountsSince(C, W, u) <= d <=> u \in ReachableBy(C, W, d)
    BY <2>3 DEF ReachableBy
  <2> QED
    BY <2>3, <2>4, <2>5, <2>6
<1>5. Portions(F, I, G, M, S)
  <2>1. \A i \in I : G[i] \in SUBSET S /\ G[i] = ReachableSince(C, W, i)
    BY DEF ReachableSince
  <2>2. \A i \in I : F[i] = M[G[i]]
    BY <2>1 DEF CountsReached
  <2>3. \A i, j \in I : i # j => G[i] \cap G[j] = {}
    BY DEF ReachableSince
  <2> HIDE DEF G, M
  <2> QED
    BY <2>1, <2>2, <2>3 DEF Portions
<1>6. Whole(G, I) = ReachableBy(C, W, d)
  <2>1. \A u : u \in Whole(G, I) <=> \E i \in I : u \in S /\ CountsSince(C, W, u) = i
    BY DEF Whole, ReachableSince
  <2>2. \A u : u \in ReachableBy(C, W, d) => u \in S
    BY DEF ReachableBy
  <2>3. ASSUME NEW u \in S
        PROVE  (\E i \in I : CountsSince(C, W, u) = i) <=> u \in ReachableBy(C, W, d)
    <3>1. /\ CountsSince(C, W, u) \in Nat /\ from <= CountsSince(C, W, u)
          /\ CountsSince(C, W, u) <= d <=> u \in ReachableBy(C, W, d)
      BY <1>4
    <3> HIDE DEF S
    <3> QED
      BY <3>1
  <2> HIDE DEF G, S, I
  <2> QED
    BY <2>1, <2>2, <2>3
<1>7. M[ReachableBy(C, W, d)] = Cardinality(ReachableBy(C, W, d))
  BY DEF ReachableBy
<1> HIDE DEF M, G, S
<1> QED
  BY <1>2, <1>3, <1>5, <1>6, <1>7, RunningSum, SumOfPortions

\* The users of a period so far are those of the denominator.
LEMMA ReachedBy ==
    ASSUME TablesLinked, NEW grain, NEW key, NEW cohort, NEW from \in Nat, NEW to \in Nat,
           NEW d \in Nat, d <= to
    PROVE  ReachableBy(CompaniesOf(grain, key, from, to, cohort), NamedCandidates(grain, key, from, to), d)
             = Reached(grain, key, from, d, cohort)
<1> DEFINE C == CompaniesOf(grain, key, from, to, cohort)
           W == NamedCandidates(grain, key, from, to)
<1>1. \A r \in tables.companies : r.date \in Nat /\ r.company # None
  BY SummariesAssumption DEF TablesLinked, Dated
<1>2. \A r \in tables.users : r.date \in Nat
  BY DEF TablesLinked, Dated
<1>3. \A c : c \in C /\ c.date <= d <=> c \in CompaniesOf(grain, key, from, d, cohort)
  <2>1. Dated(tables.companies)
    BY DEF TablesLinked
  <2>2. CompaniesOf(grain, key, from, d, cohort) = Within(C, from, d)
    BY <2>1, RowsPicked, PickedUpTo
  <2>3. Dated(C) /\ From(C, from)
    BY <2>1, RowsPicked, PickedDated
  <2> HIDE DEF C
  <2> QED
    BY <2>2, <2>3 DEF Within, From, Dated
<1>4. \A q : q \in W /\ q.date <= d <=> q \in Candidates(grain, key, from, d) /\ q.company # None
  <2>1. CASE grain = "area"
    BY <1>2, <2>1 DEF NamedCandidates, Candidates, Within
  <2>2. CASE grain # "area"
    BY <1>2, <2>2 DEF NamedCandidates, Candidates, Within, OfKey
  <2> QED
    BY <2>1, <2>2
<1>5. \A c \in C : c.company # None
  BY <1>1 DEF CompaniesOf, CompanyRows, OfCohort, OfKey, Within
<1> HIDE DEF C, W
<1>6. \A u : u \in ReachableBy(C, W, d) <=>
         \E c \in C, q \in W : q.user = u /\ q.company = c.company /\ c.date <= d /\ q.date <= d
  BY DEF ReachableBy, Reachable
<1>7. \A u : u \in Reached(grain, key, from, d, cohort) <=>
         \E q \in Candidates(grain, key, from, d) : q.user = u /\
            \E c \in CompaniesOf(grain, key, from, d, cohort) : q.company = c.company
  BY DEF Reached, Adopters
<1>8. \A u : u \in ReachableBy(C, W, d) <=> u \in Reached(grain, key, from, d, cohort)
  BY <1>3, <1>4, <1>5, <1>6, <1>7
<1> QED
  BY <1>8 DEF C, W

\* The running sums of those who come to count are the denominators.
LEMMA PenetrationRun ==
    ASSUME TablesLinked, NEW grain, NEW key, NEW cohort, NEW from \in Nat, NEW to \in Nat,
           NEW d \in Nat, d <= to, NEW F,
           \A i \in from .. d : F[i] = PenetrationEvents(grain, key, i, from, to, cohort)
    PROVE  Running(F, from, d) = Cardinality(Reached(grain, key, from, d, cohort))
<1> DEFINE C == CompaniesOf(grain, key, from, to, cohort)
           W == NamedCandidates(grain, key, from, to)
<1>1. Dated(C) /\ From(C, from)
  <2>1. Dated(tables.companies)
    BY DEF TablesLinked
  <2> QED
    BY <2>1, RowsPicked, PickedDated
<1>2. Dated(W)
  <2>1. W \subseteq tables.users
    BY DEF NamedCandidates, Within, OfKey
  <2> HIDE DEF W
  <2> QED
    BY <2>1, FS_Subset DEF TablesLinked, Dated
<1>3. CountsReached(F, C, W, from, d)
  BY PenetrationOn DEF CountsReached
<1>4. ReachableBy(C, W, d) = Reached(grain, key, from, d, cohort)
  BY ReachedBy
<1> HIDE DEF C, W
<1>5. Running(F, from, d) = Cardinality(ReachableBy(C, W, d))
  BY <1>1, <1>2, <1>3, ReachedRun
<1> QED
  BY <1>4, <1>5

\* A series shows the figures of the period so far.
LEMMA SeriesShows ==
    ASSUME TablesLinked, NEW grain, NEW key, NEW cohort, NEW from \in Nat, NEW to \in Nat,
           NEW d \in Nat, d <= to
    PROVE  PeriodToDate(grain, key, d, from, to, cohort) = Figures(grain, key, from, d, cohort)
<1> DEFINE days == from .. d
           row  == [i \in days |-> DailyRow(grain, key, i, cohort)]
           FC == [i \in days |-> CompanyEvents(grain, key, i, from, to, cohort)]
           FU == [i \in days |-> UserEvents(grain, key, i, from, to, cohort)]
           FA == [i \in days |-> ProjectCompanyEvents(i, from, to, cohort)]
           FP == [i \in days |-> PenetrationEvents(grain, key, i, from, to, cohort)]
           FV == [i \in days |-> row[i].visits]
           FE == [i \in days |-> row[i].engaged]
           FK == [i \in days |-> row[i].clicks]
           FD == [i \in days |-> row[i].clicked]
<1>1. PeriodToDate(grain, key, d, from, to, cohort) =
        [companies |-> Running(FC, from, d), users |-> Running(FU, from, d),
         active |-> Running(FA, from, d), denominator |-> Running(FP, from, d),
         visits |-> Running(FV, from, d), engaged |-> Running(FE, from, d),
         clicks |-> Running(FK, from, d), clicked |-> Running(FD, from, d)]
  BY DEF PeriodToDate
<1>2. Dated(tables.companies) /\ Dated(tables.users)
  BY DEF TablesLinked
<1>3. Running(FC, from, d) = Cardinality(Names(CompaniesOf(grain, key, from, d, cohort), "company"))
  <2>1. CountsNew(FC, Picked(tables.companies, grain, key, from, to, cohort), "company", from, d)
    BY DEF CountsNew, CompanyEvents, CountOf, On, Names, Picked, CompanyRows
  <2> HIDE DEF FC
  <2> QED
    BY <1>2, <2>1, NamesRun, RowsPicked
<1>4. Running(FU, from, d) = Cardinality(Names(UsersOf(grain, key, from, d, cohort), "user"))
  <2>1. CountsNew(FU, Picked(tables.users, grain, key, from, to, cohort), "user", from, d)
    BY DEF CountsNew, UserEvents, CountOf, On, Names, Picked, UserRows
  <2> HIDE DEF FU
  <2> QED
    BY <1>2, <2>1, NamesRun, RowsPicked
<1>5. Running(FA, from, d) = Cardinality(Names(CompanyRows(from, d, cohort), "company"))
  <2> DEFINE P == CompanyRows(from, to, cohort)
  <2>1. CountsNew(FA, P, "company", from, d)
    BY DEF CountsNew, ProjectCompanyEvents, CountOf, On, Names
  <2>2. P \subseteq tables.companies /\ From(P, from)
    BY DEF CompanyRows, OfCohort, Within, From
  <2>3. Dated(P)
    <3> HIDE DEF P
    <3> QED
      BY <1>2, <2>2, FS_Subset DEF Dated
  <2>4. Within(P, from, d) = CompanyRows(from, d, cohort)
    BY <1>2 DEF CompanyRows, OfCohort, Within, Dated
  <2> HIDE DEF FA, P
  <2> QED
    BY <2>1, <2>2, <2>3, <2>4, RunningNames
<1>6. Running(FP, from, d) = Cardinality(Reached(grain, key, from, d, cohort))
  <2>1. \A i \in from .. d : FP[i] = PenetrationEvents(grain, key, i, from, to, cohort)
    OBVIOUS
  <2> HIDE DEF FP
  <2> QED
    BY <2>1, PenetrationRun
<1>7. \A i \in from .. d :
         LET M == MeasuresOf(grain, key, i, i, cohort)
         IN  /\ FV[i] = FieldSum("visits", M) /\ FE[i] = FieldSum("engaged", M)
             /\ FK[i] = FieldSum("clicks", M) /\ FD[i] = FieldSum("clicked", M)
  BY DailyRows
<1> HIDE DEF FC, FU, FA, FP, FV, FE, FK, FD
<1>8. Running(FV, from, d) = FieldSum("visits", MeasuresOf(grain, key, from, d, cohort))
  <2>1. MeasuresNew(FV, "visits", grain, key, from, d, cohort)
    BY <1>7 DEF MeasuresNew
  <2> QED
    BY <2>1, MeasuresRun
<1>9. Running(FE, from, d) = FieldSum("engaged", MeasuresOf(grain, key, from, d, cohort))
  <2>1. MeasuresNew(FE, "engaged", grain, key, from, d, cohort)
    BY <1>7 DEF MeasuresNew
  <2> QED
    BY <2>1, MeasuresRun
<1>10. Running(FK, from, d) = FieldSum("clicks", MeasuresOf(grain, key, from, d, cohort))
  <2>1. MeasuresNew(FK, "clicks", grain, key, from, d, cohort)
    BY <1>7 DEF MeasuresNew
  <2> QED
    BY <2>1, MeasuresRun
<1>11. Running(FD, from, d) = FieldSum("clicked", MeasuresOf(grain, key, from, d, cohort))
  <2>1. MeasuresNew(FD, "clicked", grain, key, from, d, cohort)
    BY <1>7 DEF MeasuresNew
  <2> QED
    BY <2>1, MeasuresRun
<1> QED
  BY <1>1, <1>3, <1>4, <1>5, <1>6, <1>8, <1>9, <1>10, <1>11 DEF Figures

\* Every series is exact.
LEMMA SeriesExact ==
    ASSUME TablesLinked
    PROVE  PeriodToDateExact
<1> SUFFICES ASSUME NEW grain \in Grains, NEW cohort \in Cohorts, NEW p \in Periods,
                    NEW key, NEW d \in p[1] .. p[2]
             PROVE  PeriodToDate(grain, key, d, p[1], p[2], cohort) = ChangeRow(grain, key, p[1], d, cohort)
  BY DEF PeriodToDateExact
<1>1. p[1] \in Nat /\ p[2] \in Nat
  BY LastDay DEF Periods, Days
<1>2. d \in Nat /\ d <= p[2]
  BY <1>1
<1> QED
  BY <1>1, <1>2, SeriesShows, ChangeRows

----------------------------------------------------------------------------
(* Filters.                                                                *)

\* The names in finitely many rows are finitely many.
LEMMA NamesFinite ==
    ASSUME NEW R, IsFiniteSet(R), NEW who
    PROVE  IsFiniteSet(Names(R, who)) /\ Cardinality(Names(R, who)) \in Nat
<1> DEFINE h == [r \in R |-> r[who]]
<1>1. Names(R, who) \subseteq {h[r] : r \in R}
  BY DEF Names
<1> HIDE DEF h
<1>2. IsFiniteSet({h[r] : r \in R})
  BY ImageFinite
<1> QED
  BY <1>1, <1>2, FS_Subset, FS_CardinalityType

\* Fewer rows have no more names.
LEMMA NamesFewer ==
    ASSUME NEW Q, IsFiniteSet(Q), NEW R, R \subseteq Q, NEW who
    PROVE  Cardinality(Names(R, who)) <= Cardinality(Names(Q, who))
<1>1. Names(R, who) \subseteq Names(Q, who)
  BY DEF Names
<1> QED
  BY <1>1, NamesFinite, FS_Subset

\* Visits with clicks are counted additively.
LEMMA ClickedAdditive ==
    ASSUME NEW V, IsFiniteSet(V)
    PROVE  Additive([A \in SUBSET V |-> Cardinality(Clicked(A))], V)
<1> DEFINE M == [A \in SUBSET V |-> Cardinality(A)]
           N == [A \in SUBSET V |-> Cardinality(Clicked(A))]
<1>1. Additive(M, V)
  BY CountAdditive
<1>2. \A A \in SUBSET V : Clicked(A) \in SUBSET V /\ N[A] = M[Clicked(A)]
  BY DEF Clicked
<1>3. Clicked({}) = {} /\ {} \in SUBSET V
  BY DEF Clicked
<1>4. \A A, B \in SUBSET V : /\ A \cup B \in SUBSET V
                             /\ Clicked(A \cup B) = Clicked(A) \cup Clicked(B)
                             /\ A \cap B = {} => Clicked(A) \cap Clicked(B) = {}
  BY DEF Clicked
<1> HIDE DEF M, N
<1>5. N[{}] = 0
  BY <1>1, <1>2, <1>3 DEF Additive
<1>6. \A A \in SUBSET V : N[A] \in Nat
  BY <1>1, <1>2 DEF Additive
<1>7. ASSUME NEW A \in SUBSET V, NEW B \in SUBSET V, A \cap B = {}
      PROVE  N[A \cup B] = N[A] + N[B]
  <2>1. /\ N[A \cup B] = M[Clicked(A) \cup Clicked(B)]
        /\ Clicked(A) \in SUBSET V /\ Clicked(B) \in SUBSET V /\ Clicked(A) \cap Clicked(B) = {}
        /\ N[A] = M[Clicked(A)] /\ N[B] = M[Clicked(B)]
    BY <1>2, <1>4, <1>7
  <2>2. M[Clicked(A) \cup Clicked(B)] = M[Clicked(A)] + M[Clicked(B)]
    BY <1>1, <2>1 DEF Additive
  <2> QED
    BY <2>1, <2>2
<1>8. Additive(N, V)
  BY <1>5, <1>6, <1>7 DEF Additive
<1> QED
  BY <1>8 DEF N

\* What each measure is of a set of visits.
MeasureOf(f, V) ==
    [A \in SUBSET V |-> CASE f = "visits"  -> Cardinality(A)
                          [] f = "clicked" -> Cardinality(Clicked(A))
                          [] f = "engaged" -> FieldSum("engaged", A)
                          [] f = "clicks"  -> FieldSum("clicks", A)]

\* The names of the measures.
Measures == {"visits", "clicked", "engaged", "clicks"}

\* Every measure is additive.
LEMMA MeasuresAdditive ==
    ASSUME NEW V, Counted(V), NEW f \in Measures
    PROVE  Additive(MeasureOf(f, V), V)
<1>0. IsFiniteSet(V) /\ (\A v \in V : v["engaged"] \in Nat) /\ (\A v \in V : v["clicks"] \in Nat)
  BY DEF Counted
<1>1. CASE f = "visits"
  <2>1. MeasureOf(f, V) = [A \in SUBSET V |-> Cardinality(A)]
    BY <1>1 DEF MeasureOf
  <2> QED
    BY <1>0, <2>1, CountAdditive
<1>2. CASE f = "clicked"
  <2>1. MeasureOf(f, V) = [A \in SUBSET V |-> Cardinality(Clicked(A))]
    BY <1>2 DEF MeasureOf
  <2> QED
    BY <1>0, <2>1, ClickedAdditive
<1>3. CASE f = "engaged"
  <2>1. MeasureOf(f, V) = [A \in SUBSET V |-> FieldSum("engaged", A)]
    BY <1>3 DEF MeasureOf
  <2>2. Additive([A \in SUBSET V |-> FieldSum("engaged", A)], V)
    BY <1>0, FieldAdditive
  <2> QED
    BY <2>1, <2>2
<1>4. CASE f = "clicks"
  <2>1. MeasureOf(f, V) = [A \in SUBSET V |-> FieldSum("clicks", A)]
    BY <1>4 DEF MeasureOf
  <2>2. Additive([A \in SUBSET V |-> FieldSum("clicks", A)], V)
    BY <1>0, FieldAdditive
  <2> QED
    BY <2>1, <2>2
<1> QED
  BY <1>1, <1>2, <1>3, <1>4 DEF Measures

\* The rows R stand for disjoint groups of visits, of which they hold the measures.
Stands(R, G, V) ==
    /\ IsFiniteSet(R)
    /\ \A r \in R : /\ G[r] \in SUBSET V
                    /\ r["visits"] = Cardinality(G[r]) /\ r["clicked"] = Cardinality(Clicked(G[r]))
                    /\ r["engaged"] = FieldSum("engaged", G[r]) /\ r["clicks"] = FieldSum("clicks", G[r])
    /\ \A r, q \in R : r # q => G[r] \cap G[q] = {}

\* Rows of fewer visits add up to no more.
LEMMA StandsFor ==
    ASSUME NEW V, Counted(V), NEW R, NEW G, Stands(R, G, V), NEW f \in Measures
    PROVE  Whole(G, R) \in SUBSET V /\ FieldSum(f, R) = MeasureOf(f, V)[Whole(G, R)]
<1> DEFINE M == MeasureOf(f, V)
<1>1. Additive(M, V)
  BY MeasuresAdditive
<1>2. \A r \in R : G[r] \in SUBSET V /\ r[f] = M[G[r]]
  <2>1. CASE f = "visits"
    BY <2>1 DEF Stands, MeasureOf
  <2>2. CASE f = "clicked"
    BY <2>2 DEF Stands, MeasureOf
  <2>3. CASE f = "engaged"
    BY <2>3 DEF Stands, MeasureOf
  <2>4. CASE f = "clicks"
    BY <2>4 DEF Stands, MeasureOf
  <2> QED
    BY <2>1, <2>2, <2>3, <2>4 DEF Measures
<1>3. \A r, q \in R : r # q => G[r] \cap G[q] = {}
  BY DEF Stands
<1>4. IsFiniteSet(R)
  BY DEF Stands
<1> HIDE DEF M
<1>5. Grouped(R, f, G, M, V)
  BY <1>2, <1>3 DEF Grouped
<1>6. FieldSum(f, R) = M[Whole(G, R)]
  BY <1>1, <1>4, <1>5, SumOfGroups
<1>7. Whole(G, R) \in SUBSET V
  BY <1>2 DEF Whole
<1> QED
  BY <1>6, <1>7 DEF M

\* A subset of the rows stands for fewer visits.
LEMMA StandsPart ==
    ASSUME NEW V, NEW R, NEW G, Stands(R, G, V), NEW Q, Q \subseteq R
    PROVE  Stands(Q, G, V)
BY FS_Subset DEF Stands

\* The visits of a row of the page table, and of one of the company table.
PageVisits(V, r) == PageGroup(V, <<r.date, r.rule, r.area>>)
CompanyVisits(V, r) == CompanyGroup(V, <<r.date, r.rule, r.area, r.company>>)

\* Every row of the page table stands for its visits,
LEMMA PagesStand ==
    ASSUME NEW V, Counted(V), \A v \in V : Day(v.start) \in Nat
    PROVE  /\ Stands(PageDaily(V), [r \in PageDaily(V) |-> PageVisits(V, r)], V)
           /\ \A r \in PageDaily(V), q \in PageDaily(V) : Beside(r, q) => r = q
           /\ \A r \in PageDaily(V) : /\ r["companies"] = Cardinality(Names(PageVisits(V, r), "company"))
                                      /\ r["users"] = Cardinality(Names(PageVisits(V, r), "user"))
<1> DEFINE Rows == PageDaily(V)
           G == [r \in Rows |-> PageVisits(V, r)]
<1>1. ASSUME NEW r \in Rows
      PROVE  r = PageRow(PageVisits(V, r), <<r.date, r.rule, r.area>>)
  <2>1. PICK k \in PageGroups(V) : r = PageRow(PageGroup(V, k), k)
    BY PageRows
  <2>2. k = <<k[1], k[2], k[3]>> /\ r.date = k[1] /\ r.rule = k[2] /\ r.area = k[3]
    BY <2>1 DEF PageRow, PageGroups
  <2> QED
    BY <2>1, <2>2 DEF PageVisits
<1>2. IsFiniteSet(Rows)
  BY PagesLinked DEF Dated
<1>3. \A r \in Rows : PageVisits(V, r) \in SUBSET V
  BY DEF PageVisits, PageGroup
<1>4. \A r, q \in Rows : Beside(r, q) => r = q
  BY <1>1 DEF Beside, PageVisits
<1>5. \A r, q \in Rows : r # q => PageVisits(V, r) \cap PageVisits(V, q) = {}
  <2>1. \A r, q \in Rows : \A v : v \in PageVisits(V, r) /\ v \in PageVisits(V, q) => Beside(r, q)
    BY DEF PageVisits, PageGroup, Beside
  <2> QED
    BY <1>4, <2>1
<1>6. \A r \in Rows : LET g == PageVisits(V, r)
                      IN  /\ r["visits"] = Cardinality(g) /\ r["clicked"] = Cardinality(Clicked(g))
                          /\ r["engaged"] = FieldSum("engaged", g) /\ r["clicks"] = FieldSum("clicks", g)
                          /\ r["companies"] = Cardinality(Names(g, "company"))
                          /\ r["users"] = Cardinality(Names(g, "user"))
  <2> SUFFICES ASSUME NEW r \in Rows
               PROVE  LET g == PageVisits(V, r)
                      IN  /\ r["visits"] = Cardinality(g) /\ r["clicked"] = Cardinality(Clicked(g))
                          /\ r["engaged"] = FieldSum("engaged", g) /\ r["clicks"] = FieldSum("clicks", g)
                          /\ r["companies"] = Cardinality(Names(g, "company"))
                          /\ r["users"] = Cardinality(Names(g, "user"))
    OBVIOUS
  <2>1. r = PageRow(PageVisits(V, r), <<r.date, r.rule, r.area>>)
    BY <1>1
  <2> DEFINE g == PageVisits(V, r)
             p == PageRow(g, <<r.date, r.rule, r.area>>)
  <2>2. /\ p["visits"] = Cardinality(g) /\ p["clicked"] = Cardinality(Clicked(g))
        /\ p["engaged"] = FieldSum("engaged", g) /\ p["clicks"] = FieldSum("clicks", g)
        /\ p["companies"] = Cardinality(Names(g, "company"))
        /\ p["users"] = Cardinality(Names(g, "user"))
    BY DEF PageRow
  <2>3. r = p
    BY <2>1
  <2> HIDE DEF g, p
  <2>4. /\ r["visits"] = Cardinality(g) /\ r["clicked"] = Cardinality(Clicked(g))
        /\ r["engaged"] = FieldSum("engaged", g) /\ r["clicks"] = FieldSum("clicks", g)
        /\ r["companies"] = Cardinality(Names(g, "company"))
        /\ r["users"] = Cardinality(Names(g, "user"))
    BY <2>2, <2>3
  <2> QED
    BY <2>4 DEF g
<1>7. \A r \in Rows : G[r] = PageVisits(V, r)
  OBVIOUS
<1> HIDE DEF Rows, G
<1>8. Stands(Rows, G, V)
  BY <1>2, <1>3, <1>5, <1>6, <1>7 DEF Stands
<1> QED
  BY <1>4, <1>6, <1>8 DEF Rows, G

\* and so does every row of the company table.
LEMMA CompaniesStand ==
    ASSUME NEW V, Counted(V), \A v \in V : Day(v.start) \in Nat
    PROVE  Stands(CompanyDaily(V), [r \in CompanyDaily(V) |-> CompanyVisits(V, r)], V)
<1> DEFINE Rows == CompanyDaily(V)
           G == [r \in Rows |-> CompanyVisits(V, r)]
<1>1. ASSUME NEW r \in Rows
      PROVE  r = CompanyRow(CompanyVisits(V, r), <<r.date, r.rule, r.area, r.company>>)
  <2>1. PICK k \in CompanyGroups(V) : r = CompanyRow(CompanyGroup(V, k), k)
    BY CompanyTableRows
  <2>2. k = <<k[1], k[2], k[3], k[4]>> /\ r.date = k[1] /\ r.rule = k[2] /\ r.area = k[3] /\ r.company = k[4]
    BY <2>1 DEF CompanyRow, CompanyGroups
  <2> QED
    BY <2>1, <2>2 DEF CompanyVisits
<1>2. IsFiniteSet(Rows)
  BY CompaniesLinked DEF Dated
<1>3. \A r \in Rows : CompanyVisits(V, r) \in SUBSET V
  BY DEF CompanyVisits, CompanyGroup
<1>5. \A r, q \in Rows : r # q => CompanyVisits(V, r) \cap CompanyVisits(V, q) = {}
  <2>1. \A r, q \in Rows : \A v : v \in CompanyVisits(V, r) /\ v \in CompanyVisits(V, q)
            => q.date = r.date /\ q.rule = r.rule /\ q.area = r.area /\ q.company = r.company
    BY DEF CompanyVisits, CompanyGroup
  <2>2. \A r, q \in Rows : q.date = r.date /\ q.rule = r.rule /\ q.area = r.area /\ q.company = r.company
                              => r = q
    BY <1>1 DEF CompanyVisits
  <2> QED
    BY <2>1, <2>2
<1>6. \A r \in Rows : LET g == CompanyVisits(V, r)
                      IN  /\ r["visits"] = Cardinality(g) /\ r["clicked"] = Cardinality(Clicked(g))
                          /\ r["engaged"] = FieldSum("engaged", g) /\ r["clicks"] = FieldSum("clicks", g)
  <2> SUFFICES ASSUME NEW r \in Rows
               PROVE  LET g == CompanyVisits(V, r)
                      IN  /\ r["visits"] = Cardinality(g) /\ r["clicked"] = Cardinality(Clicked(g))
                          /\ r["engaged"] = FieldSum("engaged", g) /\ r["clicks"] = FieldSum("clicks", g)
    OBVIOUS
  <2>1. r = CompanyRow(CompanyVisits(V, r), <<r.date, r.rule, r.area, r.company>>)
    BY <1>1
  <2> DEFINE g == CompanyVisits(V, r)
             p == CompanyRow(g, <<r.date, r.rule, r.area, r.company>>)
  <2>2. /\ p["visits"] = Cardinality(g) /\ p["clicked"] = Cardinality(Clicked(g))
        /\ p["engaged"] = FieldSum("engaged", g) /\ p["clicks"] = FieldSum("clicks", g)
    BY DEF CompanyRow
  <2>3. r = p
    BY <2>1
  <2> HIDE DEF g, p
  <2>4. /\ r["visits"] = Cardinality(g) /\ r["clicked"] = Cardinality(Clicked(g))
        /\ r["engaged"] = FieldSum("engaged", g) /\ r["clicks"] = FieldSum("clicks", g)
    BY <2>2, <2>3
  <2> QED
    BY <2>4 DEF g
<1>7. \A r \in Rows : G[r] = CompanyVisits(V, r)
  OBVIOUS
<1> HIDE DEF Rows, G
<1>8. Stands(Rows, G, V)
  BY <1>2, <1>3, <1>5, <1>6, <1>7 DEF Stands
<1> QED
  BY <1>8 DEF Rows, G

----------------------------------------------------------------------------
(* A filter never shows more.                                              *)

\* The visits of a report row.
VisitsOfKey(grain, key, from, to) ==
    {v \in Eligible(visits) : from <= Day(v.start) /\ Day(v.start) <= to /\ RowKey(grain, v) = key}

\* All companies together have no more of any measure than the unfiltered report.
LEMMA CompaniesWithin ==
    ASSUME FactsSound, TablesMade, NEW grain \in Grains, NEW key, NEW from, NEW to, NEW f \in Measures
    PROVE  FieldSum(f, Picked(tables.companies, grain, key, from, to, Everyone))
               <= FieldSum(f, Picked(tables.pages, grain, key, from, to, Everyone))
<1> DEFINE V == visits
           E == Eligible(visits)
           R == Picked(tables.companies, grain, key, from, to, Everyone)
           Q == Picked(tables.pages, grain, key, from, to, Everyone)
           G == [r \in CompanyDaily(V) |-> CompanyVisits(V, r)]
           H == [r \in PageDaily(E) |-> PageVisits(E, r)]
           X == VisitsOfKey(grain, key, from, to)
           M == MeasureOf(f, V)
<1>1. /\ Counted(V) /\ Counted(E)
      /\ \A v \in V : Day(v.start) \in Nat /\ (v.company # None => v \in E)
  BY StoredVisits
<1>2. \A v \in E : Day(v.start) \in Nat
  BY <1>1 DEF Eligible
<1>3. tables.pages = PageDaily(E) /\ tables.companies = CompanyDaily(V)
  BY DEF TablesMade
<1>4. E \subseteq V
  BY DEF Eligible
<1>5. /\ \A r : r \in R <=> r \in CompanyDaily(V) /\ from <= r.date /\ r.date <= to /\ RowKey(grain, r) = key
      /\ \A r : r \in Q <=> r \in PageDaily(E) /\ from <= r.date /\ r.date <= to /\ RowKey(grain, r) = key
  BY <1>3 DEF Picked, OfKey, OfCohort, Within
<1>6. /\ \A r \in CompanyDaily(V) : \A v : v \in G[r] <=> /\ v \in V /\ Day(v.start) = r.date /\ v.rule = r.rule
                                                          /\ v.area = r.area /\ v.company = r.company
      /\ \A r \in PageDaily(E) : \A v : v \in H[r] <=> /\ v \in E /\ Day(v.start) = r.date /\ v.rule = r.rule
                                                       /\ v.area = r.area
  BY DEF CompanyVisits, CompanyGroup, PageVisits, PageGroup
<1>7. Stands(CompanyDaily(V), G, V)
  BY <1>1, CompaniesStand
<1>8. Stands(PageDaily(E), H, E)
  BY <1>1, <1>2, PagesStand
<1>9. \A r \in CompanyDaily(V) : r.company # None
  <2>1. \A r \in CompanyDaily(V) : \E v \in V : r.company = v.company /\ v.company # None
    BY <1>1, CompaniesLinked
  <2> QED
    BY <2>1
<1>10. \A v \in E : \E q \in PageDaily(E) : q.date = Day(v.start) /\ q.rule = v.rule /\ q.area = v.area
  BY <1>1, <1>2, PagesLinked
<1>11. \A r, v : v.rule = r.rule /\ v.area = r.area => RowKey(grain, v) = RowKey(grain, r)
  BY SummariesAssumption DEF RowKey
<1> HIDE DEF V, E, G, H, R, Q, M
<1>12. Whole(G, R) \subseteq X
  <2> SUFFICES ASSUME NEW r \in R, NEW v \in G[r] PROVE v \in X
    BY DEF Whole
  <2>1. /\ r \in CompanyDaily(V) /\ from <= r.date /\ r.date <= to /\ RowKey(grain, r) = key
        /\ v \in V /\ Day(v.start) = r.date /\ v.rule = r.rule /\ v.area = r.area /\ v.company = r.company
    BY <1>5, <1>6
  <2>2. v \in E
    BY <1>1, <1>9, <2>1
  <2>3. RowKey(grain, v) = key
    BY <1>11, <2>1
  <2> QED
    BY <2>1, <2>2, <2>3 DEF VisitsOfKey, E
<1>13. X \subseteq Whole(H, Q)
  <2> SUFFICES ASSUME NEW v \in X PROVE \E q \in Q : v \in H[q]
    BY DEF Whole
  <2>1. v \in E /\ from <= Day(v.start) /\ Day(v.start) <= to /\ RowKey(grain, v) = key
    BY DEF VisitsOfKey, E
  <2>2. PICK q \in PageDaily(E) : q.date = Day(v.start) /\ q.rule = v.rule /\ q.area = v.area
    BY <1>10, <2>1
  <2>3. RowKey(grain, v) = RowKey(grain, q)
    BY <1>11, <2>2
  <2> QED
    BY <1>5, <1>6, <2>1, <2>2, <2>3
<1>14. Stands(R, G, V) /\ Stands(Q, H, V)
  <2>1. R \subseteq CompanyDaily(V) /\ Q \subseteq PageDaily(E)
    BY <1>5
  <2>2. Stands(R, G, V)
    BY <1>7, <2>1, StandsPart
  <2>3. Stands(Q, H, E)
    BY <1>8, <2>1, StandsPart
  <2>4. Stands(Q, H, V)
    BY <1>4, <2>3 DEF Stands
  <2> QED
    BY <2>2, <2>4
<1>15. /\ Whole(G, R) \in SUBSET V /\ FieldSum(f, R) = M[Whole(G, R)]
  BY <1>1, <1>14, StandsFor DEF M
<1>16. /\ Whole(H, Q) \in SUBSET V /\ FieldSum(f, Q) = M[Whole(H, Q)]
  BY <1>1, <1>14, StandsFor DEF M
<1>17. Additive(M, V)
  BY <1>1, MeasuresAdditive DEF M
<1>18. Whole(G, R) \subseteq Whole(H, Q)
  BY <1>12, <1>13
<1>19. M[Whole(G, R)] <= M[Whole(H, Q)]
  BY <1>15, <1>16, <1>17, <1>18, AdditiveMonotone
<1> QED
  BY <1>15, <1>16, <1>19 DEF R, Q

\* Every figure of n is at most that of w.
AtMost(n, w) ==
    /\ n.companies <= w.companies /\ n.users <= w.users /\ n.active <= w.active
    /\ n.denominator <= w.denominator /\ n.visits <= w.visits /\ n.engaged <= w.engaged
    /\ n.clicks <= w.clicks /\ n.clicked <= w.clicked

\* The rows of a narrower cohort are among those of a wider one.
LEMMA RowsNarrower ==
    ASSUME TablesLinked, NEW narrow \in Cohorts, NEW wide \in Cohorts, Widens(narrow, wide),
           NEW from, NEW to
    PROVE  /\ narrow # Everyone
           /\ CompanyRows(from, to, narrow) \subseteq CompanyRows(from, to, wide)
           /\ UserRows(from, to, narrow) \subseteq UserRows(from, to, wide)
<1>1. CASE wide = Everyone
  <2>1. narrow = Companies /\ narrow # Everyone
    BY <1>1, SummariesAssumption DEF Widens
  <2> QED
    BY <1>1, <2>1 DEF CompanyRows, UserRows, OfCohort
<1>2. CASE wide # Everyone
  <2>1. wide \subseteq Companies /\ narrow \subseteq wide
    BY <1>2 DEF Widens, Cohorts
  <2>2. narrow # Everyone
    BY <2>1, SummariesAssumption
  <2> QED
    BY <1>2, <2>1, <2>2 DEF CompanyRows, UserRows, OfCohort
<1> QED
  BY <1>1, <1>2

\* So are its figures.
LEMMA FiguresNarrower ==
    ASSUME FactsSound, TablesMade, NEW grain \in Grains, NEW key, NEW from, NEW to,
           NEW narrow \in Cohorts, NEW wide \in Cohorts, Widens(narrow, wide)
    PROVE  AtMost(Figures(grain, key, from, to, narrow), Figures(grain, key, from, to, wide))
<1> DEFINE C(c) == CompaniesOf(grain, key, from, to, c)
           U(c) == UsersOf(grain, key, from, to, c)
           A(c) == CompanyRows(from, to, c)
           D(c) == Reached(grain, key, from, to, c)
           S(c) == MeasuresOf(grain, key, from, to, c)
<1>1. TablesLinked
  BY TablesFit
<1>2. /\ narrow # Everyone
      /\ A(narrow) \subseteq A(wide) /\ UserRows(from, to, narrow) \subseteq UserRows(from, to, wide)
  BY <1>1, RowsNarrower
<1>3. C(narrow) \subseteq C(wide) /\ U(narrow) \subseteq U(wide)
  BY <1>2 DEF CompaniesOf, UsersOf, OfKey
<1>4. D(narrow) \subseteq D(wide)
  BY <1>3 DEF Reached, Adopters
<1>5. /\ IsFiniteSet(tables.companies) /\ IsFiniteSet(tables.users) /\ IsFiniteSet(tables.pages)
      /\ A(wide) \subseteq tables.companies /\ C(wide) \subseteq tables.companies
      /\ U(wide) \subseteq tables.users
  BY <1>1 DEF TablesLinked, Dated, CompaniesOf, CompanyRows, UsersOf, UserRows, OfKey, OfCohort, Within
<1>6. IsFiniteSet(D(wide))
  <2> DEFINE h == [r \in tables.users |-> r.user]
  <2>1. D(wide) \subseteq {h[r] : r \in tables.users}
    BY DEF Reached, Candidates, OfKey, Within
  <2> HIDE DEF h
  <2>2. IsFiniteSet({h[r] : r \in tables.users})
    BY <1>5, ImageFinite
  <2> QED
    BY <2>1, <2>2, FS_Subset
<1> HIDE DEF A, C, U, D
<1>7. /\ Cardinality(Names(C(narrow), "company")) <= Cardinality(Names(C(wide), "company"))
      /\ Cardinality(Names(U(narrow), "user")) <= Cardinality(Names(U(wide), "user"))
      /\ Cardinality(Names(A(narrow), "company")) <= Cardinality(Names(A(wide), "company"))
  <2>1. IsFiniteSet(C(wide)) /\ IsFiniteSet(U(wide)) /\ IsFiniteSet(A(wide))
    BY <1>5, FS_Subset
  <2> QED
    BY <1>2, <1>3, <2>1, NamesFewer
<1>8. Cardinality(D(narrow)) <= Cardinality(D(wide))
  BY <1>4, <1>6, FS_Subset
<1>9. ASSUME NEW f \in Measures PROVE FieldSum(f, S(narrow)) <= FieldSum(f, S(wide))
  <2>1. CASE wide # Everyone
    <3>1. S(narrow) = C(narrow) /\ S(wide) = C(wide)
      BY <1>2, <2>1 DEF MeasuresOf, MeasureRows, C, CompaniesOf, CompanyRows
    <3>2. IsFiniteSet(C(wide))
      BY <1>5, FS_Subset
    <3>3. \A r \in C(wide) : r[f] \in Nat
      BY <1>1, <1>5 DEF TablesLinked, Measured, Measures
    <3>4. FieldSum(f, C(narrow)) <= FieldSum(f, C(wide))
      BY <1>3, <3>2, <3>3, FieldSumMonotone
    <3> QED
      BY <3>1, <3>4
  <2>2. CASE wide = Everyone
    <3> DEFINE R == Picked(tables.companies, grain, key, from, to, Everyone)
               Q == Picked(tables.pages, grain, key, from, to, Everyone)
    <3>1. S(narrow) = C(narrow) /\ C(wide) = R /\ S(wide) = Q
      BY <1>2, <2>2, RowsPicked DEF C
    <3>2. FieldSum(f, R) <= FieldSum(f, Q)
      BY CompaniesWithin
    <3>3. IsFiniteSet(C(wide))
      BY <1>5, FS_Subset
    <3>4. \A r \in C(wide) : r[f] \in Nat
      BY <1>1, <1>5 DEF TablesLinked, Measured, Measures
    <3>5. FieldSum(f, C(narrow)) <= FieldSum(f, C(wide))
      BY <1>3, <3>3, <3>4, FieldSumMonotone
    <3>6. IsFiniteSet(Q) /\ \A r \in Q : r[f] \in Nat
      <4>1. Q \subseteq tables.pages
        BY DEF Picked, OfKey, OfCohort, Within
      <4> HIDE DEF Q
      <4> QED
        BY <1>1, <1>5, <4>1, FS_Subset DEF TablesLinked, Measured, Measures
    <3>7. FieldSum(f, C(narrow)) \in Nat /\ FieldSum(f, C(wide)) \in Nat /\ FieldSum(f, Q) \in Nat
      <4>1. IsFiniteSet(C(narrow)) /\ \A r \in C(narrow) : r[f] \in Nat
        BY <1>3, <3>3, <3>4, FS_Subset
      <4> HIDE DEF Q
      <4> QED
        BY <3>3, <3>4, <3>6, <4>1, FieldSumStep
    <3> HIDE DEF R, Q, S
    <3> QED
      BY <3>1, <3>2, <3>5, <3>7
  <2> QED
    BY <2>1, <2>2
<1>10. /\ FieldSum("visits", S(narrow)) <= FieldSum("visits", S(wide))
       /\ FieldSum("clicked", S(narrow)) <= FieldSum("clicked", S(wide))
       /\ FieldSum("engaged", S(narrow)) <= FieldSum("engaged", S(wide))
       /\ FieldSum("clicks", S(narrow)) <= FieldSum("clicks", S(wide))
  BY <1>9 DEF Measures
<1> QED
  BY <1>7, <1>8, <1>10 DEF AtMost, Figures, A, C, U, D

\* All companies together have the companies of the unfiltered report.
LEMMA CompaniesTogether ==
    ASSUME TablesLinked, NEW grain, NEW key, NEW from, NEW to
    PROVE  Figures(grain, key, from, to, Companies).companies = Figures(grain, key, from, to, Everyone).companies
<1>1. CompanyRows(from, to, Companies) = CompanyRows(from, to, Everyone)
  BY SummariesAssumption DEF TablesLinked, CompanyRows, OfCohort, Within
<1>2. CompaniesOf(grain, key, from, to, Companies) = CompaniesOf(grain, key, from, to, Everyone)
  BY <1>1 DEF CompaniesOf
<1> QED
  BY <1>2 DEF Figures

----------------------------------------------------------------------------
(* Adoption stays within 100 %.                                            *)

\* The rows of one day.
LEMMA WithinOneDay ==
    ASSUME NEW R, Dated(R), NEW d \in Nat
    PROVE  Within(R, d, d) = On(R, d)
<1>1. \A r \in R : r.date \in Nat
  BY DEF Dated
<1> QED
  BY <1>1 DEF Within, On

\* The active companies and users of a day are those of its rows: of the project's
\* because the tables of the day agree.
LEMMA ActivesCounted ==
    ASSUME TablesLinked, DaysAgree, NEW d \in Days, NEW cohort,
           cohort = Everyone \/ CompanyRows(d, d, cohort) # {}
    PROVE  /\ DailyActives(d, cohort).companies = Cardinality(Names(CompanyRows(d, d, cohort), "company"))
           /\ DailyActives(d, cohort).users = Cardinality(Names(UserRows(d, d, cohort), "user"))
<1>1. /\ CountOf(CompanyRows(d, d, cohort), LAMBDA r : r.company)
             = Cardinality(Names(CompanyRows(d, d, cohort), "company"))
      /\ CountOf(UserRows(d, d, cohort), LAMBDA r : r.user)
             = Cardinality(Names(UserRows(d, d, cohort), "user"))
  BY DEF CountOf, Names
<1>2. CASE cohort # Everyone
  <2>1. DailyActives(d, cohort) =
          [companies |-> CountOf(CompanyRows(d, d, cohort), LAMBDA r : r.company),
           users     |-> CountOf(UserRows(d, d, cohort), LAMBDA r : r.user)]
    BY <1>2 DEF DailyActives, CohortDaily
  <2> QED
    BY <1>1, <2>1
<1>3. CASE cohort = Everyone
  <2>1. d \in Nat
    BY LastDay DEF Days
  <2>2. CompanyRows(d, d, cohort) = On(tables.companies, d) /\ UserRows(d, d, cohort) = On(tables.users, d)
    BY <1>3, <2>1, WithinOneDay DEF TablesLinked, CompanyRows, UserRows, OfCohort
  <2>3. /\ Total(On(tables.project, d), LAMBDA r : r.companies)
               = CountOf(On(tables.companies, d), LAMBDA r : r.company)
        /\ Total(On(tables.project, d), LAMBDA r : r.users)
               = CountOf(On(tables.users, d), LAMBDA r : r.user)
    BY DEF DaysAgree
  <2>4. DailyActives(d, cohort) =
          [companies |-> Total(On(tables.project, d), LAMBDA r : r.companies),
           users     |-> Total(On(tables.project, d), LAMBDA r : r.users)]
    BY <1>3 DEF DailyActives, ProjectDay
  <2> QED
    BY <1>1, <2>2, <2>3, <2>4
<1> QED
  BY <1>2, <1>3

\* The counts stored with a page are of visits whose companies and users have rows.
LEMMA StoredWithin ==
    ASSUME FactsSound, TablesMade, NEW d \in Days, NEW key,
           MeasuresOf("page", key, d, d, Everyone) # {}
    PROVE  /\ StoredCounts(key, d).companies <= Cardinality(Names(CompanyRows(d, d, Everyone), "company"))
           /\ StoredCounts(key, d).users <= Cardinality(Names(UserRows(d, d, Everyone), "user"))
<1> DEFINE E == Eligible(visits)
           P == MeasuresOf("page", key, d, d, Everyone)
           D == DayOf(visits, d)
<1>1. /\ Counted(visits) /\ Counted(E) /\ \A v \in visits : Day(v.start) \in Nat
  BY StoredVisits
<1>2. E \subseteq visits /\ \A v \in E : Day(v.start) \in Nat
  BY <1>1 DEF Eligible
<1>3. tables.pages = PageDaily(E) /\ tables.companies = CompanyDaily(visits) /\ tables.users = UserDaily(visits)
  BY DEF TablesMade
<1>4. TablesLinked /\ d \in Nat
  BY TablesFit, LastDay DEF Days
<1>5. \A r \in P : r \in PageDaily(E) /\ r.date = d /\ key = <<r.area, r.rule>>
  <2>1. P = OfKey("page", On(tables.pages, d), key)
    BY <1>4, WithinOneDay DEF TablesLinked, MeasuresOf, MeasureRows
  <2> QED
    BY <1>3, <2>1 DEF OfKey, On, RowKey
<1>6. PICK r : r \in P
  OBVIOUS
<1> HIDE DEF E, P
<1>7. P = {r}
  <2>1. ASSUME NEW q \in P PROVE q = r
    <3>1. Beside(r, q)
      BY <1>5, <1>6 DEF Beside
    <3> QED
      BY <1>1, <1>2, <1>5, <1>6, <3>1, PagesStand
  <2> QED
    BY <1>6, <2>1
<1>8. StoredCounts(key, d).companies = FieldSum("companies", P) /\ StoredCounts(key, d).users = FieldSum("users", P)
  BY Totals DEF StoredCounts, P, MeasuresOf, MeasureRows
<1> DEFINE g == PageVisits(E, r)
<1>9. /\ r["companies"] = Cardinality(Names(g, "company"))
      /\ r["users"] = Cardinality(Names(g, "user"))
  BY <1>1, <1>2, <1>5, <1>6, PagesStand
<1>10. g \subseteq D /\ IsFiniteSet(D)
  <2>1. D \subseteq visits /\ IsFiniteSet(visits)
    BY <1>1 DEF DayOf, Counted
  <2>2. IsFiniteSet(D)
    BY <2>1, FS_Subset
  <2> QED
    BY <1>2, <1>5, <1>6, <2>2 DEF PageVisits, PageGroup, DayOf
<1> HIDE DEF g, D
<1>11. /\ Cardinality(Names(g, "company")) <= Cardinality(Names(D, "company"))
       /\ Cardinality(Names(g, "user")) <= Cardinality(Names(D, "user"))
  BY <1>10, NamesFewer
<1>12. IsFiniteSet(g)
  BY <1>10, FS_Subset
<1>13. Cardinality(Names(g, "company")) \in Nat /\ Cardinality(Names(g, "user")) \in Nat
  BY <1>12, NamesFinite
<1>14. FieldSum("companies", P) = r["companies"] /\ FieldSum("users", P) = r["users"]
  BY <1>7, <1>9, <1>13, FieldSumOne
<1>15. /\ CompanyRows(d, d, Everyone) = On(tables.companies, d)
       /\ UserRows(d, d, Everyone) = On(tables.users, d)
  BY <1>4, WithinOneDay DEF TablesLinked, CompanyRows, UserRows, OfCohort
<1>16. /\ Names(CompanyRows(d, d, Everyone), "company") = Names(D, "company")
       /\ Names(UserRows(d, d, Everyone), "user") = Names(D, "user")
  BY <1>3, <1>15, CompanyNames, UserNames DEF D
<1> QED
  BY <1>8, <1>9, <1>11, <1>14, <1>16

\* On no day does a row have more companies or users than are active.
LEMMA AdoptionWithin ==
    ASSUME FactsSound, TablesMade, DaysAgree, NEW grain \in Grains, NEW key, NEW d \in Days, NEW cohort
    PROVE  WithinCohort(DailyRow(grain, key, d, cohort), d, cohort)
<1> DEFINE M == MeasuresOf(grain, key, d, d, cohort)
           row == DailyRow(grain, key, d, cohort)
           A == CompanyRows(d, d, cohort)
           B == UserRows(d, d, cohort)
           C == CompaniesOf(grain, key, d, d, cohort)
           U == UsersOf(grain, key, d, d, cohort)
<1>1. TablesLinked
  BY TablesFit
<1>2. IsFiniteSet(A) /\ IsFiniteSet(B) /\ C \subseteq A /\ U \subseteq B
  <2>1. A \subseteq tables.companies /\ B \subseteq tables.users
    BY DEF CompanyRows, UserRows, OfCohort, Within
  <2>2. IsFiniteSet(tables.companies) /\ IsFiniteSet(tables.users)
    BY <1>1 DEF TablesLinked, Dated
  <2>3. C \subseteq A /\ U \subseteq B
    BY DEF CompaniesOf, UsersOf, OfKey
  <2> QED
    BY <2>1, <2>2, <2>3, FS_Subset
<1>3. /\ Cardinality(Names(C, "company")) <= Cardinality(Names(A, "company"))
      /\ Cardinality(Names(U, "user")) <= Cardinality(Names(B, "user"))
  <2> HIDE DEF A, B, C, U
  <2> QED
    BY <1>2, NamesFewer
<1>4. Cardinality(Names(A, "company")) \in Nat /\ Cardinality(Names(B, "user")) \in Nat
  <2> HIDE DEF A, B
  <2> QED
    BY <1>2, NamesFinite
<1>5. cohort # Everyone /\ A = {} => M = {}
  BY DEF MeasuresOf, MeasureRows, OfKey, CompanyRows
<1>6. CASE M = {}
  <2>1. row = NoDaily
    BY <1>6 DEF DailyRow, MeasuresOf
  <2>2. row.companies = 0 /\ row.users = 0
    BY <2>1 DEF NoDaily
  <2>3. CASE cohort = Everyone \/ A # {}
    <3>1. /\ DailyActives(d, cohort).companies = Cardinality(Names(A, "company"))
          /\ DailyActives(d, cohort).users = Cardinality(Names(B, "user"))
      BY <1>1, <2>3, ActivesCounted
    <3> HIDE DEF row, A, B
    <3> QED
      BY <1>4, <2>2, <3>1 DEF WithinCohort, row
  <2>4. CASE cohort # Everyone /\ A = {}
    <3>1. DailyActives(d, cohort) = [companies |-> 0, users |-> 0]
      BY <2>4 DEF DailyActives, CohortDaily
    <3> HIDE DEF row
    <3> QED
      BY <2>2, <3>1 DEF WithinCohort, row
  <2> QED
    BY <2>3, <2>4
<1>7. CASE M # {}
  <2>1. /\ DailyActives(d, cohort).companies = Cardinality(Names(A, "company"))
        /\ DailyActives(d, cohort).users = Cardinality(Names(B, "user"))
    BY <1>1, <1>5, <1>7, ActivesCounted
  <2>2. CASE grain = "page" /\ cohort = Everyone
    <3>1. row.companies = StoredCounts(key, d).companies /\ row.users = StoredCounts(key, d).users
      BY <1>7, <2>2 DEF DailyRow, MeasuresOf
    <3>2. /\ StoredCounts(key, d).companies <= Cardinality(Names(A, "company"))
          /\ StoredCounts(key, d).users <= Cardinality(Names(B, "user"))
      BY <1>7, <2>2, StoredWithin
    <3> HIDE DEF row, A, B
    <3> QED
      BY <2>1, <3>1, <3>2 DEF WithinCohort, row
  <2>3. CASE ~ (grain = "page" /\ cohort = Everyone)
    <3>1. /\ row.companies = DailyCounts(grain, key, d, cohort).companies
          /\ row.users = DailyCounts(grain, key, d, cohort).users
      BY <1>7, <2>3 DEF DailyRow, MeasuresOf
    <3>2. /\ DailyCounts(grain, key, d, cohort).companies = Cardinality(Names(C, "company"))
          /\ DailyCounts(grain, key, d, cohort).users = Cardinality(Names(U, "user"))
      BY DEF DailyCounts, CountOf, Names, CompaniesOf, UsersOf
    <3> HIDE DEF row, A, B, C, U
    <3> QED
      BY <1>3, <2>1, <3>1, <3>2 DEF WithinCohort, row
  <2> QED
    BY <2>2, <2>3
<1> QED
  BY <1>6, <1>7

\* Filters narrow the reports.
LEMMA FiltersStayNarrow == FactsSound /\ TablesMade /\ DaysAgree => FiltersNarrow
<1> SUFFICES ASSUME FactsSound, TablesMade, DaysAgree, NEW grain \in Grains, NEW p \in Periods, NEW key
             PROVE  /\ \A narrow, wide \in Cohorts :
                          LET n == ChangeRow(grain, key, p[1], p[2], narrow)
                              w == ChangeRow(grain, key, p[1], p[2], wide)
                          IN  Widens(narrow, wide) => \A f \in DOMAIN n : n[f] <= w[f]
                    /\ ChangeRow(grain, key, p[1], p[2], Companies).companies
                           = ChangeRow(grain, key, p[1], p[2], Everyone).companies
                    /\ p[1] = p[2] =>
                          \A cohort \in Cohorts : WithinCohort(DailyRow(grain, key, p[1], cohort), p[1], cohort)
  BY DEF FiltersNarrow
<1>1. p[1] \in Days
  BY DEF Periods
<1>2. TablesLinked
  BY TablesFit
<1>3. ASSUME NEW narrow \in Cohorts, NEW wide \in Cohorts, Widens(narrow, wide)
      PROVE  \A f \in DOMAIN ChangeRow(grain, key, p[1], p[2], narrow) :
                 ChangeRow(grain, key, p[1], p[2], narrow)[f] <= ChangeRow(grain, key, p[1], p[2], wide)[f]
  <2> DEFINE n == Figures(grain, key, p[1], p[2], narrow)
             w == Figures(grain, key, p[1], p[2], wide)
  <2>1. /\ ChangeRow(grain, key, p[1], p[2], narrow) = n
        /\ ChangeRow(grain, key, p[1], p[2], wide) = w
    BY <1>2, ChangeRows
  <2>2. AtMost(n, w)
    BY <1>3, FiguresNarrower
  <2>3. DOMAIN n = {"companies", "users", "active", "denominator", "visits", "engaged", "clicks", "clicked"}
    BY DEF Figures
  <2> HIDE DEF n, w
  <2>4. \A f \in DOMAIN n : n[f] <= w[f]
    BY <2>2, <2>3 DEF AtMost
  <2> QED
    BY <2>1, <2>4
<1>4. ChangeRow(grain, key, p[1], p[2], Companies).companies
          = ChangeRow(grain, key, p[1], p[2], Everyone).companies
  <2>1. Companies \in Cohorts /\ Everyone \in Cohorts
    BY DEF Cohorts
  <2> QED
    BY <1>2, <2>1, ChangeRows, CompaniesTogether
<1>5. ASSUME NEW cohort \in Cohorts
      PROVE  WithinCohort(DailyRow(grain, key, p[1], cohort), p[1], cohort)
  BY <1>1, AdoptionWithin
<1> QED
  BY <1>3, <1>4, <1>5

----------------------------------------------------------------------------
(* Flows.                                                                  *)

\* The pages that a transition links.
Link(t) == <<FlowKey(FromVisit(t)), FlowKey(ToVisit(t))>>

\* The transitions from the rule, of those that link p[1] to p[2],
Leaving(rule, p) == {t \in transitions : FromVisit(t).rule = rule /\ p = Link(t)}

\* and those to it.
Entering(rule, p) == {t \in transitions : ToVisit(t).rule = rule /\ p = Link(t)}

\* The transitions are finitely many, between stored visits and on days of the reports.
LEMMA LinkedVisits ==
    ASSUME FactsSound
    PROVE  /\ IsFiniteSet(transitions)
           /\ \A t \in transitions : /\ FromVisit(t) \in visits /\ ToVisit(t) \in visits
                                     /\ OnDays(t.to.start, 0, Max(Days))
<1> DEFINE E == Eligible(visits)
<1>1. EventsSound(events) /\ VisitsSound(visits, events) /\ TransitionsRight(visits, transitions)
  BY DEF FactsSound
<1>2. transitions \subseteq TransitionsOf(E)
  BY <1>1 DEF TransitionsRight
<1>3. E \subseteq visits /\ IsFiniteSet(E)
  <2>1. E \subseteq visits /\ IsFiniteSet(visits)
    BY <1>1 DEF VisitsSound, Eligible
  <2> QED
    BY <2>1, FS_Subset
<1>4. IsFiniteSet(transitions)
  <2> DEFINE h == [q \in E \X E |-> [from |-> VisitKey(q[1]), to |-> VisitKey(q[2])]]
  <2>1. TransitionsOf(E) \subseteq {h[q] : q \in E \X E}
    BY DEF TransitionsOf
  <2>2. IsFiniteSet(E \X E)
    BY <1>3, FS_Product
  <2> HIDE DEF h
  <2>3. IsFiniteSet({h[q] : q \in E \X E})
    BY <2>2, ImageFinite
  <2> QED
    BY <1>2, <2>1, <2>3, FS_Subset
<1>5. ASSUME NEW t \in transitions
      PROVE  /\ FromVisit(t) \in visits /\ ToVisit(t) \in visits
             /\ OnDays(t.to.start, 0, Max(Days))
  <2>1. PICK v \in E, w \in E : t = [from |-> VisitKey(v), to |-> VisitKey(w)]
    BY <1>2, <1>5, TransitionKeys
  <2>2. v \in visits /\ VisitKey(v) = t.from /\ w \in visits /\ VisitKey(w) = t.to
    BY <1>3, <2>1
  <2>3. FromVisit(t) \in visits
    BY <2>2 DEF FromVisit
  <2>4. ToVisit(t) \in visits
    BY <2>2 DEF ToVisit
  <2>5. t.to.start = w.start
    BY <2>2 DEF VisitKey
  <2>6. w.start \in Times /\ Day(w.start) \in Nat
    BY <1>1, <2>2, VisitTyped
  <2> QED
    BY <2>3, <2>4, <2>5, <2>6, LastDay DEF OnDays
<1> QED
  BY <1>4, <1>5

\* A URL is never the key of a rule.
LEMMA KeyOfRule ==
    ASSUME FactsSound, NEW v \in visits, NEW w \in visits, w.rule # None, FlowKey(v) = w.rule
    PROVE  v.rule = w.rule
<1>1. EventsSound(events) /\ VisitsSound(visits, events)
  BY DEF FactsSound
<1>2. PICK e \in events : v.url = e.page.url /\ v.rule = e.page.rule
  BY <1>1 DEF VisitsSound
<1>3. PICK f \in events : w.url = f.page.url /\ w.rule = f.page.rule
  BY <1>1 DEF VisitsSound
<1>4. e.page \in Pages /\ f.page \in Pages
  BY <1>1 DEF EventsSound, Event
<1> QED
  BY <1>2, <1>3, <1>4, SummariesAssumption DEF FlowKey

\* Reading a flow with one condition or with two is the same: a transition between two
\* pages does not both leave and enter one of them.
LEMMA FlowsRead ==
    ASSUME FactsSound, NEW rule, rule # None
    PROVE  DetailFlow(rule) = DetailFlowByRule(rule)
<1> DEFINE Q == {q \in FlowPairs : q[1] # q[2]}
           One(p) == Cardinality({t \in transitions :
                        /\ FromVisit(t).rule = rule \/ ToVisit(t).rule = rule
                        /\ p = <<FlowKey(FromVisit(t)), FlowKey(ToVisit(t))>>})
           Two(p) == Cardinality({t \in transitions :
                        FromVisit(t).rule = rule /\ p = <<FlowKey(FromVisit(t)), FlowKey(ToVisit(t))>>})
                     + Cardinality({t \in transitions :
                        ToVisit(t).rule = rule /\ p = <<FlowKey(FromVisit(t)), FlowKey(ToVisit(t))>>})
<1>1. DetailFlow(rule) = [p \in Q |-> One(p)]
  BY DEF DetailFlow
<1>2. DetailFlowByRule(rule) = [p \in Q |-> Two(p)]
  BY DEF DetailFlowByRule
<1>3. ASSUME NEW p \in Q PROVE One(p) = Two(p)
  <2> DEFINE A == Leaving(rule, p)
             B == Entering(rule, p)
  <2>1. One(p) = Cardinality(A \cup B)
    <3>1. A \cup B = {t \in transitions :
                        /\ FromVisit(t).rule = rule \/ ToVisit(t).rule = rule
                        /\ p = <<FlowKey(FromVisit(t)), FlowKey(ToVisit(t))>>}
      BY DEF Leaving, Entering, Link
    <3> QED
      BY <3>1
  <2>2. Two(p) = Cardinality(A) + Cardinality(B)
    BY DEF Leaving, Entering, Link
  <2>3. A \cap B = {}
    <3> SUFFICES ASSUME NEW t \in A, t \in B PROVE FALSE
      OBVIOUS
    <3>1. FlowKey(FromVisit(t)) = rule /\ FlowKey(ToVisit(t)) = rule
      BY DEF Leaving, Entering, FlowKey
    <3>2. p[1] = p[2]
      BY <3>1 DEF Leaving, Link
    <3> QED
      BY <3>2
  <2>4. IsFiniteSet(A) /\ IsFiniteSet(B)
    <3>1. A \subseteq transitions /\ B \subseteq transitions
      BY DEF Leaving, Entering
    <3> QED
      BY <3>1, LinkedVisits, FS_Subset
  <2> HIDE DEF A, B, One, Two
  <2>5. Cardinality(A \cup B) = Cardinality(A) + Cardinality(B)
    <3>1. Cardinality(A \cup B) = Cardinality(A) + Cardinality(B) - Cardinality(A \cap B)
      BY <2>4, FS_Union
    <3>2. Cardinality(A) \in Nat /\ Cardinality(B) \in Nat /\ Cardinality(A \cap B) = 0
      BY <2>3, <2>4, FS_CardinalityType, FS_EmptySet
    <3> QED
      BY <3>1, <3>2
  <2> QED
    BY <2>1, <2>2, <2>5
<1> HIDE DEF Q, One, Two
<1> QED
  BY <1>1, <1>2, <1>3

\* The transitions from a to b.
Moving(a, b) ==
    {t \in {u \in transitions : OnDays(u.to.start, 0, Max(Days))} :
        FromVisit(t).rule = a /\ ToVisit(t).rule = b}

\* The movement between two pages is the flow from the one to the other.
LEMMA MovementsRead ==
    ASSUME FactsSound, NEW p \in DOMAIN TwoWayMovement(0, Max(Days))
    PROVE  TwoWayMovement(0, Max(Days))[p] = DetailFlow(p[1])[p]
<1> DEFINE rules == {v.rule : v \in visits} \ {None}
           T == TwoWayMovement(0, Max(Days))
           L == {t \in transitions : /\ FromVisit(t).rule = p[1] \/ ToVisit(t).rule = p[1]
                                     /\ p = <<FlowKey(FromVisit(t)), FlowKey(ToVisit(t))>>}
<1>1. T = [q \in {r \in rules \X rules : /\ r[1] # r[2] /\ Cardinality(Moving(r[1], r[2])) > 0
                                         /\ Cardinality(Moving(r[2], r[1])) > 0} |->
              Cardinality(Moving(q[1], q[2]))]
  BY DEF TwoWayMovement, Moving
<1>2. /\ p \in rules \X rules /\ p[1] # p[2] /\ Cardinality(Moving(p[1], p[2])) > 0
      /\ T[p] = Cardinality(Moving(p[1], p[2]))
  <2> HIDE DEF rules
  <2> QED
    BY <1>1
<1>3. p[1] \in rules /\ p[2] \in rules /\ p = <<p[1], p[2]>>
  BY <1>2
<1>4. \E v, w \in visits : v.rule = p[1] /\ w.rule = p[2] /\ p[1] # None /\ p[2] # None
  BY <1>3
<1>5. ASSUME NEW t \in transitions
      PROVE  /\ FromVisit(t) \in visits /\ ToVisit(t) \in visits
             /\ OnDays(t.to.start, 0, Max(Days))
  BY LinkedVisits
<1>6. ASSUME NEW t \in transitions
      PROVE  p = Link(t) <=> FromVisit(t).rule = p[1] /\ ToVisit(t).rule = p[2]
  <2>1. PICK v \in visits, w \in visits : v.rule = p[1] /\ w.rule = p[2] /\ p[1] # None /\ p[2] # None
    BY <1>4
  <2>2. FlowKey(FromVisit(t)) = p[1] <=> FromVisit(t).rule = p[1]
    <3>1. ASSUME FlowKey(FromVisit(t)) = p[1] PROVE FromVisit(t).rule = p[1]
      BY <1>5, <2>1, <3>1, KeyOfRule
    <3> QED
      BY <2>1, <3>1 DEF FlowKey
  <2>3. FlowKey(ToVisit(t)) = p[2] <=> ToVisit(t).rule = p[2]
    <3>1. ASSUME FlowKey(ToVisit(t)) = p[2] PROVE ToVisit(t).rule = p[2]
      BY <1>5, <2>1, <3>1, KeyOfRule
    <3> QED
      BY <2>1, <3>1 DEF FlowKey
  <2>4. p = Link(t) <=> FlowKey(FromVisit(t)) = p[1] /\ FlowKey(ToVisit(t)) = p[2]
    <3> DEFINE x == FlowKey(FromVisit(t))
               y == FlowKey(ToVisit(t))
    <3>1. Link(t) = <<x, y>>
      BY DEF Link
    <3> HIDE DEF x, y
    <3>2. p = <<x, y>> <=> x = p[1] /\ y = p[2]
      BY <1>3
    <3> QED
      BY <3>1, <3>2 DEF x, y
  <2> QED
    BY <2>2, <2>3, <2>4
<1>7. L = Moving(p[1], p[2])
  <2>1. \A t \in transitions : t \in L <=> p = Link(t)
    <3> SUFFICES ASSUME NEW t \in transitions PROVE t \in L <=> p = Link(t)
      OBVIOUS
    <3>1. t \in L <=> (FromVisit(t).rule = p[1] \/ ToVisit(t).rule = p[1]) /\ p = Link(t)
      BY DEF Link
    <3> QED
      BY <1>6, <3>1
  <2>2. \A t \in transitions : t \in Moving(p[1], p[2]) <=> FromVisit(t).rule = p[1] /\ ToVisit(t).rule = p[2]
    BY <1>5 DEF Moving
  <2>3. L \subseteq transitions /\ Moving(p[1], p[2]) \subseteq transitions
    BY DEF Moving
  <2> HIDE DEF L
  <2> QED
    BY <1>6, <2>1, <2>2, <2>3
<1>8. p \in FlowPairs
  <2>1. Moving(p[1], p[2]) # {}
    BY <1>2, FS_EmptySet
  <2>2. PICK t \in transitions : FromVisit(t).rule = p[1] /\ ToVisit(t).rule = p[2]
    BY <2>1 DEF Moving
  <2>3. p = Link(t)
    BY <1>6, <2>2
  <2> QED
    BY <2>3 DEF FlowPairs, Link
<1>9. DetailFlow(p[1])[p] = Cardinality(L)
  BY <1>2, <1>8 DEF DetailFlow
<1> QED
  BY <1>2, <1>7, <1>9

\* The queries of the transitions agree.
LEMMA FlowsStayAlike == FactsSound => FlowsAgree
<1> SUFFICES ASSUME FactsSound PROVE FlowsAgree
  OBVIOUS
<1>1. \A rule \in {v.rule : v \in visits} \ {None} : DetailFlow(rule) = DetailFlowByRule(rule)
  BY FlowsRead
<1>2. \A p \in DOMAIN TwoWayMovement(0, Max(Days)) :
          TwoWayMovement(0, Max(Days))[p] = DetailFlow(p[1])[p]
  BY MovementsRead
<1> QED
  BY <1>1, <1>2 DEF FlowsAgree

\* Between two rebuilds the reports agree with each other and with themselves: the series
\* of a period end in its figures, a filter never shows more than the report it narrows,
\* and the flows are the same however the transitions are read (apps/pages/queries.py).
THEOREM ReportsStayAlike == Spec => []ReportsAgree
<1>1. FactsSound /\ TablesMade /\ DaysAgree => ReportsAgree
  <2> SUFFICES ASSUME FactsSound, TablesMade, DaysAgree PROVE ReportsAgree
    OBVIOUS
  <2>1. PeriodToDateExact
    BY TablesFit, SeriesExact
  <2>2. FiltersNarrow
    BY FiltersStayNarrow
  <2>3. FlowsAgree
    BY FlowsStayAlike
  <2> QED
    BY <2>1, <2>2, <2>3 DEF ReportsAgree
<1> QED
  BY <1>1, FactsStaySound, TablesStayMade, DaysStayAlike, PTL
=============================================================================
